# K-invest: TLA+ models, checks and proofs

K-invest is a read-only MCP server over brokerage and crypto accounts. What it
*stores* must never be wrong: a permanent ledger of facts, a daily NAV series, the
imported statements, and the grants that let a chat client in. What it *tells* is
either true or said to be incomplete: gains, worth, returns, flows. The stores are
shared by the threads of the server, by timers that run scripts beside it, and by
older releases that open the same SQLite file; the answers are put together from
many reads of providers that fail, are cut short and change meanwhile. This
directory models both, checks the models with TLC on small instances, and proves
the main invariants with TLAPS for every instance.

`X.tla` is a component. `MCX.tla` with its `.cfg` instantiates one, or several that
share no state, for TLC (`MCOAuthIdle.cfg` is one of `OAuthGrants` itself). `XProofs.tla` holds theorems. `PROJECT.json` says which
source lines each definition models, which run checks which property, which
plausible bug of the code each property would catch, and which hazards of the code
the properties are about.

## The system

| Component | State | What makes it hard | What makes it correct | Modules |
|---|---|---|---|---|
| Permanent ledger (`portfolio_ledger.py`) | events with enrichments, status revisions, conflicts, evidence, coverage | plans are prepared without the lock, batches commit for half a second each, calls end anywhere, ids changed between releases | facts only grow, nothing is stored twice, coverage is claimed only for what can be read back | `LedgerFacts`, `Ledger` |
| OAuth grants (`oauth_store.py`, `oauth_provider.py`) | consents, codes, token pairs, families | handlers load in one transaction and act in another; lost answers are retried; rows are purged | each consent and code is used once, a session only narrows and ends, a retry is no replay | `OAuthSessions`, `OAuthGrants` |
| NAV store (`portfolio_store.py`, `scripts/snapshot_nav.py`) | rows, immutable versions, representatives, attempts | collection crosses midnight; every transaction imports; writers differ in evidence | stored observations stay, imports end | `NavHistory`, `NavStore` |
| NAV evidence (`daily_nav.py`, `crypto_nav_capture.py`) | what a day's snapshot knows of its moment | it is read in passes while accounts trade and transfer | a worth that is told is of one moment of its day | `NavEvidence`, `CryptoCapture` |
| Daily collection (`scripts/collect_ledger.py`) | windows, run ids | a run dies between streams | a window that is claimed was read | `FlowRecords`, `CryptoFlows`, `Ledger` |
| Cash-flow inference (`toss_flow_inference.py`, `kis_flow_inference.py`, `crypto_flow_*.py`) | none | trades, dividends and settlements look like deposits | what is told as a flow moved | `TossFlows`, `KisFlows`, `CryptoFlows` |
| Returns (`interval_returns.py`, `ledger_returns.py`) | none | snapshots are captured again, intervals overlap | no return over only the resolved days | `IntervalReturns`, `FlowRecords` |
| Transfer matching (`ledger_flows.py`) | pairs, classifications | planned outside the lock | one pair per leg, for good | `TransferMatching` |
| Accounting (`portfolio_engine.py`) | none | ledgers start in the middle, rates are missing | a complete basis is the true one | `AccountBook` |
| Statement import (`statement_import.py`) | previews, imports, rows, a salt | previews age; two processes | no row twice, no account rebound | `StatementImport` |
| KIS client (`kis_api.py`) | a token in memory and in a file | processes share the file | no peer's token is lost; a cut history says so | `KisToken`, `ContinuedPages` |
| Toss client (`toss_api.py`) | a token in memory and in a file | no lock; orders close between pages | a resend has another token; evidence is whole | `TossToken`, `OrderScan` |
| Portfolio collection (`portfolio_sources.py`) | shared reads, cursors, cooldowns, cached windows | callers wait on a read they do not own; sessions are evicted | every waiter returns; a resumed history has no gap | `PositionReads`, `Recoveries` |
| Pacing (`provider_pacing.py`) | next admission, cooldown | two budgets nest | spacing and silence hold for all | `RequestPacing` |
| Futures (`crypto_futures_accounts.py`) | positions cache, holder | history reads hold the venues for minutes | partial reads are never kept or valued | `FuturesReads` |
| Dividend cache (`toss_dividend_cache.py`) | one file per symbol | processes and clocks disagree | newest evidence is kept | `DividendCache` |
| Dataset export (`portfolio_export.py`) | frozen datasets | paging races with retention | pages are the frozen rows | `DatasetExport` |
| Owner gate, registration (`owner_gate.py`, `oauth_store.py`) | failures, lock time, attempts | concurrent attempts | limits hold, waits are honest | `OwnerGate` |
| Server (`server.py`, `tools_v2.py`) | singletons | figures from reads at different times | what is told as complete is true | `GainsReport`, `PortfolioView`, `PerformanceReport` |
| Market data (`sec_*.py`, `yfinance_*.py`, `market_series.py`) | none | none: stateless reads | their content | not modelled |

They interact through the SQLite files and token files: a tool call collects from the
providers, the collector's `ledger_observer` preserves what it saw, statements are
merged on top, and the summary may be stored as a NAV snapshot. The timers do the
same from their own processes. Only SQLite's write lock and `flock` order them.

## Runs

| Run | Parts and instance | States |
|---|---|---|
| `ledger` | 2 writers, 3 observations (one daily), 3 ids of which one is another's old identity, batches of 2 | 92 850 |
| `server` | grants (2 requests, 2 clients, 1 consent, 4 grants, time 3; 650 664), gains (2 accounts; 459 937), summary (2 brokers, 2 assets; 574 261), performance (3 days; 1 166 617) | 2 851 479 |
| `nav` | store (836 409), Toss flows (178 912), KIS flows (541 084), crypto flows (1 310 362) | 2 866 767 |
| `kis_token` | 2 clients and 2 processes under `FairSpec` | 860 063 |
| `statements` | statements (2 processes, 2 accounts, 3 files), flow records (3 moves), NAV evidence, captures | 3 707 117 |
| `figures` | cost book (4 trades), returns (4 days, 2 brokers), matching (6 flows, 2 matchers) | 821 808 |
| `threads` | positions, pacing, futures, history, wallets, orders, pages, gate | 1 668 659 |
| `stores` | recoveries, Toss token, dividends, exports | 7 813 746 |
| `oauth_idle`, `kis_token_unlocked`, `statements_two`, `book_rates` | | violations, see Findings |

In a run of several parts a variable `part` says which of them moves. They share no
state, so the states of the run are the sum of theirs and each property speaks of its
part alone. `CHECK_DEADLOCK FALSE`: every instance has bounded time, calls or
retries, after which it may stop; what must not stop is stated as liveness
(`EventuallyPreserved`, `RequestsEnd`, `ThreadsEnd`).

Types are not run: a type invariant is proved for every constant by TLAPS in each
module with theorems, and holds in the others as part of what is proved there.

## Plan

The models of the plan are written; the only components without one are the market
data readers. Of the safety properties one remains without a proof, and that in part:
`InferredFlowsTrue` (see the last section).

## Permanent ledger

`LedgerFacts` is the promise: a set of facts per event that only grows, and
observations claimed as covered only when their rows can be read back. `Ledger`
implements it (`ImplementsFacts`).

A writer is a thread of the server or the daily run inside `preserve_observation`:
`Begin` (normalise and hash), `OpenEvidence` and `WriteEvidence` (exclusive create,
then write), then per batch `PrepareRow` for each row (a read per row, so other
writers commit in between), `SkipBatch` when nothing is new, or `CommitBatch` of the
first *k* rows (the half-second cut of `append_many` may fall anywhere) when each
plan still stands and `ChangedBatch` (fail, roll back) when one does not, and at the
end `Record` for the coverage row. `Fail` is any exception or death. An event's
effective payload, which the code folds from its enrichments at each read, is kept
incrementally. `LegacyOf` gives the identity an older release stored an event
under; `Before` is the ledger it left.

Two writers are enough for any stale plan (one that prepares, one that commits), and
batches of two with rows that share an event give a plan invalidated by its own
batch. Fairness: a running call proceeds (weak), and observers repeat every window
(strong: a writer may be busy with another), which is what timers and tool calls do.
Failures end eventually but are unbounded in number, except while an evidence file is
being written: a process that dies there leaves a partial file which every later call
refuses (`LEDGER_EVIDENCE_CONTENT_MISMATCH`), so the observation is then never
preserved. That is how the code is; `EventuallyPreserved` is stated around it.

**Proved** (`LedgerProofs`): types, `RowsAccountedFor`, `ClaimsAreReadable`,
`NoEventTwice`, `SettledStaysSettled` and `ImplementsFacts`, for any writers, rows
and batch size. The invariant adds to these what a writer in mid-batch knows: its
resolved targets are stable because an event once stored is never removed, and rows
already committed answer for themselves.

Left out: account aliases, the tolerance for float noise of legacy rows (data, in
`same_fact`), transfer classification at insert.

## OAuth grants

`OAuthSessions` is the promise to the owner: each consent leads one session through
none, open, approved, active, ended, and the scopes in reach only shrink after
approval. `OAuthGrants` models each handler as load and act (`CheckConsent` /
`ApproveConsent`, `BeginExchange` / `CommitExchange`, `LoadRefresh` / `Rotate`), and
`UseAccess`, `Revoke`, `RevokeAll`, `Tick`. A grant is a code or a pair of tokens;
columns that statements update are variables of their own.

Four grants are a code, its pair, and two siblings or a child; time 3 passes each
lifetime, the grace and the retention. A first use that chooses among siblings with
children needs five, and is covered by the theorem. The clock is `int(time.time())`
and assumed not to run backwards; access tokens are assumed not to outlive refresh
tokens, as the defaults have it.

**Proved** (`ServerProofs`): types, `SingleUse`, `RetryKeepsScopes`,
`CutBranchesEnd`, `LateUseChooses`, `ImplementsSessions`. The invariant relates the
rows of a family (`GrantOK`), times (`TimesOK`), and what a request in flight has
loaded (`RequestOK`). The key steps: a parent that may still be rotated has all its
children stored and unrevoked; losers of a choice have no children.

Left out: redirect URIs and PKCE, the static client, the consent page, rows of the
first schema without `consumed_at`.

## Snapshots and their evidence

**Store.** `NavHistory` is the promise to a reader of the daily series: per day an
archive that only grows, and a shown observation replaced only by a new one; an
observation asked for in chat never hides evidence that only the scheduled capture
collects (crypto marks, the KIS capture). The one exception is an older release that
opens the same file: it knows no versions and overwrites the row.

`NavStore` models `nav_snapshots` (`projection`), the versions, the representatives
and the attempts. Every transaction of the store, a read's too, first imports each
day whose row differs from its representative (`Stale`, `Migrated`). A job goes
`StartJob` (validate that the date is today), `Collect`, `Capture`, `Store`; it may be
refused or fail at each point, after which it records an attempt in a transaction of
its own, or dies. `LegacyStore` is the upsert of the release kept under
`tests/fixtures`. `DayOf` maps instants to local dates. A version is abstracted to
what readers and writers tell apart: one value for all measurements, the set of
evidence kinds, when it was valued, whether all sources answered. One run of each
kind and two overwrites give every order of the three writers on a day, with readers
anywhere; three instants separate the first time of a day from later ones, on each
side of midnight.

**Proved** (`NavProofs`): types, `DayRecordTrue` (every version carries the time its
day was first recorded; the success count is the number of whole collections stored
for a day and valued on it), `SettledAfterStore`, `ImplementsHistory`, for any jobs,
days and bounds. The lemma `Import` says that after an import each day's row and
representative agree and that it changes nothing a reader sees, `StoreStep` that a
store is an import and one new version, set aside or in front, and `HealthStep` that
only such a version is counted.

A second scheduled run whose crypto capture fails does replace a representative that
has the evidence: only the tool asks to keep it (`portfolio_store.py:216`). The
docstring promises no more, so the abstract specification constrains the tool alone.

**Evidence.** `NavEvidence` (the Toss and KIS side of a day) reads orders, quotes,
the calendar, positions and rates in passes of a limited budget, while orders are
placed and closed, stocks trade and midnight falls in between. `WorthOfItsDay`: a
worth that is told is of a moment of its day. `CryptoCapture` reads two venues on a
timer and in the job, while money is under way from one to the other.
`MoneyCountedOnce`: it is never counted in both. Both are one part of `statements`.
Limits: an order that was open when the positions were read and closed before the
orders page leaves buying power reduced, and is exempt by `closed > closed`; one
transfer at a time, which takes longer than the tolerance between the two reads; a
venue may have been read on the day before the boundary's; the validity of exchange
rates, price ages, the dollar stand-in for stablecoins and the attribution of
reasons to sources are left out.

**Proved** (`StatementProofs`): `EvidenceTrue`, both of these, for any instants,
budgets and flights. `EvidenceInv` says that an order that held cash when the
positions were read is still open or was counted as closed since (`HeldThen`), so a
page that shows none comes later (`NoneLeft`). `CaptureInv` says that a capture under
way has counted Hyperliquid at most, at a moment after which the transfer left
(`ReadThen`), and that one with both venues has them a flight apart (`Apart`), which
is more than the tolerance the code accepts. Assumed: closes increase with the trading
days, and there is a session before and after each of the two days.

## Flows

Three inferences of what came in and out (together `InferredFlowsTrue`), each over what truly happened (`bought`,
`paid`, `money`, `coinMoves`) and what was collected of it.

`TossFlows` replays the snapshots of one account with or without the dividend
schedule. `DividendsAreIncome`: no dividend is found twice; where only trades and
dividends moved cash, no deposit is inferred and nothing unpaid found. Limits:
listing reconciliation, transfers marked between accounts, ambiguous or invalid
records, the candidate limit of 12, outage scans, the warm-up window, symbols never
seen while the schedule is used.

`KisFlows` reads the captures of one account (orders at home by instant, listings
abroad with a lag, won estimates KIS moves, margin). `TradesAreNotFlows`: trades
alone infer no deposit. Limits: one price per symbol, two currencies, fees small (an
`ASSUME`), and, exempted in the property: a won estimate moved within one capture's
reads or of a settlement the earlier capture does not list, captures as far apart as
`Lookback - RevalueDays`, and a margin closed while trades were bridged.

`CryptoFlows` has passes over the venues' streams under windows, cutoffs and page
limits, while movements settle or fail. `FlowBetweenReads`: the flow told of an
interval is what moved between the two reads, of the movements any pass was told
of. Limits: a movement's effect is at its stamp (only its status lags), one account
and wallet, one pass at a time, conflicts only veto (`alike`), corrupted windows
are not modelled, amounts, fees and classification are data; Hyperliquid's bisected
reads are those of a history in `FuturesReads`.
**Proved** (`NavProofs`): `FlowBetweenReads`. `CoinInv` says what a stored fact is
worth: a status told of a settled movement is so, a worth that was read counts what
moved before it up to a tick, a window lists movements of its time alone. A movement
between two reads that any pass was told of is then in a selected window and not
doubtful, so the movements counted are those that moved, and the sums are equal
without a word about sums.

`FlowRecords` is what `ledger_returns.py` counts: rows told by whole or interrupted
collections, rows of the owner's files, declared floors. `FlowsWhole`: the flows told
of a range of days are the transfers of the wallet, each once. Limits: `Indistinct`
excuses a real double count (a file that rounds the instant of a move the venue told
of in no whole window); files and windows end on whole seconds; owner's files are of
days that are over; unknown rows and statuses of a file are left out.
**Proved** (`StatementProofs`): `FlowsWhole`. `FlowInv` says that a window noted as
whole told of every move of its stream inside it (`WindowsTold`), that the days of a
file are in the file or were told before (`FilesKept`), that what is recorded stands
at its own instant or its rounding, in the past (`AtTheirInstant`), and that a filed
move is paired (`FiledPaired`).

## Figures

`AccountBook` is one moving-average cost book: buys and sales, shares that came
unseen, missing amounts and rates, the broker's quantity, round trips. `SalesTrue`: a
complete basis is the true average, its currency part is exact while every sale
before had a rate, and a closed round trip balances. `IntervalReturns` decides which
returns of a period are published, from intervals bound to snapshots that may be
captured again. `ReturnsStand`: each day is in one resolved interval or one
unresolved span; no return over only the resolved days; each flow once.
`TransferMatching` has matchers that plan outside the lock under their rules, and an
owner's import that matches inside it. `PairedWithoutChoice`, `MatchesAreFinal`.

Four trades reach every order of a buy, an unseen share, a partial and a full sale
with and without a rate. Two scopes and the composite over four days with one
recapture reach overlapping and unbound records. Six flows with two matchers reach a
pair planned by both.

**Proved** (`FiguresProofs`): `SalesTrue` from `BookInv` (types; `Shortfall`, the
shares the book lacks are the unseen ones; `AgreedCost` and `AgreedWon`, what the
book says as long as it calls itself complete; `SalesAgree`) and `TripInv`;
`PairedWithoutChoice` and `MatchesAreFinal` from `MatchInv` (what is matched is
known, legs pair once, matched legs stay internal, `PlansSound`: a plan not yet
written still describes the ledger unless it was touched). `ReturnsStand` holds of
every set of scopes, days and recaptures by what the records, rows and points are, so
its invariant is the types (`ReturnsTyped`), and the argument is about the operators:
the rows of a view are the steps of one set of days (`ViewFacts`), two steps never
overlap and one leads over every cut of the set (`StepsApart`, `StepOver`), so a day
lies in one row, or in the span before the first or after the last (`DayInOnePlace`);
instants rise with the days (`StampsRise`), so the records of a resolved row hold each
of its instants (`RecordOver`), and being in turn, once (`FlowsMean`).

What makes two legs agree is a relation, and a wallet transfer split into two legs is
not modelled. Amounts of returns, XIRR, drawdowns and volatility are arithmetic
without control. Splits of shares and taxes are left out.

## Reports

Three tools put a figure together from reads at different times. Each is modelled
with what was really so (`diary`, `view.real`, `wealth`), and its property says that
what is told as complete was.

`GainsReport` (`GainsTrue`; `get_realized_pnl`, `get_trade_review`, the realized part of the
summary): accounts' ledgers are read one by one, then their holdings, while trades
go on and midnight passes. Limits: one symbol per account, won only, no tax or other
income; a trade between the reads of one account's ledger and holdings, or after
midnight before these, can hide a drift and is exempt (`Settled`); a complete read
of a ledger shows every row; statement rows are not merged; win rates over all rows
and cohorts are not modelled. The comment at `server.py:2625` says no figure depends
on `reconcile`; a plain break nulls the total only with it, which the model has.

`PortfolioView` (`ViewTrue`; `get_portfolio_summary`, the risk report): balances with what the
cash leaves out (receivables, payables), zero-cash proofs kept for a while, rows
without a price, a futures account. Limits: an unreadable second currency of a Toss
balance is not told, and a failed source leaves the concentration "complete" beside
`sources_failed`; trades during the reads of one account (`stirred`) and a change of
money hidden by a young proof (`hidden`) are exempt; cost bases of the ledger are
not modelled; all symbols have one underlying. `result_status` of a summary is
practically always "partial", so the property does not rest on it.

`PerformanceReport` (`PerformanceTrue`; `get_portfolio_performance`): stored days, flows by date, a
pinned range and a live end. Limits: money that came in after a capture on its
boundary day is exempt, for flows have dates only; what the caller vouches for is
trusted; the live end only when vouched; XIRR, drawdowns, volatility and valuation
basis warnings are not modelled.

**Proved** (`ServerProofs`): the three. Their figures are sums over what was told, held
against what happened; lemmas on sums over finite sets carry them (`SumTaken`: in any
order, `SumSplit`, `SumGrouped`: by parts, `SumTelescopes`). These go by induction over
the size of a set or a number, which `EveryNumber` and `EverySubset` state with a set
in the place of a predicate, from the library's well-founded minimum.

- `PerfInv`: a stored value is what was there, what the markets gave and what came in,
  up to a part of its own day unless nothing came in after it (`SnapTrue`); the flows
  told are those that came in up to any such value (`LedgerTold`); and a live report that
  nothing spoke against has an end that differs from its values by what the markets
  gave (`LiveSoFar` while it is made, `LiveTold` after). The last needs the transactions
  read for it: had any money come in, the report would have a reason.
- `ViewInv`: rows told are of the shares there were, each once, and of all of them when
  the account answered whole (`ToldRows`); its cash, with what is to settle, is what it
  was worth when it was read (`MoneyTold`); and who was proved empty still is, while
  nothing disturbed it (`ProofHolds`). Without the last the zero told for a balance with
  no row would be a guess.
- `GainsInv`: a diary runs with the days and sells only what is held (`DiaryHolds`), and
  each read tells what the diary had at its time (`ReadsHold`). On a whole ledger the
  replay keeps `ReplayHolds` event by event: the book has no more shares than there
  are; while it has as many, their cost is known and, fees told, the same; trades
  before the period are unseen only before the first that is seen. So holdings that
  agree with the book at the end tell that no share was missing after its last
  inferred opening, and each such sale gained what is said (`ToldTruly`).

`Prices` is assumed nonempty, `Assets` finite and `Unvalued` no number.

## Threads of the server

`MCThreads` composes eight groups of threads that share no state.

`PositionReads`: tool calls that ask at once share one read, which its owner makes
under the ledger gate and the connection's lock and announces in two statements
(`SetFinished`, `SetDone`); a waiter of a failed read goes on alone. `FuturesReads`:
calls over one lock with a cache and a note of who holds it; a positions call waits
for a history only so long. It may answer busy behind another positions call that
holds the lock but has not noted itself yet; the property allows that. `RequestPacing`:
admission under one or two budgets, deadlines, silence after a refusal. `OwnerGate`:
the passphrase's failures and lockout, which are the process's and forgotten when it
restarts, and the registration attempts and clients, which are the database's.
The histories and wallets of `FuturesReads`, `OrderScan` and `ContinuedPages` are reads that take
many requests.

`ReadsFresh`: positions come from a read that overlapped the call or ended at most
`SharedSeconds` before it, in a copy of the call's own; futures positions from a read
of its own or a younger one than the reuse time. `RatesKept`: requests are apart and
silent after a refusal; of one more wrong phrases, or registrations, than the limit
allows, the first and the last are a lockout or a window apart; and who waits as
told is let in. `ReadsWhole`: what is not said to be cut has every row, exchange,
order and trade. `ThreadsEnd`: every call ends.

Three calls give an owner and two waiters; three requests are one of each budget and
one with a deadline. Fairness is weak for each thread's step and for time: the
brokers' and venues' requests have timeouts, and a thread that can take a lock, wake
or go on does. Weak fairness suffices for the locks too, since each call and request
is made once, so the contention for a lock ends.

**Proved** (`ThreadsProofs`): `ReadsFresh`, `RatesKept` and `ReadsWhole`, as theorems
of the composed specification: a step of the threads is a step of one group (`GroupsApart`),
so each group has its own invariant. `SharedInv`: a shared value is nobody's own, a
call's answer is its own and from the read that serves it, which was fit when the
call took it and can only have ended since. `FuturesInv`: what is cached was seen
after its read began. `PaceInv`: who was sent and is not answered holds the lock of
its whole path, and the next send is an interval after the last. `GateInv`: wrong
phrases before the ones that count were followed by a lockout; every row of the
last window is still there, so that counting the rows counts the tries.

`ReadsWhole` stands on one invariant for each kind of read, and each says where what
is not yet told still is. `HistoryInv`: without a doubt, a row is taken or in a span
still to be read (`RowsCovered`), since the halves of a full page's span cover it
(`HalvesCover`). `ValueInv`: what was found of an account is its own, of each exchange
in turn (`FoundOwn`). `PagesInv`: a trade of the days asked for is told or in a segment
still to be read (`DaysCovered`), and the pages so far show the served rows up to the
continuation (`BodiesKept`); an overlap or a repeated page adds nothing. `ScanInv`: an
order owed is read, or closed and listed at or after the cursor, for orders that close
during a scan only push it further down (`PlacesGrow`), and what an order has become
since the cutoff is later than it (`ChangesLater`), so evidence that accepts it is of
the cutoff. The order of rows within a page is left open in these models, and an amount
of an account is known by where it was read, its own exchange being named "main".

Limits. Orders: the venue's cursor is a position in its list or stuck, quantities of
an order only grow and its fills carry the last one's time, a scan's start lies
strictly before its reads. Pages: an empty page repeated with the terminal mark
cannot be told from the end; the split at ninety days is taken for the venue's.
Pacing: the gate of `load_records`, Hyperliquid's own spacing, the client's lock and
cooldown, and the budget of the ledger observer are left out. Registration: the
metadata and the consent page are left out.

## Tokens, caches and exports

**KIS token.** KIS gives an app key one token at a time worth having: issuing is
rate-limited, and the server and the scheduled jobs share it through a cache file.
`KisToken` models clients (`ProcessOf` places them in processes), one of which at a
time per process is in a request: `Begin`, `Check` (a timely token in memory goes
straight to `send`), `Acquire` (the `flock`), `Load` (take the cached token unless it
is the one last refused), `Issue`, `Save`, then `Answer`, `RateLimit` (resend up to
`MaxResends`) or `Refuse`. A refused request takes the lock again to `Read` the file,
then `Adopt` (another's token) or `Unlink` (the refused one), and is checked and sent
once more. Every use of the file and of KIS may fail. `Age`, `Revoke` and `Crash` are
the environment's: the `flock` ends with its process. A write is atomic; a torn file
is one that cannot be loaded. A token that could not be saved (`lost`) is not kept in
memory as valid either; `SoleToken` counts only tokens that were saved.

Fairness: weak for the steps of a running request, whose calls have time limits, and
strong for `Acquire`, since the kernel hands a released `flock` to a waiter and
holders end. **Proved** (`KisTokenProofs`): types and `RefusedNotResent` with or
without the lock; `SoleToken` and `OthersNotUnlinked` assuming `LockWorks`. The
invariant says what a client's memory holds at each point (`MemoryInv`), that who
renews or drops holds the lock (`LockInv`), and that a live token is in the file or
about to be saved by the lock's holder (`CacheInv`).

**Others** (`stores`). `TossToken`: processes share the file without a lock; a
refused request is resent once, with another token unless the file could not be
removed. `DividendCache`: a refresher holds the `flock` from its clock to its commit
while the clock is set back, reads fail and processes die. `DatasetExport`: datasets
are stored under the hash of their contents, pages race with retention.
`Recoveries`: a history is collected chunk by chunk; what failed is read again under
a cursor, with anchors, cached windows and cooldowns; the limit on the size of the
window cache is not modelled.

**Proved** (`StoresProofs`): `ResendIsAnother` (a token once written is never
written again, `UnsharedUntilSaved`, and a refused one is gone, `RefusedTokenGone`);
`NewestKept` for `MaxFaults <= 1` (what a refresher read under the lock is what the
file has, `ReadUnderLock`; with two failing reads in one refresh the code really
loses newer evidence, so this is the theorem's bound and not the proof's);
`ExportPages` (`ReadSoFar`, `Followed`); `RecoveryTold` (`RecInv`: results of a
session are no older than a session and a window last, and every chunk of the plan
is there).

## Statement import

A PDF statement carries an account number, which the store keeps only as a hash under
a random salt. `StatementImport` models several server processes over one database:
`Hash` (the first use of the salt: the stored one, or one of the process's own),
`Preview` (kept in memory, at most `MaxPreviews`), `Begin` (an unblocked preview is
confirmed), `Check` (everything is read and proved again), `Store` (one transaction:
bindings, evidence and conflicts are checked under the lock, then rows are inserted),
`Undo` and `Restart`. `Refuse` is any error, which leaves the store as it was. The
account is proved by its suffix in the registry (`SuffixOf`), by an overlap with the
API's trades, which may be seen or not at any check (`MayOverlap`), or by an earlier
import's proof. A row's identity is abstracted to the binding it was hashed with, the
one input of it that could change between two imports of a file.

Two processes are the server and its successor during a restart, or the server and a
script; two salts are one for each. The second number ends like the registered
account of both, so that each account can be claimed by both numbers.
`ClashesShownTogether` makes an exception for two trades that one statement shows
together; the run has no such file, the theorem covers them.

**Proved** (`StatementProofs`): types, `BindingOneToOne`, `RowsOnce`,
`ClashesShownTogether`, `ConfirmationLasts` for any processes, files and salts;
`NumberOneToOne` and `ReapplyIsNoOp` for one process (`OneProcess`, whose case is the
theorem's: the run has two). All follow from what a transaction reads under the lock,
except the last two, which rest on `OneSalt`: the stored salt is the process's, and
every import is hashed with it.

Left out: parsing and the inbox, coverage windows (a check that they fail is a
`Refuse`), the multiplicity of equal rows, unknown fees, the merge into a collection.

## Findings

- `oauth_idle`: the comment at `oauth_store.py:171` says that after the grace, actual
  use chooses a branch. The choice reads the parent's row, which rotations purge once
  it is past its retention; siblings idle until then all stay usable (37 idle days
  with the defaults).
- `kis_token_unlocked`: where the lock file cannot be locked the code goes on without
  it, and a peer that saves a fresh token between the reading and the unlinking loses
  it, although the comment at `kis_api.py:679` says never to unlink another.
- `statements_two`: a process that chose its salt before another stored one keeps it,
  derives other ids, and is refused, as a binding conflict, the very file the other
  imported, which the docstring calls a no-op (`server.py:845`). Until it restarts it
  may also give a second account the number another account has.
- `book_rates`: after a partial sale without a recorded rate a book's won cost is zero
  but still counts as known, so the next sale publishes a currency part that is not
  the one the docstring states (`portfolio_engine.py:973`).

## What is proved and what is only checked

Of the 40 properties the passing runs check, 36 are stated by theorems that hold for
every value of the constants (`PROJECT.json` lists them with their modules):
`LedgerProofs`, `ServerProofs`, `NavProofs`, `KisTokenProofs`, `StatementProofs`,
`FiguresProofs`, `StoresProofs`, `ThreadsProofs`. Each goes by an inductive invariant
whose conjuncts are named parts, one step per action; the temporal part is the last
step. Three of the results are refinements of an abstract specification
(`ImplementsFacts`, `ImplementsSessions`, `ImplementsHistory`). The part of
`InferredFlowsTrue` about futures venues, `FlowBetweenReads`, is proved as well
(`CryptoFlowsTold`).

The theorems rest on the `ASSUME`s of the models, which TLC evaluates on every run:
sizes and bounds are naturals, tables are total, and a few facts about the world that
the code relies on as well (a flight takes longer than the tolerance between two
reads; access tokens do not outlive refresh tokens; a report includes a scope).
Hypotheses that are not assumptions of a model stand in the theorem itself:
`LockWorks`, `OneProcess`, `MaxFaults <= 1`.

Only model-checked:

- `EventuallyPreserved`, `RequestsEnd`, `ThreadsEnd` are liveness under fairness,
  which the prover does not reach.
- `InferredFlowsTrue`, but for its part `FlowBetweenReads`. `DividendsAreIncome` rests on
  amounts of which no two different sets add up to the same, as those of its run do; it
  does not hold for every value of the constants. `TradesAreNotFlows` compares a
  residual of the cash with the trades of a day by way of nested sums; its lemmas are
  not written.

Taken as given: SQLite transactions are atomic and serialisable, `flock` ends with its
process, a file replaced by rename is replaced at once.

Not modelled: arithmetic without control (XIRR, drawdowns, fees and taxes), parsing of
statements and of provider answers, HTTP, the shape and wording of answers, the
market and company data readers, and the tools of `tools_v2.py` beyond the reads they
share with those of `server.py`. What each model leaves out of its own component is
named in its section.
