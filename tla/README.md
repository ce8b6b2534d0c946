# Verification of the TxLINE trading agent

TLA+ models of the agent in this repository, the TLC runs that check them on
small instances, and machine-checked proofs about the on-chain ledger, the sink
that drives it, the decision pipeline, the live and the replay feed, the REST
client, the frame parser and the dashboard stream. Paths are relative to the repository root.

## The system

The agent ingests the TxLINE odds and score streams, decides which prices to
back, seals each decision on Solana before kickoff, and settles it at the final
whistle by revealing it together with an oracle proof of the score.

```
 TxLINE SSE (odds, scores)          TxLINE REST
        |                               |
   FetchSseConnector               TxlineClient (retries, sessions)
        |  bytes -> SseFrameParser      |  backfill, windows, proofs
   LiveSseFeed  <-----------------------+-----> ReplayFeed (backtests)
        |  schemas and map/ : wire record -> event
        |  TappingFeed ----------> AgentStateStore --> read-only API (SSE)
   runPipeline (signals, sizing, risk manager,      |        |
        |        settlement)                        |   dashboards
        |  await onCommit / onSettle                |
   OnChainSink -------------------------------------+
        |  SolanaOnChainPort: encoders, account decoders
   agent_ledger program --CPI--> txoracle program
```

Everything off-chain is one Node process: a single event loop, so the
interleavings are those of its awaits and callbacks. The ledger is a Solana
program: each instruction is atomic, and transactions of several senders
interleave. A dashboard is a browser tab behind a network.

### Inventory

**agent_ledger** (`programs/agent_ledger/src`). *State*: one Strategy account per
(authority, strategy id), with counters, bankroll, realized PnL, the pinned
oracle program and a running hash of the commits; one DecisionCommit account per
commit. *Operations*: `initialize_strategy`, `commit_decision`,
`settle_decision`, `prove_entry_odds`, `void_decision`; the third and fourth
call txoracle. *Hard*: long mixes of instructions against incremental counters;
checked, saturating and fixed-width arithmetic; binding of a reveal to its own
account. *Correct when*: only the sealed bet can be settled, on a score its own
pinned oracle posted, for the PnL the seal fixes; nothing is revised; the books
equal a recount.

**Pipeline and risk manager** (`packages/core/src/pipeline`, `risk`, `signal`,
`quant`, `decision`). *State*: odds history, joined surfaces, tracked score and
kickoff by fixture, ratings, risk books, open positions. *Operations*: one handler
per event kind, `settleFinalFixture`, the sweep `settleAll` at the end of the
feed. *Hard*: events in any order, late, repeated or corrected; books adjusted on
two paths; awaits of the sink between two settlements. *Correct when*: exposure
is released once and stays within every cap, one position per market or fixture,
settlement only and promptly on a final score, never twice.

**SSE connector and frame parser** (`packages/txline/src/io/sse-connector.ts`,
`feed/sse-parse.ts`). *State*: two pumps, a shared queue, the resolver of the
promise the loop sleeps on; per stream, the text not yet framed. *Hard*: lost
wake-ups, one stream ending, unwinding when the consumer breaks; chunks cut
anywhere. *Correct when*: the loop never sleeps on something that has happened, and
frames do not depend on how the network cut them.

**Live feed** (`packages/txline/src/feed/live.ts`, `idempotency.ts`,
`backfillIntervalsFromTs` of `packages/agent/src/runtime.ts`). *State*: a resume
id per channel, the set of records seen, the time of the last event, the number
of reconnects. *Operations*: ingest a frame, reconnect, backfill, `stop()`.
*Hard*: the same record by three routes, a drop between any two frames, failing
REST calls. *Correct when*: nothing is emitted twice or passed over silently, and
a drop leads to a reconnect.

**REST client** (`packages/txline/src/http`). *State*: the token its callers share;
per call, attempts and whether it has re-authenticated. *Operations*:
`sendWithRetry`, `startGuestSession`, which is a `sendWithRetry` of its own.
*Hard*: callers between each other's awaits, 401s and transient failures mixed,
session answers that arrive late. *Correct when*: requests per call are bounded,
and a refusal reported to the caller is one of two different tokens.

**Replay feed and wire mapping** (`feed/replay.ts`, `map/`). *State*: position in
the window, records seen, what is pending, a manual clock. *Hard*: ties between
channels, duplicates across intervals, intervals that cannot be fetched, records
that cannot be mapped. *Correct when*: one window always replays in one order, the
first copy of every key comes out once, and a batch that is missing is counted.

**On-chain sink, port** (`packages/agent/src/onchain-sink.ts`, `reveal.ts`,
`prove-entry-odds.ts`, `packages/onchain-client/src/solana-port.ts`). *State*: the
sealed reveals by position, in memory only. *Operations*: `onCommit`, `onSettle`,
the entry-odds proof after it. *Hard*: a transaction that lands although its sender
saw an error, `decisions_count` moved by another holder of the wallet between two
reads, restarts. *Correct when*: a remembered reveal is the seal of the account it
is kept for, the store never shows more than the chain holds, every failure leaves
a record.

**Encoders and decoders** (the rest of `packages/onchain-client/src`). Stateless:
each structure is written by hand on both sides of the chain. *Hard*: widths,
wrapping setters, an offset or a field out of place. *Correct when*: the program
reads what the client was asked to say, and the client reads what the chain holds.

**Store, API, dashboard, shutdown** (`packages/agent/src/state-store.ts`,
`tapping-feed.ts`, `packages/api/src`, `packages/dashboard/src`). *State*: the
snapshot and its listeners; open connections; per dashboard, a connection, what is
on its way, what the page shows. *Operations*: the store's mutators,
`/api/events`, `closeServer`, reconnects, SIGINT. *Hard*: the first snapshot against
the subscription, a listener that throws, connections half closed, a restart under a
reconnecting page, closing while connections live. *Correct when*: no update is
missed while connected, a page never goes back and agrees with itself, a
signal ends the process.

**Runtime, backtest, devnet tools, numerics** (de-vig, goals model, Elo, Poisson):
see "Not modelled" and the components of `PROJECT.json`.

The hazards of this code, each at its line, are the "hazards" of `PROJECT.json`;
the properties below are aimed at them.

## Modules

| module | models | extends |
| --- | --- | --- |
| `AgentLedger` | the five instructions, with every account constraint and `require!` | |
| `SealedBets` | what the ledger promises, abstractly: sealed bets, attested results, payouts | |
| `OnChainSink` | sink, store and port, each await a step, over the ledger; bootstrap | `AgentLedger` |
| `Wire` | the bytes between client and program: encoders, addresses, decoders | |
| `Pipeline` | `runPipeline`: both decision paths, risk manager, settlement | |
| `SseFrames` | `SseFrameParser` over chunks cut anywhere | |
| `SseConnector` | the generator `connect` and its two pumps | |
| `LiveFeed` | `LiveSseFeed.events` over the connector | `SseConnector` |
| `TxlineClient` | `sendWithRetry`, backoff, re-authentication, guest sessions | |
| `WireMapping` | `mapOddsPayload`, `mapScorePayload` | |
| `ReplayFeed` | `ReplayFeed` and its two sources, over the client | `TxlineClient`, `WireMapping` |
| `AgentApi` | store, tap, API server, dashboards, shutdown | |
| `OnChainSinkProofs` | theorems about the ledger (types, log, settlement, prices, counters and sums, the refinement), then about the sink and the chain under it | `OnChainSink`, `SumTheorems` |
| `WireProofs` | theorems about what is written and read | `Wire`, `SequenceTheorems`, `SumTheorems` |
| `PipelineProofs` | theorems about books, limits and settlements | `Pipeline`, `SumTheorems` |
| `SumTheorems` | what a sum over a finite set is; ranks in a finite order; running sums | `TLAPS` |
| `LiveFeedProofs` | theorems about connector and feed | `LiveFeed`, `TLAPS` |
| `ReplayFeedProofs` | theorems about the client and the replay over it | `ReplayFeed`, `SumTheorems` |
| `SseFramesProofs` | theorems about the frame parser | `SseFrames`, `SumTheorems` |
| `AgentApiProofs` | theorems about store, server and dashboards | `AgentApi`, `SumTheorems` |
| `MC...` | instances for TLC | |

Operators keep the names of the code (`settle_decision`, `apply_pnl`,
`handleCrossMarketOdds`, `ingest`, `sendWithRetry`'s steps, `markSettled`);
`PROJECT.json` maps each of them to its lines. Operators marked `mutant` are the
faulty variants against which each property is tried; no specification uses them.

**AgentLedger.** A map from address to account for each of the two account kinds;
an address is the tuple of what it is derived from, so "the address has no
account" is anchor's `init`, and two accounts cannot collide. A transaction
either meets every guard or leaves no trace: one action per instruction. The
commit hash is an injective constructor, the log root the sequence of what was
hashed into it: collisions of keccak are outside the model. txoracle is external:
what each program has posted so far, and, for its two validation calls, what they
assert about a posted record. A signer can be anybody, the arguments anything of
the right type.

**SealedBets** has five actions (seal, attest, settle, cancel, confirm the price)
and no accounts, counters, clocks or arguments. `ImplementsSealedBets` states the
refinement, with the mapping (`BetOf`, `Attested`, `SealPayout`) at the end of
`AgentLedger`.

**Pipeline.** One event, one step, except that each settlement is a step of its
own because the sink is awaited between two. The feed is a finite sequence of
frames, delivered in any order, at most once, possibly never; a frame is stamped
at most `MaxSkew` ahead of the clock. Probabilities are percentages, odds
integers; the goals-model fit and the Elo overlay are sets to choose from.
`expectedValue`, Kelly and steam stakes, the caps of `evaluate` and both history
rules are computed as in the code.

**SseFrames.** A text is a sequence of pieces (CR, LF, colon, space, a name or a
value); a chunk is any next part of it. `torn` remembers whether a cut fell between
a CR and its LF. The loop of `push` is a recursive function of the position it has come
to (`Drain`), CRLF replacement one of the length (`NormalizeCrlf`).

**SseConnector, LiveFeed.** A frame is its channel and its id. The server side is
free: it publishes, ends or breaks a stream, answers or fails a REST call at any
time. Record *n* of a channel falls in five-minute interval *n*. `ResumeHonoured`
says whether the server takes Last-Event-ID. `gaps` holds the gap events, of a frame
that does not parse or map and of a REST call that failed; `counted` the records that
a backfill could not map, which the code adds to `gapsDetected` and no more.

**TxlineClient.** A request and its answer are two steps; a call has two frames,
its own `sendWithRetry` and the one of the session it opens, each with its
attempt counter. Tokens are numbers in the order the server granted them; it may let
a `Mortal` one expire, answer late, lose an answer or fail.

**WireMapping, ReplayFeed.** The mapping is a function of the record, with each of
its refusals; the feed is a process that fetches interval by interval, each await
a step, then sorts and emits under the manual clock. Other callers of the client go
on meanwhile, and `stop()` or a throwing consumer can end it. A record of the window is
known by its place, the batch and the index in it: two histories, `from` on what is
pending and emitted and `missed` for the batches that could not be fetched, let the
properties speak of the window as the server held it. "The first copy of a key" is the
first of those that could be fetched.

**OnChainSink.** The pipeline's calls are what drives it: one at a time,
commits in order of position, settlements on a final record of the position's
fixture. A call is a `task` that moves from await to await (`read`, `check`,
`confirm`, `proof`, `readback`, `discover`); every await can fail. Sending puts a
transaction in `flying`; from there it can land at any time or never, as the
ledger action with the accounts and arguments its builder gave it. The sender
hears of success only after it landed, and may hear of failure although it did or
will. A second holder of the wallet commits in between (`OtherCommit`), and a
restart empties what is in memory while `flying` remains. Confirmed transactions
are not rolled back (the port waits for `confirmed`; forks below that are outside
the model).

**Wire.** Both sides' descriptions are kept as the sequences they are, of pairs of
a field and a kind; nothing in the module makes them agree. A byte is a digit below
`B`, widths keep their order, an integer is written modulo `B^width` unless the
client checks it first. A reader is a pair of functions of a position: what is there,
and where it ends, or `Failed`. A call is one step on the client and one in the
program, which parses the bytes with its own structures and derives addresses with
its own seeds.

**AgentApi.** The snapshot is the store's; `wire[k]` is what connection `k` still
has on its way. The two ends learn of a broken connection at different moments:
`Vanish` on the browser's side, `Close` on the server's; until then a dead listener
stays subscribed and throws. Runs of the process are numbered, so that a page of an
old run can be told from one of the new.

## Runs

| run | question | states |
| --- | --- | --- |
| `MCAgentLedger` | do counters, realized PnL, bankroll and the commit log agree with the decision accounts? | 166,553 |
| `MCAgentLedgerSeals` | is every settlement and price proof on the decision's own seal and oracle; does the ledger implement `SealedBets`? | 194,975 |
| `MCPipelineSteam` | do the risk books, caps and settlement rules hold on the steam path? | 104,394 |
| `MCPipelineCross` | is every position settled promptly, once and before the next event on the cross-market path? | 343,104 |
| `MCLiveFeed` | no lost wake-up, no duplicate, nothing passed over; reconnect and `stop()` | 603,344 |
| `MCOnChainSink` | do sink, store and chain agree across failures, a second writer and a restart? | 160,258 |
| `MCReplay` | are retries and re-authentication bounded; does a window replay in one order, each first copy once, its failed fetches counted? | 1,508,765 |
| `MCSseFrames` | do the frames depend on how the text was cut into chunks (CRLFs whole)? | 1,835 |
| `MCAgentApi` | does a connected dashboard miss nothing, never go back, agree with itself and catch up; does a signal end the process? | 215,470 |
| `MCWire` | does the program read what the client was asked to say, and the client what the chain holds? | 13,933 |
| `MCLiveFeedOneDrop` | *violated*: a drop of either stream reconnects | |
| `MCSseSplit` | *violated*: CRLF is normalized to LF | |

### Bounds, and why they suffice

* `MCAgentLedger`: two decisions of one strategy on two fixtures, four seals: three
  whose stakes exceed the bankroll of 1, so that a loss saturates it, and one whose
  side is no 1X2 side; three scores, one of them in running, and a second program
  with another result; a grace window shorter than the clock, so that a void can
  come too late. `MaxI64` 4000 and `MaxU64` 9000 stand for the widths. The
  counters are per strategy and change one decision at a time: two decisions reach
  every pair of statuses, in every order, and the proofs cover the rest.
* `MCAgentLedgerSeals`: two owners, two markets, two oracle programs, three seals
  that differ in owner or side, one snapshot of the right market and one of a
  wrong one. One decision per strategy is enough to mix up a seal with another
  account's; longer histories are covered by the proofs.
* `MCPipelineSteam`: three markets on two fixtures; a move on one of them and
  underround books on the others; in-running, final, corrected-final and
  goalless-final scores. Each of the three exposure caps and the concurrency limit
  cuts or refuses some order, and one settled loss trips the drawdown breaker.
* `MCPipelineCross`: two joined surfaces with kickoffs, one with a frame more so that
  it is refitted, two fit signals, two multipliers, a first and a corrected final,
  extra time.
* `MCLiveFeed`: three odds and two score records, chunks of two frames, hours of
  two intervals (so that the last event's hour is not the whole history), one
  reconnect, one malformed and one unmappable record, which a backfill can take before
  the resumed stream brings it. One drop is what double
  emission, skipping and a stuck loop need; the proofs cover any number of drops.
* `MCOnChainSink`: two decisions on one fixture, one won and one lost, of one run
  or of two with a restart between; an in-running and a final score with different
  results, one odds snapshot that quotes one of the two sealed prices, three
  decisions on chain (ours, a stranger's, a repeated one), three nonces.
* `MCReplay`: two callers, two attempts, three sessions of which two can expire: a
  call can be refused, refresh, be refused again and meet a token the other caller
  stored. Two windows of one and two intervals: ties within and across channels, a
  record out of time order, a duplicate in the next interval, a first copy that cannot
  be mapped before a later copy of its key that can, odds of 1000 and uneven lists. The
  window fetched through the client has two intervals, so that a key whose first copy
  was in a batch that failed comes again in one that did not.
* `MCSseFrames`: eight texts, four with LF and four with CRLF: an id and data, a
  comment, a heartbeat, two data lines, a line without a colon, a leading blank
  line. `MaxPieces` is the longest text, so every cut at a piece boundary is made. A
  boundary inside a name or a value is the same as the one beside it, for the parser
  looks only at the whole buffer.
* `MCAgentApi`: one dashboard, two connections (so that a dead listener precedes a
  living one), two positions, one that wins and one that loses, two turns of updates
  from an empty store, from one with a decision and an error or from one with a settled
  decision, a ring of one error (so that it overflows), one restart. Dashboards share only the store and the listeners, and what one dashboard
  can do to another it can do to its own next connection; `NoUpdateIsLost` is proved
  for any number of them.
* `MCWire`: bytes of base 4 keep the four widths apart with values that can be
  listed; every kind of field gets 0, its largest value, the next one and a negative
  one where its type allows, hashes get wrong lengths, a negative, wrapped and
  fitting day; every account type is read as both.

Deadlock is checked in `MCWire`, where a call is always followed by the next. It is
`CHECK_DEADLOCK FALSE` elsewhere: bounded clocks, feeds, texts and counters run out,
a feed or a process at its end is over, and a ledger nobody calls does nothing.

### Fairness

`LiveFeed` states liveness under `FairSpec`: weak fairness of `FeedStep`
(the Node event loop runs every continuation that is ready, a REST call ends,
a backoff timer fires) and, per stream, of `Unwind` (an aborted fetch rejects).
Nothing is assumed of the server or of the transport: a stream may stay open and
silent for ever, and the caller need never call `stop()`. This is why
`StopTakesHold` excludes the quiet connection: the code looks at the flag only
when a frame arrives or the connection is over.

`AgentApi` states liveness under `FairSpec`: weak fairness of each dashboard's
browser (`EventSource` reconnects, opens, delivers), of a browser learning that the
server has closed its connection, of the server learning that a connection is
closed or closing it itself during the shutdown, and of the steps of the shutdown
(a resolved promise continues, the grace timer fires). Nothing is assumed of the
feed, the pipeline or the signals, and connections may break for ever: `CatchesUp`
speaks of a dashboard that from some moment on keeps its connection. While the store
goes on changing a page is always a little behind: what holds then is that every event
counted comes to show, however many follow. That the page shows the store itself is
said only of a store that has come to rest. `MaxUpdates` brings it to rest in every
behaviour of the run; neither statement relies on that.

## Proofs

Every theorem holds for every value of the constants that the assumptions of the
module allow.

| theorem | states |
| --- | --- |
| `TypeCorrect` | `Spec => []TypeOK`: ledger accounts are well typed and inside their integer widths |
| `LogIsBinding` | `Spec => []LogBindsHistory`: the log root is the whole commit history, entry by entry |
| `NothingRevised` | `Spec => AccountsOnlyAdvance`: no seal, settlement, void or pinned oracle is ever changed |
| `BankrollIsFair` | `Spec => []BankrollDominates`: the bankroll never falls below start plus realized PnL |
| `SettlementIsOnProof` | `Spec => []SettledOnProof`: a settled decision was revealed as sealed, on its own oracle's score, for the sealed PnL |
| `EntryPriceIsPublished` | `Spec => []EntryOddsPublished`: a proven entry price is one its own oracle posted for the sealed side |
| `CountersAreRight` | `Spec => []CountersAgree`: each counter equals a recount of the decision accounts |
| `OpenCountCoversOpen` | the `checked_sub` on `open_count` never stops a settlement or a void |
| `LedgerIsConsistent` | `Spec => []LedgerAgrees`: so do the counters, and realized PnL is the sum over those accounts |
| `LedgerImplementsSealedBets` | `Spec => ImplementsSealedBets`: the refinement |
| `ChainIsLedger` | `SinkSpec => Spec`: whatever sink, second wallet holder and network do, the chain is a behaviour of the ledger |
| `ChainIsConsistent` | so `TypeOK`, `LogBindsHistory`, `SettledOnProof` and `LedgerAgrees` hold of it |
| `RevealsFit` | `SinkSpec => []RevealFitsChain`: a remembered reveal is the seal of the account it is kept for |
| `StoreIsBacked` | `SinkSpec => []StoreBackedByChain`: what the store shows, its PnL included, is on the chain |
| `FailuresAreTold` | `SinkSpec => []FailuresRecorded`: no call of the sink disappears |
| `ResultsAreFinal` | `SinkSpec => []SettledOnFinalRecord`: it settles on final records only |
| `TypeSafety` | `Spec => []TypeOK` (pipeline) |
| `BooksSafety` | `Spec => []RiskBooksAgree`: exposures and open count equal a recount of the positions |
| `LimitsSafety` | `Spec => []WithinLimits`: no cap is exceeded, whatever the caps and the order of events |
| `LossSafety` | `Spec => []LossIsBounded` |
| `KeySafety` | `Spec => []OnePositionPerKey` |
| `SettlementSafety` | `Spec => SettlementsLocked`: a settlement is never revised or repeated |
| `TrackingSafety` | `Spec => []TrackedScoreIsBest`: the tracked score does not depend on the order of arrival |
| `FinalSafety` | `Spec => []SettledOnFinal`: a settlement has the seq of a final frame of its fixture and pays what that frame's goals make of the position |
| `IdleSafety` | `ASSUME CrossMarket, Config.minLeadMs > 0, FinalsFollowKickoff PROVE Spec => []SettledWhenIdle` |
| `NoWakeupIsLost` | `Spec => []NoLostWakeup` (connector) |
| `ChannelsKeepOrder` | `Spec => []QueueIsContiguous` (connector) |
| `FeedTypeSafety` | `Spec => []TypeOK` (feed and connector) |
| `NothingEmittedTwice` | `Spec => []NoDoubleEmit` (feed) |
| `NoRecordIsSkipped` | `ASSUME ResumeHonoured PROVE Spec => NothingSkipped` (feed) |
| `NoUpdateIsLost` | `Spec => []NoUpdateLost` (store, server, dashboards) |
| `PagesOnlyAdvance` | `Spec => ViewsOnlyAdvance` (store, server, dashboards) |
| `PagesAgree` | `Spec => []PageAgrees`: cards, equity line and phases of a page agree |
| `AttemptsAreBounded` | `ClientSpec => []BudgetKept` |
| `RefusalIsReal` | `ClientSpec => []UnauthorizedIsReal` |
| `ReplayUsesClient` | `Spec => ClientSpec`: the client under a replay is the client |
| `ReplayKeepsBudget` | so `BudgetKept` and `UnauthorizedIsReal` hold of it |
| `ReplayIsOrdered` | `Spec => []EmissionIsOrdered`: one window, one order, and the clock with it |
| `ReplayIsFirstCopies` | `Spec => []ReplaysFirstCopies`: each first copy that maps once, and a batch not fetched is a gap |
| `CutsDoNotShow` | `Spec => []ChunksDoNotShow`: frames do not depend on the cuts (CRLFs whole) |
| `WireIsWell` | `Spec => []WireInv`: chain, call and what has landed come from one reveal |
| `InstructionsAreUnderstood` | `Spec => []Understood`: the program reads what the client was asked to say |
| `RootsAgree` | `Spec => []RootAgrees`: client and program name the same day |
| `ReadsAreTheChain` | `Spec => []ReadsTellTheChain`: accounts are read back, or refused |
| `EncodingIsBinding` | two reveals with the same bytes are one reveal |

*Assumptions.* Each module names its own, and TLC evaluates them on its runs. They
are types of the constants (`LedgerAssumption`, with `MaxI64 <= MaxU64`;
`ClientAssumption`, `ApiAssumption`, `ConnectorAssumption`, `LiveFeedAssumption`)
and what the code or the oracle guarantees of its inputs:

* `SinkAssumption`: the feeds' timestamps fit the ledger's; `SealsAssumption`: the
  seals the agent builds are among the reveals anybody may try.
* `PipelineAssumption`: types of the configuration, and that two different score
  frames of a fixture have different `seq` (that is what identifies a score record).
* `UnderwayAssumption`: a store a behaviour starts from is one: it has the fields of a
  snapshot, and its counters agree with its positions (`StoreAgrees`).
* `ReplayAssumption`: timestamps are natural numbers, and a window has as many odds
  batches as score batches. `FramesAssumption`: texts are sequences of pieces.
* `WidthAssumption`: a byte has more than two values and the wider integers are no
  narrower than the others. `InputAssumption`: the types that the TypeScript and the
  schemas give to arguments and responses, numbers of any size and hashes of any
  length included; accounts hold what the program can store; and no string or list
  is as long as a `u32` can say, which no transaction of 1,232 bytes could carry.
* `IdleSafety` alone needs more: a positive lead time before kickoff, which
  `backtest-config.ts` sets, and no final stamped within the clock skew of a kickoff
  of its fixture. Without the first, a position could be opened after the whistle,
  which is what happens on the steam path (see Findings). `MCPipelineCross`
  satisfies both, and `CrossFeedHasKickoffs` makes TLC say so.
* `NoRecordIsSkipped` needs a server that honours Last-Event-ID; the other theorems
  about the feed do not.

**The ledger.** For each instruction one lemma says what it does to the two account
maps (`InitializeEffect`, `CommitDecisions` and `CommitStrategy`, `SettleEffect`,
`ProveEffect`, `VoidEffect`), resting on lemmas about single accounts
(`CountSettledFields`, ...) and the arithmetic (`PnlType`, `ApplyType`); almost
nothing above them expands an instruction. `TypeOK` is inductive as it stands: the
checked arithmetic of the code is what keeps the widths. `LogBindsHistory` is
inductive with `TypeOK`: only a commit appends, at the length of the log, and the
decision it creates there is new because every existing one has a smaller index.
`AccountsOnlyAdvance` and `BankrollDominates` follow from `TypeOK`;
`apply_pnl(b, p) >= b + p` carries the second. `SettledOnProof` needs three more
facts: a program never posts past its feed (`FeedsBounded`), the three predicates
the oracle can be asked exclude each other (`ResultIsUnique`), and a decision's
strategy exists and keeps its oracle. `EntryOddsPublished` goes the same way over
the odds feed (`OddsBounded`); that a proven price stands only on a settled decision
needs that an open one is never proven.

`CountersAgree` is inductive with the finiteness of the decision accounts
(`CountInv`) and `LogBindsHistory`, which gives a new strategy no decisions: each
instruction moves one decision between two of the counted sets, and
`FS_AddElement` and `FS_RemoveElement` count it. `RealizedIsSum` goes the same way
with a sum in place of a count: a settlement changes one summand from 0 to what it
pays (`SumChange`), a void one from 0 to 0, a commit adds a summand of 0.

*Sums.* `SumFunction` is a fold whose definition recurses over a chosen element of
the set. `SumTheorems` proves, by well-founded induction on the subsets of a finite
set, that the fold exists and does not depend on the choice, and hence the six facts
the other modules use: the sum of nothing is 0, sums are integers, equal summands
give equal sums, one summand more adds itself and one less takes itself away
(`SumAdd`, `SumDrop`), and changing one summand changes the sum by the difference. Two
more sections serve what is sorted. In a finite strict order the number of predecessors
is a bijection onto the first numbers (`RankIsOrder`, `RankIsOnto`), so a definition that picks
"the one with n - 1 before it" is a sort, whatever the algorithm; and the last of a
running sum over such an order is the sum over the set, whatever the order.

*The refinement.* Initializing, posting odds and the clock are stutters; a commit is
`Seal`, a settlement `Settle`, a price proof `ConfirmPrice`, a void `Cancel`, a
posted score `Attest` (`RefinementStep`, one lemma per instruction). `Cancel` pays
nothing while a void writes a PnL of 0, so the void needs `OpenIsUnpaid`: an open
decision has a PnL of 0.

**The pipeline.** The invariant is built in layers, each inductive with those before
it. `Typed` holds because every price, stake and cap is computed from typed parts.
`BooksAgree` is `RiskBooksAgree`: a commit adds one summand to the total and to one
fixture and one market, a settlement takes the same one away (`SumAdd`, `SumDrop`), and
the two sites of the code that adjust the books are two uses of the same lemmas.
`LimitsHeld` adds the caps: `evaluate` cuts a stake against what the books say, and
the books are the truth. The loss bound follows from the breaker being checked before
each order. `KeysMarked` says that the key of every position is in `actedMarkets` or
`actedFixtures`, which only grow. `BestTracked` is `TrackedScoreIsBest`, which needs
that score frames of a fixture differ in `seq`. For `SettledOnFinal`, a
settlement is made on the tracked score, and what has been delivered stays so.
`SettledWhenIdle` needs `TimesKept` (the clock, the kickoffs) and `FinalsCovered`: an open
position on a fixture with a tracked final is due in the loop that is running. The
hard case is opening a position: the kickoff gate puts the clock before kickoff, and a
final is stamped after it, so none has been delivered.

**The sink.** `SinkInv` says, for every await at which a call can stand, what the
task, the transactions in flight, the reveals in memory, the store and the chain have
in common. `FlyingSound`: every transaction in flight is one the sink built, for a
seal of its own run, still to land with the accounts and arguments it was built with,
even after a restart has forgotten who sent it. `TaskSound`: at each step of each call
(`InCommit`, `InSettle`, `InProve`), what has been read from the chain is still true
there, or the transaction will be refused when it lands. `MemorySound`: the reveals kept are seals
on the chain; they differ in their nonce, so that two positions cannot be kept under
one account. `StoreSound`, `SumSound` and `Answered` say the same of the store,
its sum and its errors, and `SettledOnFinalRecord` is carried along.
`ChainIsLedger` needs the typing part only: every transaction that lands is one
instruction of the ledger with arguments of the right types. It is a refinement, so
the ledger's theorems are cited, not proved again, and `LogBindsHistory` is what lets
the sink conclude from an index to an account.

**Connector and feed.** `NoLostWakeup` is inductive once there is one pump per
channel (`WakeInv`): every step that fills the queue or finishes a pump clears
`wake`. `QueueIsContiguous` is inductive once a stream that
is still opening is known to have put nothing in the queue (`OrderInv`): without the
resume id it may start from anywhere. `TypeOK` says that what the feed sees and emits
are records; it needs that no id in the queue is beyond what the server has published.
`NoDoubleEmit` is inductive with "what was emitted is in `seen`"
(`EmitInv`). `NothingSkipped` rests on `StreamInv`: of each channel the queue holds
exactly the records after the one the feed took last, up to the pump's cursor, in
order; a pump that is opening stands at the resume id; and what has been seen was
emitted, has a gap event, or was dropped by a backfill that only counts it (`counted`).
The queue mixes two channels, so "the next of this channel"
(`RunAfter`) is stated by positions, and one lemma each covers taking the head and
appending a chunk. `ResumeHonoured` is used where a pump opens.

**Client.** `BudgetInv` gives the number of requests sent as a function of where a
call stands: its frame, both attempt counters and whether it has re-authenticated
(`SentSoFar`). `TokenInv` adds what a call has been refused so far, and that a token
granted but not stored yet has been carried by nobody (`GrantedUnused`): this is why
the token of the second attempt differs from that of the first even when another
caller stores one in between.

**Replay.** `ReplayInv` says by phase what is in `pending`: while fetching, the mapped
first copies of the batches taken so far, in the order of their places, each with the
order number it was pushed with (`Holds`); after the sort, the same records
ascending; while emitting, the rest of them, with what was emitted before it. The
loop over a batch is followed record by record (`AcceptReads`, `OneMoreRead`), by
induction on its length. `SortAscends` applies the lemmas about ranks to the comparator,
which is a strict total order on what is pending because order numbers differ. Nothing
is assumed of the fetches: a batch that fails is in `missed`, and no record of it is
among those to emit. Everything the feed does to the client is a call or a return, so
`ReplayUsesClient` is one lemma per action and the client's theorems are cited.

**Frame parser.** `ChunkInv`: as long as no CRLF is torn, `frames` and `buffer` are what
`Drain` makes of the whole text received. Two facts about one push carry it. CRLF
replacement distributes over a cut that tears none (`NormalizeConcat`); and draining a
text and then its rest with more behind it is draining all of it (`DrainContinues`): a
separator found in the shorter text is the first in the longer one (`SeparatorStays`), and
draining what is left is draining it where it stands (`DrainOfRest`). Both are inductions on the length; what
`parseFrame` makes of a frame does not matter to them.

**Store and dashboards.** `ApiInv`: no two dashboards share a connection, a
connection both ends hold is subscribed, and what is last on its wire, or else on
the page, is the store's snapshot. The step to look at is `emit`, which writes to
every listener whether or not another throws. `ViewsOnlyAdvance` rests on `ViewInv`:
what is on the way to a dashboard is in the order in which the store held it, after
what the page shows and before what the store holds. Every operation of the store
advances it (`NextStore`), and a new run comes after all of it. `PageAgrees` is a fact
about one snapshot: `StoreAgrees` is what its fields say of each other, every operation
of the store keeps it, and what is on a wire or on a page is a snapshot the store held.
The equity line then ends on the bankroll because the running sum over the settlements,
in the order of their times, is the sum the store keeps incrementally.

**Wire.** Three layers. *One value*: a number that passes its check comes back from its
bytes (`IntegerReads`), by induction on the width: the digits of `n` sum to `n`, or to
`n + B^width` for a negative one, and which of the two it was can be told from the
sum (`RangeIs`); flags, strings, options, proof nodes and vectors follow
(`ItemReads`, `VectorReads`), each with where the reader stops. *One structure*: a
flattened sequence holds its pieces, each where the one before ends (`Flattened`), and
the reader's positions are the writer's (`StructReads`), by induction on the fields,
for any layout. *This program*: both sides' layouts are the same sequence, although
the program's is put together of nested structs (`SettleArgsAre`, `ProveOddsArgsAre`),
and every field that is written has been checked for its width, except the kinds no
check is needed for (`ChecksCover`). Dropping a check, swapping two writes or giving a
field another width breaks one of these lemmas. `WireInv` then says what a call under
way has built, from which inputs and from which reveal; only the step where a commit
lands has something to show: the hash the program stores is that of the reveal the
later calls will send. The decoders ask for a size; `StrategySize` and `DecisionSize`
show that it is the size the program writes.

**Model-checked only.** All liveness (`DropReconnects`, `StopTakesHold`, `CatchesUp`,
`ShutdownExits`): fairness and `ENABLED` are out of the prover's reach. Every safety
and action property of a passing run is stated by a theorem.

## Findings

Places where a comment promises more than the code does; each is a run that TLC
finds violated.

* **One dropped stream is not a drop** (`EitherDropReconnects`): the loop ends
  when both pumps have. `sse-connector.ts:8-10` says a drop of either ends it.
* **A CRLF cut by a chunk boundary is not normalized** (`CrlfIsNormalized`): `push`
  replaces CRLF in each chunk on its own, so the CR stays in the buffer and the blank
  line that ends a frame is missed. `sse-parse.ts:51-52` says that frames are
  separated by a blank line and CRLF is normalized to LF.

Seen while modelling, and not runs:

* A void can follow the final score: `void_decision` bounds only the time since the
  commit, six hours (`lib.rs:318`); a match ends within two. `state.rs:31-32` says a
  void cannot dodge an imminent loss late in a match.
* The live configuration runs the steam path (`config.ts:90-120` sets no
  `crossMarket`), while `config.ts:10-12` says it matches the validated backtest
  configuration, which does (`backtest-config.ts:92`), and the dashboard's text
  (`App.tsx:155-156`) describes the cross-market one. That path trades first-half
  markets and settles them on the full-time score (`pipeline.ts:204` against
  `:325-326` and `events.ts:23`), and a position opened by odds handled after the
  whistle (`pipeline.ts:276`) stays open until another final score or the end of the
  feed (against `:604-605`).
* The backfill covers one clock hour, that of the latest event of either channel
  (`runtime.ts:51` against `:42-43`).
* The lookback for an entry price is seven to eight hours: eight clock-hour buckets
  that end with the one of the whistle (`prove-entry-odds.ts:78` against `:28-29`). The
  consequence is a skipped price proof, never a wrong one (`EntryOddsPublished`).
* At settlement `entryConsensusProb` falls back to the model probability when the
  history holds no observation old enough (`pipeline.ts:581`), a final frame without
  goals is rated on the last in-running score (`:500`), and a record of an older
  schedule overwrites the kickoff (`:456`). The first two are modelled, in
  `settlePosition` and `updateRatingsForFinal`.
* A record the backfill cannot map is marked as seen and `state.gaps` is incremented
  (`live.ts:276-278`, `:303-304`), but no gap event is yielded, and the copy of the
  resumed stream is then a duplicate. `live.ts:186-187` says that a dropped frame is
  counted and has a gap event, "so a consumer sees the dropped data per-event (not
  just in the final gapsDetected count)". The model keeps such records in `counted`,
  apart from `gaps`, and `NothingSkipped` names both.
* A session answer that arrives late overwrites a newer token; the next call pays
  with a refresh of its own (`RefusalIsReal` holds all the same).
* A replay drops a record that cannot be mapped, and every later good copy of its
  key, without counting a gap: the key is accepted before the record is mapped
  (`replay.ts:73-77`, `:89-93`), and only a failed fetch moves `gaps` (`:80`, `:96`).
  No document promises otherwise; `ReplaysFirstCopies` states what is emitted and what
  is counted. `done()` never resolves when the consumer throws.
* Before any feed status the pill reads "connected" as soon as the page has its
  connection, "Ingest" can only be idle or done, and a half-open connection shows
  old numbers as live until the browser notices. `void_decision` has no account
  builder in the client.

## Not modelled

* The numerics (de-vig, goals model, Elo, Poisson, metrics): floating point
  without state. The models take their results as sets to choose from.
* The zod schemas (shape checks of JSON) and `mapFixturePayload`, a copy of six
  fields. Records that fail the schemas appear as `Malformed`.
* Of the client: `setAuth` and the choice of endpoint, which change nothing in
  `sendWithRetry`; how long a backoff lasts. Of the port: the compute-budget
  instruction and the choice of a block hash.
* Of the live feed: heartbeats, status events (they reach `AgentApi` as an input)
  and the length of a backoff.
* Of the API and dashboard: `/health`, `/api/state`, static files, the keep-alive
  comment, layout, charts, the CLV summary and formatting.
* Of the risk manager: `latch`/`clear` and the day rollover, which the live path
  never calls.
* The parsing of the environment, the backtest reports and walk-forward numerics,
  the devnet scripts: start-up and offline tooling over the same parts.
* Liveness of the replay feed, whose consumer decides when it proceeds.

## Plan

Done: `AgentLedger` with `SealedBets`, `Pipeline`, `SseConnector` and `LiveFeed`,
`OnChainSink`, `TxlineClient`, `SseFrames`, `WireMapping` and `ReplayFeed`, `Wire`,
`AgentApi`, and the proofs above. Worth adding: the composition of feed and pipeline
through the tap, and of `Pipeline` with `OnChainSink` instead of the free calls of the
latter; two kickoff times per fixture, for the stale-schedule hazard.
