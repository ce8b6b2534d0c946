---------------------------- MODULE OnChainSink ----------------------------
(***************************************************************************)
(* OnChainSink of packages/agent with the SolanaOnChainPort it drives and  *)
(* the AgentStateStore it reports to, over AgentLedger.  The pipeline      *)
(* awaits one call at a time; every await of a call is a step, and between *)
(* two steps transactions land, the oracle posts, a second holder of the   *)
(* wallet commits, or the agent restarts.                                  *)
(*                                                                         *)
(* A transaction that was sent may land at any later time or never,        *)
(* whatever its sender was told: sendAndConfirm throws when the            *)
(* confirmation is lost as well as when the transaction is.  Any RPC or    *)
(* REST call may fail.  A landed transaction is an AgentLedger action.     *)
(***************************************************************************)
EXTENDS AgentLedger

CONSTANTS
  Agent,             (* the authority wallet                               *)
  StrategyId,
  Oracle,            (* txoracleProgramId                                  *)
  StartingBankroll,
  Decisions,         (* what the pipeline decides in a run, in order       *)
  Foreign,           (* a seal of the second holder of the wallet          *)
  HourMs,            (* 3_600_000 in the code                              *)
  ODDS_LOOKBACK_HOURS,  (* 8 in the code                                   *)
  MaxNonce,          (* bound: seals built                                 *)
  MaxRestarts        (* bound: restarts of the agent                       *)

Ours == <<Agent, StrategyId>>
MARKET_1X2 == 0

ASSUME SinkAssumption ==
  /\ Ours \in StrategyKeys /\ Oracle \in Programs
  /\ StartingBankroll \in Bankrolls /\ Foreign \in Reveals
  /\ Decisions \in Seq([fixture_id : Fixtures, side : Sides,
                        entry_odds_milli : Nat, stake : 0..MaxU64])
  /\ HourMs \in Nat \ {0} /\ ODDS_LOOKBACK_HOURS \in Nat
  /\ MaxNonce \in Nat /\ MaxRestarts \in Nat
  /\ \A i \in DOMAIN ScoreFeed[Oracle] : ScoreFeed[Oracle][i].ts \in Timestamps
  /\ \A i \in DOMAIN OddsFeed[Oracle] : OddsFeed[Oracle][i].ts \in Timestamps

VARIABLES
  task,         (* the call being awaited: its kind, position, step and     *)
                (* transaction, and whether that one has landed             *)
  calls,        (* onCommit calls of this run                               *)
  settleCalls,  (* positions onSettle was called for in this run            *)
  committed,    (* reveal and on-chain index by position                    *)
  store,        (* the positions of the AgentStateStore                     *)
  realizedPnl,  (* its realizedPnl                                          *)
  errors,       (* the <<stage, position>> pairs it was told (recordError)  *)
  flying,       (* transactions sent that have not landed                   *)
  nonces,       (* sealing nonces drawn                                     *)
  restarts

run_vars == <<calls, settleCalls, committed, store, realizedPnl, errors>>
sink_vars == <<task, run_vars, flying, nonces, restarts>>

Call(op, pos, step, tx) ==
  [op |-> op, pos |-> pos, step |-> step, tx |-> tx, landed |-> FALSE]
NoTx == [kind |-> "none"]
Idle == Call("none", 0, "idle", NoTx)

\* A call returns after recording an error, or without one.
fail(stage) ==
  /\ errors' = errors \cup {<<stage, task.pos>>}
  /\ task' = Idle

return == task' = Idle /\ UNCHANGED errors

\* sendInstructions, after the blockhash and the signature.
sendInstructions(tx) ==
  /\ flying' = flying \cup {tx}
  /\ task' = [task EXCEPT !.step = "confirm", !.tx = tx, !.landed = FALSE]
  /\ UNCHANGED errors
----------------------------------------------------------------------------
(***************************************************************************)
(* The network: transactions land, with the accounts and arguments their   *)
(* builders gave them.                                                     *)
(***************************************************************************)
InitializeTx == [kind |-> "initialize"]
CommitTx(reveal) == [kind |-> "commit", reveal |-> reveal, index |-> reveal.index]
SettleTx(pending, record) ==
  [kind |-> "settle", reveal |-> pending.reveal, index |-> pending.onChainIndex,
   record |-> record]
ProveTx(pending, record, side_index) ==
  [kind |-> "prove", reveal |-> pending.reveal, index |-> pending.onChainIndex,
   record |-> record, side_index |-> side_index]

\* claimedResult, in participant space, from the goals the proof is about.
claimedResult(record) ==
  LET home == record.stat[<<STAT_KEY_PARTICIPANT1, FULL_GAME_PERIOD>>]
      away == record.stat[<<STAT_KEY_PARTICIPANT2, FULL_GAME_PERIOD>>]
  IN  CASE home > away -> SIDE_HOME [] home = away -> SIDE_DRAW [] OTHER -> SIDE_AWAY

\* The decision account a commit creates is named in the transaction, and the
\* program derives it from decisions_count: they have to agree when it lands.
LandCommit(tx) ==
  /\ Ours \in DOMAIN strategy /\ strategy[Ours].decisions_count = tx.index
  /\ commit_decision(Agent, Ours, compute_commit_hash(tx.reveal),
                     tx.reveal.fixture_id, tx.reveal.market)

LandSettle(tx) ==
  LET d == <<Ours, tx.index>>
      record == ScoreFeed[Oracle][tx.record]
  IN
  /\ SettleAccounts(Agent, Ours, d, tx.reveal)
  /\ settle_with(Ours, d, tx.reveal, Oracle, record.ts, claimedResult(record), tx.record,
                 <<STAT_KEY_PARTICIPANT1, FULL_GAME_PERIOD>>,
                 <<STAT_KEY_PARTICIPANT2, FULL_GAME_PERIOD>>)
  /\ UNCHANGED <<now, scoresPosted, oddsPosted>>

LandProve(tx) ==
  LET d == <<Ours, tx.index>> IN
  /\ ProveAccounts(Agent, Ours, d, tx.reveal)
  /\ prove_with(Ours, d, tx.reveal, Oracle, OddsFeed[Oracle][tx.record].ts,
                tx.record, tx.side_index)
  /\ decision' = [decision EXCEPT ![d] = Proven(@)]
  /\ UNCHANGED <<strategy, now, scoresPosted, oddsPosted>>

Land(tx) ==
  /\ \/ /\ tx.kind = "initialize"
        /\ initialize_strategy(Agent, StrategyId, Oracle, StartingBankroll)
     \/ tx.kind = "commit" /\ LandCommit(tx)
     \/ tx.kind = "settle" /\ LandSettle(tx)
     \/ tx.kind = "prove" /\ LandProve(tx)
  /\ flying' = flying \ {tx}
  /\ task' = IF task.step = "confirm" /\ task.tx = tx
             THEN [task EXCEPT !.landed = TRUE] ELSE task
  /\ UNCHANGED <<run_vars, nonces, restarts>>

\* Another process that holds the same wallet (a devnet tool, a second agent).
OtherCommit ==
  /\ Ours \in DOMAIN strategy
  /\ commit_decision(Agent, Ours, compute_commit_hash(Foreign), Foreign.fixture_id,
                     Foreign.market)
  /\ UNCHANGED sink_vars
----------------------------------------------------------------------------
(***************************************************************************)
(* bootstrapAgentRuntime.  When it fails the process exits.                *)
(***************************************************************************)
Boot == Call("boot", 0, "boot", NoTx)
Down == Call("boot", 0, "down", NoTx)

bootstrap ==
  /\ task.step = "boot"
  /\ \/ task' = Down /\ UNCHANGED <<flying, errors>>
     \/ Ours \in DOMAIN strategy /\ return /\ UNCHANGED flying
     \/ Ours \notin DOMAIN strategy /\ sendInstructions(InitializeTx)
  /\ UNCHANGED <<vars, calls, settleCalls, committed, store, realizedPnl, nonces, restarts>>

BootConfirmed ==
  /\ task.step = "confirm" /\ task.op = "boot"
  /\ \/ task' = Down /\ UNCHANGED errors
     \/ task.landed /\ return
  /\ UNCHANGED <<vars, calls, settleCalls, committed, store, realizedPnl, flying, nonces,
                 restarts>>

\* The reveals and the store are in memory only; the pipeline starts again at
\* position 0.  What was sent before can land afterwards.
Restart ==
  /\ restarts < MaxRestarts /\ restarts' = restarts + 1
  /\ task' = Boot
  /\ calls' = 0 /\ settleCalls' = {} /\ realizedPnl' = 0 /\ errors' = {}
  /\ committed' = [p \in {} |-> 0] /\ store' = [p \in {} |-> 0]
  /\ UNCHANGED <<vars, flying, nonces>>
----------------------------------------------------------------------------
(***************************************************************************)
(* onCommit.                                                               *)
(***************************************************************************)
buildRevealFromDecision(d, index, nonce) ==
  [strategy |-> Ours, index |-> index, fixture_id |-> d.fixture_id,
   market |-> MARKET_1X2, side |-> d.side, entry_odds_milli |-> d.entry_odds_milli,
   stake |-> d.stake, nonce |-> nonce]

\* The seals the ledger can tell apart include those of this agent.
ASSUME SealsAssumption ==
  \A p \in DOMAIN Decisions, i \in 0..MaxDecisions - 1, n \in 1..MaxNonce :
    buildRevealFromDecision(Decisions[p], i, n) \in Reveals

onCommit ==
  /\ task = Idle /\ calls < Len(Decisions)
  /\ task' = Call("commit", calls, "read", NoTx)
  /\ calls' = calls + 1
  /\ UNCHANGED <<vars, settleCalls, committed, store, realizedPnl, errors, flying, nonces,
                 restarts>>

SealDecision ==
  /\ task.step = "read"
  /\ \/ fail("commit") /\ UNCHANGED nonces
     \/ /\ Ours \in DOMAIN strategy /\ nonces < MaxNonce
        /\ nonces' = nonces + 1
        /\ task' = [task EXCEPT !.step = "check", !.tx = CommitTx(
             buildRevealFromDecision(Decisions[task.pos + 1],
                                     strategy[Ours].decisions_count, nonces'))]
        /\ UNCHANGED errors
  /\ UNCHANGED <<vars, calls, settleCalls, committed, store, realizedPnl, flying, restarts>>

PortTakesAnyIndex ==                                                   \* mutant
  /\ task.step = "check"
  /\ \/ fail("commit") /\ UNCHANGED flying
     \/ /\ Ours \in DOMAIN strategy
        /\ sendInstructions([task.tx EXCEPT !.index = strategy[Ours].decisions_count])
  /\ UNCHANGED <<vars, calls, settleCalls, committed, store, realizedPnl, nonces, restarts>>

\* SolanaOnChainPort.commit reads decisions_count again.
PortCommit ==
  /\ task.step = "check"
  /\ \/ fail("commit") /\ UNCHANGED flying
     \/ /\ Ours \in DOMAIN strategy
        /\ task.tx.reveal.index = strategy[Ours].decisions_count
        /\ sendInstructions([task.tx EXCEPT !.index = strategy[Ours].decisions_count])
  /\ UNCHANGED <<vars, calls, settleCalls, committed, store, realizedPnl, nonces, restarts>>

CommitConfirmed ==
  /\ task.step = "confirm" /\ task.op = "commit"
  /\ \/ fail("commit") /\ UNCHANGED <<committed, store>>
     \/ /\ task.landed
        /\ committed' = Create(committed, task.pos,
             [reveal |-> task.tx.reveal, onChainIndex |-> task.tx.index])
        /\ store' = Create(store, task.pos,
             [onChainIndex |-> task.tx.index, settled |-> FALSE, won |-> FALSE,
              pnl |-> 0, proven |-> FALSE])
        /\ return
  /\ UNCHANGED <<vars, calls, settleCalls, realizedPnl, flying, nonces, restarts>>
----------------------------------------------------------------------------
(***************************************************************************)
(* onSettle.                                                               *)
(***************************************************************************)
FinalRecords(fixture_id) ==
  {i \in DOMAIN ScoreFeed[Oracle] : /\ ScoreFeed[Oracle][i].fixture_id = fixture_id
                                    /\ ScoreFeed[Oracle][i].final}

ForgetSilently(p) ==                                                   \* mutant
  task' = Idle /\ UNCHANGED errors

\* "no committed reveal (its commit failed earlier)"
NoReveal(p) == errors' = errors \cup {<<"settle", p>>} /\ task' = Idle

\* The pipeline settles a position on a final record, its settledSeq.
onSettle(p, record) ==
  /\ task = Idle /\ p \in 0..calls - 1 /\ p \notin settleCalls
  /\ record \in FinalRecords(Decisions[p + 1].fixture_id)
  /\ settleCalls' = settleCalls \cup {p}
  /\ \/ p \notin DOMAIN committed /\ NoReveal(p)
     \/ /\ p \in DOMAIN committed
        /\ task' = Call("settle", p, "proof", SettleTx(committed[p], record))
        /\ UNCHANGED errors
  /\ UNCHANGED <<vars, calls, committed, store, realizedPnl, flying, nonces, restarts>>

ProofOfAnyScore(record) ==                                             \* mutant
  {i \in 1..scoresPosted[Oracle] :
     ScoreFeed[Oracle][i].fixture_id = ScoreFeed[Oracle][record].fixture_id}

\* getScoresStatValidation answers for the record of settledSeq, once it is
\* anchored.
ProofOf(record) == {record} \cap 1..scoresPosted[Oracle]

FetchProof ==
  /\ task.step = "proof"
  /\ \/ fail("settle") /\ UNCHANGED flying
     \/ \E i \in ProofOf(task.tx.record) :
          sendInstructions([task.tx EXCEPT !.record = i])
  /\ UNCHANGED <<vars, calls, settleCalls, committed, store, realizedPnl, nonces, restarts>>

SettleSentIsSettled ==                                                 \* mutant
  /\ task.step = "confirm" /\ task.op = "settle"
  /\ \/ fail("settle")
     \/ task' = [task EXCEPT !.step = "readback"] /\ UNCHANGED errors
  /\ UNCHANGED <<vars, calls, settleCalls, committed, store, realizedPnl, flying, nonces,
                 restarts>>

SettleConfirmed ==
  /\ task.step = "confirm" /\ task.op = "settle"
  /\ \/ fail("settle")
     \/ /\ task.landed
        /\ task' = [task EXCEPT !.step = "readback"] /\ UNCHANGED errors
  /\ UNCHANGED <<vars, calls, settleCalls, committed, store, realizedPnl, flying, nonces,
                 restarts>>

\* won and pnl come from the account as it is read back.
markSettled(p, won, pnl) ==
  IF p \notin DOMAIN store
  THEN errors' = errors \cup {<<"settle", p>>} /\ UNCHANGED <<store, realizedPnl>>
  ELSE /\ store' = [store EXCEPT ![p].settled = TRUE, ![p].won = won, ![p].pnl = pnl]
       /\ realizedPnl' = realizedPnl + pnl
       /\ UNCHANGED errors

ReadDecision ==
  /\ task.step = "readback"
  /\ \/ fail("settle") /\ UNCHANGED <<store, realizedPnl>>
     \/ LET account == decision[<<Ours, task.tx.index>>]
            won == /\ account.status = STATUS_SETTLED
                   /\ account.outcome_side = task.tx.reveal.side
        IN  /\ markSettled(task.pos, won, account.pnl)
            /\ task' = [task EXCEPT !.step = "discover"]
  /\ UNCHANGED <<vars, calls, settleCalls, committed, flying, nonces, restarts>>
----------------------------------------------------------------------------
(***************************************************************************)
(* proveEntryOddsForReveal, after the settlement and best effort.          *)
(***************************************************************************)
anchorTs == ScoreFeed[Oracle][task.tx.record].ts

\* The hour buckets scanned, the one of anchorTs and those before it.
lookbackWindows(anchor) ==
  {(anchor - h * HourMs) \div HourMs : h \in 0..ODDS_LOOKBACK_HOURS - 1}

\* The first label of the record that denotes the side, if there is one.
SideIndex(record, side) ==
  {k \in DOMAIN record.price_names :
     /\ side_matches_label(side, record.price_names[k])
     /\ \A j \in 1..k - 1 : ~side_matches_label(side, record.price_names[j])}

\* Record i quotes the sealed price for the sealed side.
QuotesSealed(i, reveal, k) ==
  LET record == OddsFeed[Oracle][i] IN
  /\ record.fixture_id = reveal.fixture_id
  /\ record.super_odds_type = SUPER_ODDS_TYPE_1X2
  /\ Len(record.price_names) = Len(record.prices)
  /\ k \in SideIndex(record, reveal.side)
  /\ record.prices[k] = reveal.entry_odds_milli

\* An interval that cannot be fetched is passed over; a record whose proof
\* cannot be fetched ends the search: neither is an error.
DiscoverEntryOdds ==
  /\ task.step = "discover"
  /\ \/ return /\ UNCHANGED flying
     \/ \E i \in 1..oddsPosted[Oracle], k \in 1..3 :
          /\ QuotesSealed(i, task.tx.reveal, k)
          /\ OddsFeed[Oracle][i].ts \div HourMs \in lookbackWindows(anchorTs)
          /\ \/ fail("prove-odds") /\ UNCHANGED flying
             \/ LET tx == ProveTx(committed[task.pos], i, k) IN
                /\ flying' = flying \cup {tx}
                /\ task' = Call("prove", task.pos, "confirm", tx)
                /\ UNCHANGED errors
  /\ UNCHANGED <<vars, calls, settleCalls, committed, store, realizedPnl, nonces, restarts>>

\* The send, and the read-back of entry_odds_proven: markOddsProven.
ProveConfirmed ==
  /\ task.step = "confirm" /\ task.op = "prove"
  /\ \/ fail("prove-odds") /\ UNCHANGED store
     \/ /\ task.landed /\ decision[<<Ours, task.tx.index>>].entry_odds_proven
        /\ IF task.pos \in DOMAIN store /\ store[task.pos].settled
           THEN store' = [store EXCEPT ![task.pos].proven = TRUE] /\ return
           ELSE fail("prove-odds") /\ UNCHANGED store
  /\ UNCHANGED <<vars, calls, settleCalls, committed, realizedPnl, flying, nonces, restarts>>
----------------------------------------------------------------------------
SinkInit ==
  /\ Init
  /\ task = Boot /\ calls = 0 /\ settleCalls = {}
  /\ committed = [p \in {} |-> 0] /\ store = [p \in {} |-> 0]
  /\ realizedPnl = 0 /\ errors = {} /\ flying = {} /\ nonces = 0 /\ restarts = 0

CommitCall == onCommit \/ SealDecision \/ PortCommit \/ CommitConfirmed

SettleCall ==
  \/ \E p \in 0..calls - 1, i \in DOMAIN ScoreFeed[Oracle] : onSettle(p, i)
  \/ FetchProof \/ SettleConfirmed \/ ReadDecision \/ DiscoverEntryOdds \/ ProveConfirmed

World ==
  \/ \E tx \in flying : Land(tx)
  \/ OtherCommit
  \/ (PostScore(Oracle) \/ PostOdds(Oracle) \/ Tick) /\ UNCHANGED sink_vars

SinkNext ==
  bootstrap \/ BootConfirmed \/ Restart \/ CommitCall \/ SettleCall \/ World

SinkSpec == SinkInit /\ [][SinkNext]_<<vars, sink_vars>>
----------------------------------------------------------------------------
Positions == 0..Len(Decisions) - 1
StoreView ==
  [onChainIndex : Nat, settled : BOOLEAN, won : BOOLEAN, pnl : Int, proven : BOOLEAN]

\* Every variable of the sink and of the store holds values of its type.
SinkTypeOK ==
  /\ task.op \in {"none", "boot", "commit", "settle", "prove"}
  /\ task.step \in {"idle", "boot", "down", "read", "check", "proof", "confirm",
                    "readback", "discover"}
  /\ calls \in 0..Len(Decisions) /\ settleCalls \subseteq 0..calls - 1
  /\ DOMAIN committed \subseteq 0..calls - 1 /\ DOMAIN store = DOMAIN committed
  /\ \A p \in DOMAIN committed :
       committed[p].reveal \in Reveals /\ committed[p].onChainIndex \in Nat
  /\ store \in [DOMAIN store -> StoreView]
  /\ realizedPnl \in Int /\ errors \subseteq {"commit", "settle", "prove-odds"} \X Positions
  /\ nonces \in 0..MaxNonce /\ restarts \in 0..MaxRestarts

\* "The port rejects a commit whose reveal.index does not match the on-chain
\* decisions_count, so the sealed reveal and stored index agree" (onCommit): a
\* remembered reveal is the seal of the decision account it is stored for,
\* whoever else commits and whatever still lands.
RevealFitsChain ==
  \A p \in DOMAIN committed :
    LET d == <<Ours, committed[p].onChainIndex>> IN
    /\ d \in DOMAIN decision
    /\ decision[d].commit_hash = compute_commit_hash(committed[p].reveal)
    /\ committed[p].reveal.index = committed[p].onChainIndex

SettledInStore == {p \in DOMAIN store : store[p].settled}

\* What the read-only API serves is on the chain: a position shown as settled,
\* won or proven is so in its own decision account with the same PnL, two
\* positions never show the same account, and realizedPnl is their sum.
StoreBackedByChain ==
  /\ SinkTypeOK
  /\ \A p \in DOMAIN store :
       LET x == decision[<<Ours, store[p].onChainIndex>>] IN
       /\ store[p].settled => /\ x.status = STATUS_SETTLED /\ x.pnl = store[p].pnl
                              /\ store[p].won <=> x.outcome_side = Decisions[p + 1].side
       /\ store[p].proven => x.entry_odds_proven
       /\ \A q \in DOMAIN store \ {p} : store[q].onChainIndex # store[p].onChainIndex
  /\ realizedPnl = SumFunction([p \in SettledInStore |-> store[p].pnl])

\* "Failures are recorded in the store" (OnChainSink): when no call is running,
\* each commit the pipeline asked for is in the store or among its errors, and
\* so is each settlement.
FailuresRecorded ==
  task = Idle =>
    /\ \A p \in 0..calls - 1 : p \in DOMAIN store \/ <<"commit", p>> \in errors
    /\ \A p \in settleCalls : p \in SettledInStore \/ <<"settle", p>> \in errors

\* settle_decision accepts any score of the fixture; it is the sink that only
\* ever sends the proof of the record the pipeline settled on.  Every decision of
\* the strategy that is settled carries the result of a final record.
SettledOnFinalRecord ==
  \A d \in WithStatus(Ours, STATUS_SETTLED) :
    \E i \in FinalRecords(decision[d].fixture_id) :
      claimedResult(ScoreFeed[Oracle][i]) = decision[d].outcome_side
=============================================================================
