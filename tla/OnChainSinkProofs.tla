------------------------- MODULE OnChainSinkProofs -------------------------
(***************************************************************************)
(* Theorems about the chain and the sink that writes to it, for every      *)
(* value of the constants.  First AgentLedger by itself: what each         *)
(* instruction does, type correctness, the safety invariants that follow   *)
(* from those effects, what the accounts are worth, and the refinement.    *)
(* Then OnChainSink: the chain under the sink is a behaviour of            *)
(* AgentLedger, so the theorems of the ledger hold of it; what the sink    *)
(* remembers, sends and reports is shown to agree with that chain.         *)
(***************************************************************************)
EXTENDS OnChainSink, SumTheorems
(***************************************************************************)
(* The arithmetic of logic.rs.                                             *)
(***************************************************************************)

\* A PnL is an integer: the division of compute_pnl never leaves Int.
LEMMA PnlType ==
  ASSUME NEW won \in BOOLEAN, NEW stake \in Nat, NEW odds \in Nat
  PROVE  compute_pnl(won, stake, odds) \in Int
<1>1. stake * (odds - 1000) \in Int
  OBVIOUS
<1>2. (stake * (odds - 1000)) \div 1000 \in Int
  BY <1>1
<1> QED
  BY <1>2 DEF compute_pnl

\* apply_pnl keeps a u64 a u64 whenever the code does not fail.
LEMMA ApplyType ==
  ASSUME NEW bankroll \in 0..MaxU64, NEW pnl \in Int,
         ApplyIsSome(bankroll, pnl)
  PROVE  /\ apply_pnl(bankroll, pnl) \in 0..MaxU64
         /\ apply_pnl(bankroll, pnl) >= bankroll + pnl
  BY LedgerAssumption DEF ApplyIsSome, apply_pnl

\* An instruction that replaces one account of a map leaves the others alone.
LEMMA ReplaceType ==
  ASSUME NEW S, NEW T, NEW f \in [S -> T], NEW k \in S, NEW v \in T,
         NEW g, g = [f EXCEPT ![k] = v]
  PROVE  /\ DOMAIN g = S
         /\ g \in [S -> T]
         /\ g[k] = v
         /\ \A x \in S : x # k => g[x] = f[x]
  OBVIOUS

(***************************************************************************)
(* What each instruction writes to an account.                             *)
(***************************************************************************)

LEMMA CountCommitFields ==
  ASSUME NEW x \in StrategyAccount, NEW h \in Hashes, NEW y, y = CountCommit(x, h)
  PROVE  /\ y \in StrategyAccount
         /\ y.txline_program = x.txline_program
         /\ y.starting_bankroll = x.starting_bankroll
         /\ y.bankroll = x.bankroll /\ y.realized_pnl = x.realized_pnl
         /\ y.decisions_count = x.decisions_count + 1
         /\ y.open_count = x.open_count + 1
         /\ y.settled_count = x.settled_count /\ y.wins = x.wins
         /\ y.losses = x.losses /\ y.pushes = x.pushes
         /\ y.commit_log_root = Append(x.commit_log_root, <<h, x.decisions_count>>)
<1>1. x = [authority |-> x.authority, strategy_id |-> x.strategy_id,
           txline_program |-> x.txline_program,
           starting_bankroll |-> x.starting_bankroll,
           bankroll |-> x.bankroll, realized_pnl |-> x.realized_pnl,
           decisions_count |-> x.decisions_count,
           open_count |-> x.open_count, settled_count |-> x.settled_count,
           wins |-> x.wins, losses |-> x.losses, pushes |-> x.pushes,
           commit_log_root |-> x.commit_log_root]
  BY DEF StrategyAccount
<1>2. y = [authority |-> x.authority, strategy_id |-> x.strategy_id,
           txline_program |-> x.txline_program,
           starting_bankroll |-> x.starting_bankroll,
           bankroll |-> x.bankroll, realized_pnl |-> x.realized_pnl,
           decisions_count |-> x.decisions_count + 1,
           open_count |-> x.open_count + 1,
           settled_count |-> x.settled_count, wins |-> x.wins,
           losses |-> x.losses, pushes |-> x.pushes,
           commit_log_root |-> Append(x.commit_log_root, <<h, x.decisions_count>>)]
  BY <1>1 DEF CountCommit
<1> QED
  BY SMTT(30), <1>2 DEF StrategyAccount

LEMMA CountSettledFields ==
  ASSUME NEW x \in StrategyAccount, NEW won \in BOOLEAN, NEW pnl \in Int, NEW y, y = CountSettled(x, won, pnl),
         InI64(x.realized_pnl + pnl), x.open_count > 0,
         apply_pnl(x.bankroll, pnl) \in 0..MaxU64
  PROVE  /\ y \in StrategyAccount
         /\ y.txline_program = x.txline_program
         /\ y.starting_bankroll = x.starting_bankroll
         /\ y.bankroll = apply_pnl(x.bankroll, pnl)
         /\ y.realized_pnl = x.realized_pnl + pnl
         /\ y.decisions_count = x.decisions_count
         /\ y.open_count = x.open_count - 1
         /\ y.settled_count = x.settled_count + 1
         /\ y.wins = (IF won THEN x.wins + 1 ELSE x.wins)
         /\ y.losses = (IF won THEN x.losses ELSE x.losses + 1)
         /\ y.pushes = x.pushes /\ y.commit_log_root = x.commit_log_root
<1>1. x = [authority |-> x.authority, strategy_id |-> x.strategy_id,
           txline_program |-> x.txline_program,
           starting_bankroll |-> x.starting_bankroll,
           bankroll |-> x.bankroll, realized_pnl |-> x.realized_pnl,
           decisions_count |-> x.decisions_count,
           open_count |-> x.open_count, settled_count |-> x.settled_count,
           wins |-> x.wins, losses |-> x.losses, pushes |-> x.pushes,
           commit_log_root |-> x.commit_log_root]
  BY DEF StrategyAccount
<1>2. y = [authority |-> x.authority, strategy_id |-> x.strategy_id,
           txline_program |-> x.txline_program,
           starting_bankroll |-> x.starting_bankroll,
           bankroll |-> apply_pnl(x.bankroll, pnl),
           realized_pnl |-> x.realized_pnl + pnl,
           decisions_count |-> x.decisions_count,
           open_count |-> x.open_count - 1,
           settled_count |-> x.settled_count + 1,
           wins |-> (IF won THEN x.wins + 1 ELSE x.wins),
           losses |-> (IF won THEN x.losses ELSE x.losses + 1),
           pushes |-> x.pushes, commit_log_root |-> x.commit_log_root]
  BY <1>1 DEF CountSettled
<1>3. /\ y.wins \in Nat /\ y.losses \in Nat
      /\ y.settled_count \in Nat /\ y.open_count \in Nat
      /\ y.realized_pnl \in -(MaxI64 + 1)..MaxI64
  <2>1. /\ x.wins \in Nat /\ x.losses \in Nat
        /\ x.settled_count \in Nat /\ x.open_count \in Nat
    BY DEF StrategyAccount
  <2>2. /\ y.wins = (IF won THEN x.wins + 1 ELSE x.wins)
        /\ y.losses = (IF won THEN x.losses ELSE x.losses + 1)
        /\ y.settled_count = x.settled_count + 1
        /\ y.open_count = x.open_count - 1
        /\ y.realized_pnl = x.realized_pnl + pnl
    BY <1>2
  <2> QED
    BY <2>1, <2>2 DEF InI64
<1>4. y \in StrategyAccount
  <2> DEFINE w == y.wins
             l == y.losses
             r == y.realized_pnl
             o == y.open_count
             c == y.settled_count
             b == y.bankroll
  <2>1. y = [authority |-> x.authority, strategy_id |-> x.strategy_id,
             txline_program |-> x.txline_program,
             starting_bankroll |-> x.starting_bankroll,
             bankroll |-> b, realized_pnl |-> r,
             decisions_count |-> x.decisions_count, open_count |-> o,
             settled_count |-> c, wins |-> w, losses |-> l,
             pushes |-> x.pushes, commit_log_root |-> x.commit_log_root]
    BY <1>2
  <2>2. b \in 0..MaxU64
    BY <1>2
  <2> HIDE DEF w, l, r, o, c, b
  <2> QED
    BY <1>3, <2>1, <2>2 DEF StrategyAccount, w, l, r, o, c
<1> QED
  BY <1>2, <1>4

LEMMA CountVoidFields ==
  ASSUME NEW x \in StrategyAccount, NEW y, y = CountVoid(x), x.open_count > 0
  PROVE  /\ y \in StrategyAccount
         /\ y.txline_program = x.txline_program
         /\ y.starting_bankroll = x.starting_bankroll
         /\ y.bankroll = x.bankroll /\ y.realized_pnl = x.realized_pnl
         /\ y.decisions_count = x.decisions_count
         /\ y.open_count = x.open_count - 1
         /\ y.settled_count = x.settled_count /\ y.wins = x.wins
         /\ y.losses = x.losses /\ y.pushes = x.pushes + 1
         /\ y.commit_log_root = x.commit_log_root
<1>1. x = [authority |-> x.authority, strategy_id |-> x.strategy_id,
           txline_program |-> x.txline_program,
           starting_bankroll |-> x.starting_bankroll,
           bankroll |-> x.bankroll, realized_pnl |-> x.realized_pnl,
           decisions_count |-> x.decisions_count,
           open_count |-> x.open_count, settled_count |-> x.settled_count,
           wins |-> x.wins, losses |-> x.losses, pushes |-> x.pushes,
           commit_log_root |-> x.commit_log_root]
  BY DEF StrategyAccount
<1>2. y = [authority |-> x.authority, strategy_id |-> x.strategy_id,
           txline_program |-> x.txline_program,
           starting_bankroll |-> x.starting_bankroll,
           bankroll |-> x.bankroll, realized_pnl |-> x.realized_pnl,
           decisions_count |-> x.decisions_count,
           open_count |-> x.open_count - 1,
           settled_count |-> x.settled_count, wins |-> x.wins,
           losses |-> x.losses, pushes |-> x.pushes + 1,
           commit_log_root |-> x.commit_log_root]
  BY <1>1 DEF CountVoid
<1> QED
  BY <1>2 DEF StrategyAccount

LEMMA SettledFields ==
  ASSUME NEW x \in DecisionCommit,
         NEW side \in Sides, NEW pnl \in Int, NEW slot \in Nat, NEW y, y = Settled(x, side, pnl, slot)
  PROVE  /\ y \in DecisionCommit
         /\ y.commit_hash = x.commit_hash /\ y.fixture_id = x.fixture_id
         /\ y.market = x.market /\ y.commit_unix_ts = x.commit_unix_ts
         /\ y.status = STATUS_SETTLED /\ y.outcome_side = side
         /\ y.pnl = pnl /\ y.settle_slot = slot
         /\ y.entry_odds_proven = x.entry_odds_proven
<1>1. x = [strategy |-> x.strategy, index |-> x.index,
           commit_hash |-> x.commit_hash, fixture_id |-> x.fixture_id,
           market |-> x.market, commit_unix_ts |-> x.commit_unix_ts,
           status |-> x.status, outcome_side |-> x.outcome_side,
           pnl |-> x.pnl, settle_slot |-> x.settle_slot,
           entry_odds_proven |-> x.entry_odds_proven]
  BY DEF DecisionCommit
<1>2. y = [strategy |-> x.strategy, index |-> x.index,
           commit_hash |-> x.commit_hash, fixture_id |-> x.fixture_id,
           market |-> x.market, commit_unix_ts |-> x.commit_unix_ts,
           status |-> STATUS_SETTLED, outcome_side |-> side, pnl |-> pnl,
           settle_slot |-> slot, entry_odds_proven |-> x.entry_odds_proven]
  BY <1>1 DEF Settled
<1> QED
  BY <1>2 DEF DecisionCommit, Statuses, STATUS_OPEN, STATUS_SETTLED,
              STATUS_VOID

LEMMA VoidedFields ==
  ASSUME NEW x \in DecisionCommit, NEW slot \in Nat, NEW y, y = Voided(x, slot)
  PROVE  /\ y \in DecisionCommit
         /\ y.commit_hash = x.commit_hash /\ y.fixture_id = x.fixture_id
         /\ y.market = x.market /\ y.commit_unix_ts = x.commit_unix_ts /\ y.status = STATUS_VOID
         /\ y.outcome_side = x.outcome_side /\ y.pnl = 0
         /\ y.settle_slot = slot
         /\ y.entry_odds_proven = x.entry_odds_proven
<1>1. x = [strategy |-> x.strategy, index |-> x.index,
           commit_hash |-> x.commit_hash, fixture_id |-> x.fixture_id,
           market |-> x.market, commit_unix_ts |-> x.commit_unix_ts,
           status |-> x.status, outcome_side |-> x.outcome_side,
           pnl |-> x.pnl, settle_slot |-> x.settle_slot,
           entry_odds_proven |-> x.entry_odds_proven]
  BY DEF DecisionCommit
<1>2. y = [strategy |-> x.strategy, index |-> x.index,
           commit_hash |-> x.commit_hash, fixture_id |-> x.fixture_id,
           market |-> x.market, commit_unix_ts |-> x.commit_unix_ts,
           status |-> STATUS_VOID, outcome_side |-> x.outcome_side,
           pnl |-> 0, settle_slot |-> slot,
           entry_odds_proven |-> x.entry_odds_proven]
  BY <1>1 DEF Voided
<1> QED
  BY <1>2 DEF DecisionCommit, Statuses, STATUS_OPEN, STATUS_SETTLED,
              STATUS_VOID

LEMMA ProvenFields ==
  ASSUME NEW x \in DecisionCommit, NEW y, y = Proven(x)
  PROVE  /\ y \in DecisionCommit
         /\ y.commit_hash = x.commit_hash /\ y.fixture_id = x.fixture_id
         /\ y.market = x.market /\ y.commit_unix_ts = x.commit_unix_ts /\ y.status = x.status
         /\ y.outcome_side = x.outcome_side /\ y.pnl = x.pnl
         /\ y.settle_slot = x.settle_slot /\ y.entry_odds_proven = TRUE
<1>1. x = [strategy |-> x.strategy, index |-> x.index,
           commit_hash |-> x.commit_hash, fixture_id |-> x.fixture_id,
           market |-> x.market, commit_unix_ts |-> x.commit_unix_ts,
           status |-> x.status, outcome_side |-> x.outcome_side,
           pnl |-> x.pnl, settle_slot |-> x.settle_slot,
           entry_odds_proven |-> x.entry_odds_proven]
  BY DEF DecisionCommit
<1>2. y = [strategy |-> x.strategy, index |-> x.index,
           commit_hash |-> x.commit_hash, fixture_id |-> x.fixture_id,
           market |-> x.market, commit_unix_ts |-> x.commit_unix_ts,
           status |-> x.status, outcome_side |-> x.outcome_side,
           pnl |-> x.pnl, settle_slot |-> x.settle_slot,
           entry_odds_proven |-> TRUE]
  BY <1>1 DEF Proven
<1> QED
  BY <1>2 DEF DecisionCommit

(***************************************************************************)
(* What each instruction does to the two account maps.                     *)
(***************************************************************************)

\* The address a new strategy gets.
AddressOf(a, id) == <<a, id>>

LEMMA InitializeEffect ==
  ASSUME TypeOK, NEW a \in Authorities, NEW id \in StrategyIds,
         NEW p \in Programs, NEW b \in Bankrolls, NEW s, s = AddressOf(a, id),
         initialize_strategy(a, id, p, b)
  PROVE  /\ s \in StrategyKeys /\ s \notin DOMAIN strategy
         /\ DOMAIN strategy' = DOMAIN strategy \cup {s}
         /\ strategy' \in [DOMAIN strategy' -> StrategyAccount]
         /\ \A t \in DOMAIN strategy : strategy'[t] = strategy[t]
         /\ strategy'[s] = NewStrategy(a, id, p, b)
         /\ UNCHANGED <<decision, now, scoresPosted, oddsPosted>>
<1> DEFINE new == NewStrategy(a, id, p, b)
<1>1. s \in StrategyKeys
  BY DEF StrategyKeys, AddressOf
<1>2. new \in StrategyAccount
  <2>1. b \in 0..MaxU64 /\ 0 \in -(MaxI64 + 1)..MaxI64
    BY LedgerAssumption
  <2>2. <<>> \in Seq(Hashes \X Nat)
    OBVIOUS
  <2> QED
    BY <2>1, <2>2 DEF StrategyAccount, NewStrategy
<1>3. s \notin DOMAIN strategy /\ strategy' = Create(strategy, s, new)
  BY DEF initialize_strategy, AddressOf
<1>4. UNCHANGED <<decision, now, scoresPosted, oddsPosted>>
  BY DEF initialize_strategy
<1>5. strategy \in [DOMAIN strategy -> StrategyAccount]
  BY DEF TypeOK
<1>6. new = NewStrategy(a, id, p, b)
  OBVIOUS
<1> HIDE DEF new
<1>7. /\ DOMAIN strategy' = DOMAIN strategy \cup {s}
      /\ strategy' \in [DOMAIN strategy' -> StrategyAccount]
      /\ strategy'[s] = new
      /\ \A t \in DOMAIN strategy : t # s => strategy'[t] = strategy[t]
  BY <1>2, <1>3, <1>5 DEF Create
<1> QED
  BY <1>1, <1>3, <1>4, <1>6, <1>7

\* The address the next decision of strategy s gets.
NextKey(s) == <<s, strategy[s].decisions_count>>

LEMMA CommitDecisions ==
  ASSUME TypeOK, NEW a \in Authorities, NEW s \in DOMAIN strategy,
         NEW h \in Hashes, NEW f \in Fixtures, NEW m \in Markets,
         NEW d, d = NextKey(s), commit_decision(a, s, h, f, m)
  PROVE  /\ d \in CommitKeys /\ d \notin DOMAIN decision
         /\ DOMAIN decision' = DOMAIN decision \cup {d}
         /\ decision' \in [DOMAIN decision' -> DecisionCommit]
         /\ \A e \in DOMAIN decision : decision'[e] = decision[e]
         /\ decision'[d].commit_hash = h /\ decision'[d].fixture_id = f
         /\ decision'[d].status = STATUS_OPEN /\ decision'[d].pnl = 0
         /\ ~decision'[d].entry_odds_proven
         /\ UNCHANGED <<now, scoresPosted, oddsPosted>>
<1> DEFINE index == strategy[s].decisions_count
           new == [strategy |-> s, index |-> index, commit_hash |-> h,
                   fixture_id |-> f, market |-> m, commit_unix_ts |-> now,
                   status |-> STATUS_OPEN, outcome_side |-> 0, pnl |-> 0,
                   settle_slot |-> 0, entry_odds_proven |-> FALSE]
<1>1. /\ s \in StrategyKeys /\ index \in Nat /\ index < MaxDecisions
      /\ now \in Nat
  BY DEF TypeOK, commit_decision, StrategyAccount
<1>2. d \in CommitKeys
  BY <1>1, LedgerAssumption DEF CommitKeys, NextKey
<1>3. new \in DecisionCommit
  BY <1>1 DEF DecisionCommit, Statuses, STATUS_OPEN, STATUS_SETTLED,
              STATUS_VOID, Sides, SIDE_HOME, SIDE_DRAW, SIDE_AWAY
<1>4. /\ d \notin DOMAIN decision
      /\ decision' = Create(decision, d, new)
      /\ UNCHANGED <<now, scoresPosted, oddsPosted>>
  BY DEF commit_decision, NextKey
<1>5. /\ new.commit_hash = h /\ new.fixture_id = f
      /\ new.status = STATUS_OPEN /\ new.pnl = 0 /\ ~new.entry_odds_proven
  OBVIOUS
<1>6. decision \in [DOMAIN decision -> DecisionCommit]
  BY DEF TypeOK
<1> HIDE DEF new, index
<1>7. /\ DOMAIN decision' = DOMAIN decision \cup {d}
      /\ decision' \in [DOMAIN decision' -> DecisionCommit]
      /\ decision'[d] = new
      /\ \A e \in DOMAIN decision : e # d => decision'[e] = decision[e]
  BY <1>3, <1>4, <1>6 DEF Create
<1> QED
  BY <1>2, <1>4, <1>5, <1>7

LEMMA CommitStrategy ==
  ASSUME TypeOK, NEW a \in Authorities, NEW s \in DOMAIN strategy,
         NEW h \in Hashes, NEW f \in Fixtures, NEW m \in Markets,
         commit_decision(a, s, h, f, m)
  PROVE  LET x == strategy[s]
             y == strategy'[s]
         IN
         /\ DOMAIN strategy' = DOMAIN strategy
         /\ strategy' \in [DOMAIN strategy -> StrategyAccount]
         /\ \A t \in DOMAIN strategy : t # s => strategy'[t] = strategy[t]
         /\ y.txline_program = x.txline_program
         /\ y.starting_bankroll = x.starting_bankroll
         /\ y.bankroll = x.bankroll /\ y.realized_pnl = x.realized_pnl
         /\ y.decisions_count = x.decisions_count + 1
         /\ y.open_count = x.open_count + 1
         /\ y.settled_count = x.settled_count
         /\ y.wins = x.wins /\ y.losses = x.losses /\ y.pushes = x.pushes
         /\ y.commit_log_root =
              Append(x.commit_log_root, <<h, x.decisions_count>>)
<1> DEFINE y == CountCommit(strategy[s], h)
<1>1. /\ strategy \in [DOMAIN strategy -> StrategyAccount]
      /\ strategy[s] \in StrategyAccount
  BY DEF TypeOK
<1>2. strategy' = [strategy EXCEPT ![s] = y]
  BY DEF commit_decision
<1>3. y = CountCommit(strategy[s], h)
  OBVIOUS
<1> HIDE DEF y
<1>4. /\ y \in StrategyAccount
      /\ y.txline_program = strategy[s].txline_program
      /\ y.starting_bankroll = strategy[s].starting_bankroll
      /\ y.bankroll = strategy[s].bankroll
      /\ y.realized_pnl = strategy[s].realized_pnl
      /\ y.decisions_count = strategy[s].decisions_count + 1
      /\ y.open_count = strategy[s].open_count + 1
      /\ y.settled_count = strategy[s].settled_count
      /\ y.wins = strategy[s].wins /\ y.losses = strategy[s].losses
      /\ y.pushes = strategy[s].pushes
      /\ y.commit_log_root = Append(strategy[s].commit_log_root,
                                    <<h, strategy[s].decisions_count>>)
  BY <1>1, <1>3, CountCommitFields
<1>5. /\ DOMAIN strategy' = DOMAIN strategy
      /\ strategy' \in [DOMAIN strategy -> StrategyAccount]
      /\ strategy'[s] = y
      /\ \A t \in DOMAIN strategy : t # s => strategy'[t] = strategy[t]
  BY <1>1, <1>2, <1>4, ReplaceType
<1> QED
  BY <1>4, <1>5

\* Score record i of program p is about the fixture and proves the side.
ScoreProves(p, i, fixture_id, side) ==
  /\ ScoreFeed[p][i].fixture_id = fixture_id
  /\ predicate_for_claim(side,
       ScoreFeed[p][i].stat[<<STAT_KEY_PARTICIPANT1, FULL_GAME_PERIOD>>]
       - ScoreFeed[p][i].stat[<<STAT_KEY_PARTICIPANT2, FULL_GAME_PERIOD>>])

LEMMA SettleEffect ==
  ASSUME TypeOK, NEW a \in Authorities, NEW s \in DOMAIN strategy,
         NEW d \in DOMAIN decision, NEW r \in Reveals, settle_decision(a, s, d, r)
  PROVE  \E side \in Sides, i \in 1..scoresPosted[strategy[s].txline_program],
            pnl \in Int :
         LET x == strategy[s]
             y == strategy'[s]
             u == decision[d]
             v == decision'[d]
         IN
         /\ d = <<s, u.index>> /\ u.status = STATUS_OPEN
         /\ RevealMatches(s, d, r)
         /\ ScoreProves(x.txline_program, i, u.fixture_id, side)
         /\ pnl = compute_pnl(side = r.side, r.stake, r.entry_odds_milli)
         /\ DOMAIN decision' = DOMAIN decision
         /\ decision' \in [DOMAIN decision -> DecisionCommit]
         /\ \A e \in DOMAIN decision : e # d => decision'[e] = decision[e]
         /\ v.commit_hash = u.commit_hash /\ v.fixture_id = u.fixture_id
         /\ v.market = u.market /\ v.commit_unix_ts = u.commit_unix_ts
         /\ v.entry_odds_proven = u.entry_odds_proven
         /\ v.status = STATUS_SETTLED /\ v.outcome_side = side /\ v.pnl = pnl
         /\ DOMAIN strategy' = DOMAIN strategy
         /\ strategy' \in [DOMAIN strategy -> StrategyAccount]
         /\ \A t \in DOMAIN strategy : t # s => strategy'[t] = strategy[t]
         /\ y.txline_program = x.txline_program
         /\ y.starting_bankroll = x.starting_bankroll
         /\ y.bankroll = apply_pnl(x.bankroll, pnl)
         /\ y.bankroll >= x.bankroll + pnl
         /\ y.realized_pnl = x.realized_pnl + pnl
         /\ y.decisions_count = x.decisions_count
         /\ y.open_count = x.open_count - 1
         /\ y.settled_count = x.settled_count + 1
         /\ y.wins = (IF side = r.side THEN x.wins + 1 ELSE x.wins)
         /\ y.losses = (IF side = r.side THEN x.losses ELSE x.losses + 1)
         /\ y.pushes = x.pushes /\ y.commit_log_root = x.commit_log_root
         /\ UNCHANGED <<now, scoresPosted, oddsPosted>>
<1>1. PICK p \in Programs, ts \in Timestamps, side \in 0..3 :
      \E i \in 1..scoresPosted[p], home, away \in StatTerms :
        LET record == ScoreFeed[p][i]
            won == side = r.side
            pnl == compute_pnl(won, r.stake, r.entry_odds_milli)
        IN
        /\ record.fixture_id = decision[d].fixture_id
        /\ home = <<STAT_KEY_PARTICIPANT1, FULL_GAME_PERIOD>>
        /\ away = <<STAT_KEY_PARTICIPANT2, FULL_GAME_PERIOD>>
        /\ p = strategy[s].txline_program
        /\ side \in Sides
        /\ EpochDayIsSome(ts)
        /\ cpi_validate_stat(p, epoch_day_le(ts), record, side, home, away)
        /\ PnlIsSome(won, r.stake, r.entry_odds_milli)
        /\ InI64(strategy[s].realized_pnl + pnl)
        /\ ApplyIsSome(strategy[s].bankroll, pnl)
        /\ strategy[s].open_count > 0
        /\ decision' = [decision EXCEPT ![d] = Settled(@, side, pnl, now)]
        /\ strategy' = [strategy EXCEPT ![s] = CountSettled(@, won, pnl)]
  BY Zenon DEF settle_decision, settle_with
<1> DEFINE won == side = r.side
           pnl == compute_pnl(won, r.stake, r.entry_odds_milli)
           y == CountSettled(strategy[s], won, pnl)
           v == Settled(decision[d], side, pnl, now)
<1>2. PICK i \in 1..scoresPosted[p] :
        /\ ScoreProves(p, i, decision[d].fixture_id, side)
        /\ p = strategy[s].txline_program
        /\ side \in Sides
        /\ InI64(strategy[s].realized_pnl + pnl)
        /\ ApplyIsSome(strategy[s].bankroll, pnl)
        /\ strategy[s].open_count > 0
        /\ decision' = [decision EXCEPT ![d] = v]
        /\ strategy' = [strategy EXCEPT ![s] = y]
  BY <1>1 DEF cpi_validate_stat, ScoreProves
<1>3. /\ d = <<s, decision[d].index>> /\ decision[d].status = STATUS_OPEN
      /\ RevealMatches(s, d, r)
      /\ UNCHANGED <<now, scoresPosted, oddsPosted>>
  BY DEF settle_decision, SettleAccounts, DecisionAccounts
<1>4. pnl \in Int
  <2>1. r.stake \in Nat /\ r.entry_odds_milli \in Nat
    BY LedgerAssumption DEF RevealArgs
  <2>2. won \in BOOLEAN
    OBVIOUS
  <2> QED
    BY <2>1, <2>2, PnlType
<1>5. /\ strategy[s] \in StrategyAccount
      /\ decision[d] \in DecisionCommit
      /\ strategy \in [DOMAIN strategy -> StrategyAccount]
      /\ decision \in [DOMAIN decision -> DecisionCommit]
      /\ now \in Nat
  BY DEF TypeOK
<1>6. /\ apply_pnl(strategy[s].bankroll, pnl) \in 0..MaxU64
      /\ apply_pnl(strategy[s].bankroll, pnl) >= strategy[s].bankroll + pnl
  <2>1. strategy[s].bankroll \in 0..MaxU64
    BY <1>5 DEF StrategyAccount
  <2> HIDE DEF pnl
  <2> QED
    BY <1>2, <1>4, <2>1, ApplyType
<1>7. won \in BOOLEAN /\ y = CountSettled(strategy[s], won, pnl)
      /\ v = Settled(decision[d], side, pnl, now)
  OBVIOUS
<1>8. pnl = compute_pnl(side = r.side, r.stake, r.entry_odds_milli)
  OBVIOUS
<1>9. won <=> side = r.side
  OBVIOUS
<1> HIDE DEF y, v, pnl, won
<1>10. /\ y \in StrategyAccount
       /\ y.txline_program = strategy[s].txline_program
       /\ y.starting_bankroll = strategy[s].starting_bankroll
       /\ y.bankroll = apply_pnl(strategy[s].bankroll, pnl)
       /\ y.realized_pnl = strategy[s].realized_pnl + pnl
       /\ y.decisions_count = strategy[s].decisions_count
       /\ y.open_count = strategy[s].open_count - 1
       /\ y.settled_count = strategy[s].settled_count + 1
       /\ y.wins = (IF won THEN strategy[s].wins + 1 ELSE strategy[s].wins)
       /\ y.losses = (IF won THEN strategy[s].losses ELSE strategy[s].losses + 1)
       /\ y.pushes = strategy[s].pushes
       /\ y.commit_log_root = strategy[s].commit_log_root
  BY <1>2, <1>4, <1>5, <1>6, <1>7, CountSettledFields
<1>11. /\ v \in DecisionCommit
       /\ v.commit_hash = decision[d].commit_hash
       /\ v.fixture_id = decision[d].fixture_id
       /\ v.market = decision[d].market
       /\ v.commit_unix_ts = decision[d].commit_unix_ts
       /\ v.entry_odds_proven = decision[d].entry_odds_proven
       /\ v.status = STATUS_SETTLED /\ v.outcome_side = side /\ v.pnl = pnl
  BY <1>2, <1>4, <1>5, <1>7, SettledFields
<1>12. /\ DOMAIN strategy' = DOMAIN strategy
       /\ strategy' \in [DOMAIN strategy -> StrategyAccount]
       /\ strategy'[s] = y
       /\ \A t \in DOMAIN strategy : t # s => strategy'[t] = strategy[t]
  BY <1>2, <1>5, <1>10, ReplaceType
<1>13. /\ DOMAIN decision' = DOMAIN decision
       /\ decision' \in [DOMAIN decision -> DecisionCommit]
       /\ decision'[d] = v
       /\ \A e \in DOMAIN decision : e # d => decision'[e] = decision[e]
  BY <1>2, <1>5, <1>11, ReplaceType
<1> QED
  BY <1>2, <1>3, <1>4, <1>6, <1>8, <1>9, <1>10, <1>11, <1>12, <1>13

LEMMA ProveEffect ==
  ASSUME TypeOK, NEW a \in Authorities, NEW s \in DOMAIN strategy,
         NEW d \in DOMAIN decision, NEW r \in Reveals, prove_entry_odds(a, s, d, r)
  PROVE  LET u == decision[d]
             v == decision'[d]
         IN
         /\ u.status = STATUS_SETTLED
         /\ DOMAIN decision' = DOMAIN decision
         /\ decision' \in [DOMAIN decision -> DecisionCommit]
         /\ \A e \in DOMAIN decision : e # d => decision'[e] = decision[e]
         /\ v.commit_hash = u.commit_hash /\ v.fixture_id = u.fixture_id
         /\ v.market = u.market /\ v.commit_unix_ts = u.commit_unix_ts
         /\ v.status = u.status /\ v.outcome_side = u.outcome_side
         /\ v.pnl = u.pnl /\ v.entry_odds_proven = TRUE
         /\ UNCHANGED <<strategy, now, scoresPosted, oddsPosted>>
<1> DEFINE v == Proven(decision[d])
<1>1. /\ decision[d].status = STATUS_SETTLED
      /\ decision' = [decision EXCEPT ![d] = v]
      /\ UNCHANGED <<strategy, now, scoresPosted, oddsPosted>>
  BY DEF prove_entry_odds, ProveAccounts
<1>2. /\ decision[d] \in DecisionCommit
      /\ decision \in [DOMAIN decision -> DecisionCommit]
  BY DEF TypeOK
<1>3. v = Proven(decision[d])
  OBVIOUS
<1> HIDE DEF v
<1>4. /\ v \in DecisionCommit
      /\ v.commit_hash = decision[d].commit_hash
      /\ v.fixture_id = decision[d].fixture_id
      /\ v.market = decision[d].market
      /\ v.commit_unix_ts = decision[d].commit_unix_ts
      /\ v.status = decision[d].status
      /\ v.outcome_side = decision[d].outcome_side
      /\ v.pnl = decision[d].pnl /\ v.entry_odds_proven = TRUE
  BY <1>2, <1>3, ProvenFields
<1>5. /\ DOMAIN decision' = DOMAIN decision
      /\ decision' \in [DOMAIN decision -> DecisionCommit]
      /\ decision'[d] = v
      /\ \A e \in DOMAIN decision : e # d => decision'[e] = decision[e]
  BY <1>1, <1>2, <1>4, ReplaceType
<1> QED
  BY <1>1, <1>4, <1>5

LEMMA VoidEffect ==
  ASSUME TypeOK, NEW a \in Authorities, NEW s \in DOMAIN strategy,
         NEW d \in DOMAIN decision, NEW r \in Reveals, void_decision(a, s, d, r)
  PROVE  LET x == strategy[s]
             y == strategy'[s]
             u == decision[d]
             v == decision'[d]
         IN
         /\ d = <<s, u.index>> /\ u.status = STATUS_OPEN
         /\ DOMAIN decision' = DOMAIN decision
         /\ decision' \in [DOMAIN decision -> DecisionCommit]
         /\ \A e \in DOMAIN decision : e # d => decision'[e] = decision[e]
         /\ v.commit_hash = u.commit_hash /\ v.fixture_id = u.fixture_id
         /\ v.market = u.market /\ v.commit_unix_ts = u.commit_unix_ts
         /\ v.entry_odds_proven = u.entry_odds_proven
         /\ v.status = STATUS_VOID /\ v.pnl = 0
         /\ DOMAIN strategy' = DOMAIN strategy
         /\ strategy' \in [DOMAIN strategy -> StrategyAccount]
         /\ \A t \in DOMAIN strategy : t # s => strategy'[t] = strategy[t]
         /\ y.txline_program = x.txline_program
         /\ y.starting_bankroll = x.starting_bankroll
         /\ y.bankroll = x.bankroll /\ y.realized_pnl = x.realized_pnl
         /\ y.decisions_count = x.decisions_count
         /\ y.open_count = x.open_count - 1
         /\ y.settled_count = x.settled_count
         /\ y.wins = x.wins /\ y.losses = x.losses
         /\ y.pushes = x.pushes + 1 /\ y.commit_log_root = x.commit_log_root
         /\ UNCHANGED <<now, scoresPosted, oddsPosted>>
<1> DEFINE y == CountVoid(strategy[s])
           v == Voided(decision[d], now)
<1>1. /\ d = <<s, decision[d].index>> /\ decision[d].status = STATUS_OPEN
      /\ strategy[s].open_count > 0
      /\ decision' = [decision EXCEPT ![d] = v]
      /\ strategy' = [strategy EXCEPT ![s] = y]
      /\ UNCHANGED <<now, scoresPosted, oddsPosted>>
  BY DEF void_decision, DecisionAccounts
<1>2. /\ strategy[s] \in StrategyAccount
      /\ decision[d] \in DecisionCommit
      /\ strategy \in [DOMAIN strategy -> StrategyAccount]
      /\ decision \in [DOMAIN decision -> DecisionCommit]
      /\ now \in Nat
  BY DEF TypeOK
<1>3. y = CountVoid(strategy[s]) /\ v = Voided(decision[d], now)
  OBVIOUS
<1> HIDE DEF y, v
<1>4. /\ y \in StrategyAccount
      /\ y.txline_program = strategy[s].txline_program
      /\ y.starting_bankroll = strategy[s].starting_bankroll
      /\ y.bankroll = strategy[s].bankroll
      /\ y.realized_pnl = strategy[s].realized_pnl
      /\ y.decisions_count = strategy[s].decisions_count
      /\ y.open_count = strategy[s].open_count - 1
      /\ y.settled_count = strategy[s].settled_count
      /\ y.wins = strategy[s].wins /\ y.losses = strategy[s].losses
      /\ y.pushes = strategy[s].pushes + 1
      /\ y.commit_log_root = strategy[s].commit_log_root
  BY <1>1, <1>2, <1>3, CountVoidFields
<1>5. /\ v \in DecisionCommit
      /\ v.commit_hash = decision[d].commit_hash
      /\ v.fixture_id = decision[d].fixture_id
      /\ v.market = decision[d].market
      /\ v.commit_unix_ts = decision[d].commit_unix_ts
      /\ v.entry_odds_proven = decision[d].entry_odds_proven
      /\ v.status = STATUS_VOID /\ v.pnl = 0
  BY <1>2, <1>3, VoidedFields
<1>6. /\ DOMAIN strategy' = DOMAIN strategy
      /\ strategy' \in [DOMAIN strategy -> StrategyAccount]
      /\ strategy'[s] = y
      /\ \A t \in DOMAIN strategy : t # s => strategy'[t] = strategy[t]
  BY <1>1, <1>2, <1>4, ReplaceType
<1>7. /\ DOMAIN decision' = DOMAIN decision
      /\ decision' \in [DOMAIN decision -> DecisionCommit]
      /\ decision'[d] = v
      /\ \A e \in DOMAIN decision : e # d => decision'[e] = decision[e]
  BY <1>1, <1>2, <1>5, ReplaceType
<1> QED
  BY <1>1, <1>4, <1>5, <1>6, <1>7

(***************************************************************************)
(* Type correctness.  TypeOK is inductive as it stands: what keeps the     *)
(* ledger's integers inside their widths is the code's own checked         *)
(* arithmetic.                                                             *)
(***************************************************************************)

LEMMA TypeInit == Init => TypeOK
  BY LedgerAssumption DEF Init, TypeOK

LEMMA TypeStep == TypeOK /\ [Next]_vars => TypeOK'
<1> SUFFICES ASSUME TypeOK, [Next]_vars PROVE TypeOK'
  OBVIOUS
<1>1. ASSUME NEW a \in Authorities, NEW id \in StrategyIds, NEW p \in Programs,
             NEW b \in Bankrolls, initialize_strategy(a, id, p, b)
      PROVE  TypeOK'
  <2>1. PICK s : s = AddressOf(a, id)
    OBVIOUS
  <2>2. /\ s \in StrategyKeys
        /\ DOMAIN strategy' = DOMAIN strategy \cup {s}
        /\ strategy' \in [DOMAIN strategy' -> StrategyAccount]
        /\ UNCHANGED <<decision, now, scoresPosted, oddsPosted>>
    BY <1>1, <2>1, InitializeEffect
  <2> QED
    BY <2>2 DEF TypeOK
<1>2. ASSUME NEW a \in Authorities, NEW s \in DOMAIN strategy, NEW h \in Hashes,
             NEW f \in Fixtures, NEW m \in Markets, commit_decision(a, s, h, f, m)
      PROVE  TypeOK'
  <2>1. PICK d : d = NextKey(s)
    OBVIOUS
  <2>2. /\ d \in CommitKeys
        /\ DOMAIN decision' = DOMAIN decision \cup {d}
        /\ decision' \in [DOMAIN decision' -> DecisionCommit]
        /\ UNCHANGED <<now, scoresPosted, oddsPosted>>
    BY <1>2, <2>1, CommitDecisions
  <2>3. /\ DOMAIN strategy' = DOMAIN strategy
        /\ strategy' \in [DOMAIN strategy -> StrategyAccount]
    BY <1>2, CommitStrategy
  <2> QED
    BY <2>2, <2>3 DEF TypeOK
<1>3. ASSUME NEW a \in Authorities, NEW s \in DOMAIN strategy,
             NEW d \in DOMAIN decision, NEW r \in Reveals,
             settle_decision(a, s, d, r)
      PROVE  TypeOK'
  BY <1>3, SettleEffect DEF TypeOK
<1>4. ASSUME NEW a \in Authorities, NEW s \in DOMAIN strategy,
             NEW d \in DOMAIN decision, NEW r \in Reveals,
             prove_entry_odds(a, s, d, r)
      PROVE  TypeOK'
  BY <1>4, ProveEffect DEF TypeOK
<1>5. ASSUME NEW a \in Authorities, NEW s \in DOMAIN strategy,
             NEW d \in DOMAIN decision, NEW r \in Reveals,
             void_decision(a, s, d, r)
      PROVE  TypeOK'
  BY <1>5, VoidEffect DEF TypeOK
<1>6. CASE Post
  <2>1. ASSUME NEW p \in Programs, PostScore(p) PROVE TypeOK'
    BY <2>1 DEF PostScore, TypeOK
  <2>2. ASSUME NEW p \in Programs, PostOdds(p) PROVE TypeOK'
    BY <2>2 DEF PostOdds, TypeOK
  <2> QED
    BY <1>6, <2>1, <2>2 DEF Post
<1>7. CASE Tick
  BY <1>7 DEF Tick, TypeOK
<1>8. CASE UNCHANGED vars
  BY <1>8 DEF vars, TypeOK
<1> QED
  BY <1>1, <1>2, <1>3, <1>4, <1>5, <1>6, <1>7, <1>8
     DEF Next, Initialize, Commit, Settle, Prove, Void

\* Every reachable state is well typed: no counter goes negative, no bankroll
\* or PnL leaves its width, every account sits at an address of its kind.
THEOREM TypeCorrect == Spec => []TypeOK
  BY TypeInit, TypeStep, PTL DEF Spec

(***************************************************************************)
(* The commit log.  LogBindsHistory is inductive together with TypeOK:     *)
(* only commit_decision appends to a log, and it creates, at the address   *)
(* the log's length gives, the one decision it logs.                       *)
(***************************************************************************)

LEMMA LogKept ==
  ASSUME LogBindsHistory,
         DOMAIN strategy' = DOMAIN strategy, DOMAIN decision' = DOMAIN decision,
         \A t \in DOMAIN strategy :
           /\ strategy'[t].decisions_count = strategy[t].decisions_count
           /\ strategy'[t].commit_log_root = strategy[t].commit_log_root,
         \A e \in DOMAIN decision :
           decision'[e].commit_hash = decision[e].commit_hash
  PROVE  LogBindsHistory'
  BY DEF LogBindsHistory

LEMMA LogCommit ==
  ASSUME TypeOK, LogBindsHistory, NEW a \in Authorities,
         NEW s \in DOMAIN strategy, NEW h \in Hashes, NEW f \in Fixtures,
         NEW m \in Markets, commit_decision(a, s, h, f, m)
  PROVE  LogBindsHistory'
<1>1. PICK d : d = NextKey(s)
  OBVIOUS
<1>2. /\ d \notin DOMAIN decision
      /\ DOMAIN decision' = DOMAIN decision \cup {d}
      /\ \A e \in DOMAIN decision : decision'[e] = decision[e]
      /\ decision'[d].commit_hash = h
  BY <1>1, CommitDecisions
<1>3. /\ DOMAIN strategy' = DOMAIN strategy
      /\ \A t \in DOMAIN strategy : t # s => strategy'[t] = strategy[t]
      /\ strategy'[s].decisions_count = strategy[s].decisions_count + 1
      /\ strategy'[s].commit_log_root =
           Append(strategy[s].commit_log_root, <<h, strategy[s].decisions_count>>)
  BY CommitStrategy
<1>4. d = <<s, strategy[s].decisions_count>>
  BY <1>1 DEF NextKey
<1>5. /\ strategy[s].decisions_count \in Nat
      /\ strategy[s].commit_log_root \in Seq(Hashes \X Nat)
      /\ Len(strategy[s].commit_log_root) = strategy[s].decisions_count
      /\ \A t \in DOMAIN strategy : strategy[t].decisions_count \in Nat
  BY DEF TypeOK, StrategyAccount, LogBindsHistory
<1>6. ASSUME NEW t \in DOMAIN strategy
      PROVE  LET root == strategy'[t].commit_log_root IN
             /\ Len(root) = strategy'[t].decisions_count
             /\ \A i \in 1..Len(root) :
                  /\ <<t, i - 1>> \in DOMAIN decision'
                  /\ root[i] = <<decision'[<<t, i - 1>>].commit_hash, i - 1>>
  <2>1. CASE t # s
    BY <2>1, <1>2, <1>3 DEF LogBindsHistory
  <2>2. CASE t = s
    <3> DEFINE old == strategy[s].commit_log_root
               n == strategy[s].decisions_count
               root == strategy'[s].commit_log_root
    <3>1. /\ Len(root) = n + 1
          /\ root[n + 1] = <<h, n>>
          /\ \A i \in 1..n : root[i] = old[i]
      BY <1>3, <1>5
    <3>2. ASSUME NEW i \in 1..n
          PROVE  /\ <<s, i - 1>> \in DOMAIN decision'
                 /\ root[i] = <<decision'[<<s, i - 1>>].commit_hash, i - 1>>
      BY <3>1, <1>2, <1>5 DEF LogBindsHistory
    <3>3. /\ <<s, n>> \in DOMAIN decision'
          /\ root[n + 1] = <<decision'[<<s, n>>].commit_hash, n>>
      BY <3>1, <1>2, <1>4
    <3>4. ASSUME NEW i \in 1..Len(root)
          PROVE  /\ <<s, i - 1>> \in DOMAIN decision'
                 /\ root[i] = <<decision'[<<s, i - 1>>].commit_hash, i - 1>>
      <4>1. CASE i \in 1..n
        BY <4>1, <3>2
      <4>2. CASE i = n + 1
        <5>1. i - 1 = n
          BY <4>2, <1>5
        <5> QED
          BY <4>2, <5>1, <3>3
      <4> QED
        BY <4>1, <4>2, <3>1, <1>5
    <3> QED
      BY <2>2, <3>1, <3>4, <1>3
  <2> QED
    BY <2>1, <2>2
<1>7. ASSUME NEW e \in DOMAIN decision'
      PROVE  e[1] \in DOMAIN strategy' /\ e[2] < strategy'[e[1]].decisions_count
  <2>1. CASE e = d
    BY <2>1, <1>3, <1>4, <1>5
  <2>2. CASE e \in DOMAIN decision
    <3>1. e[1] \in DOMAIN strategy /\ e[2] < strategy[e[1]].decisions_count
      BY <2>2 DEF LogBindsHistory
    <3>2. e[2] \in Nat
      BY <2>2 DEF TypeOK, CommitKeys
    <3> QED
      BY <3>1, <3>2, <1>3, <1>5
  <2> QED
    BY <2>1, <2>2, <1>2
<1> QED
  BY <1>3, <1>6, <1>7 DEF LogBindsHistory

LEMMA LogStep == TypeOK /\ LogBindsHistory /\ [Next]_vars => LogBindsHistory'
<1> SUFFICES ASSUME TypeOK, LogBindsHistory, [Next]_vars PROVE LogBindsHistory'
  OBVIOUS
<1>1. ASSUME NEW a \in Authorities, NEW id \in StrategyIds, NEW p \in Programs,
             NEW b \in Bankrolls, initialize_strategy(a, id, p, b)
      PROVE  LogBindsHistory'
  <2>1. PICK s : s = AddressOf(a, id)
    OBVIOUS
  <2>2. /\ s \notin DOMAIN strategy
        /\ DOMAIN strategy' = DOMAIN strategy \cup {s}
        /\ \A t \in DOMAIN strategy : strategy'[t] = strategy[t]
        /\ strategy'[s] = NewStrategy(a, id, p, b)
        /\ decision' = decision
    BY <1>1, <2>1, InitializeEffect
  <2>7. /\ strategy'[s].decisions_count = 0
        /\ strategy'[s].commit_log_root = <<>>
    BY <2>2 DEF NewStrategy
  <2>3. /\ Len(strategy'[s].commit_log_root) = 0
        /\ 1..Len(strategy'[s].commit_log_root) = {}
    <3>1. Len(<<>>) = 0 /\ 1..0 = {}
      OBVIOUS
    <3> QED
      BY <2>7, <3>1
  <2>4. ASSUME NEW t \in DOMAIN strategy'
        PROVE  LET root == strategy'[t].commit_log_root IN
               /\ Len(root) = strategy'[t].decisions_count
               /\ \A i \in 1..Len(root) :
                    /\ <<t, i - 1>> \in DOMAIN decision'
                    /\ root[i] = <<decision'[<<t, i - 1>>].commit_hash, i - 1>>
    <3>1. CASE t = s
      BY <3>1, <2>2, <2>7, <2>3
    <3>2. CASE t \in DOMAIN strategy
      BY <3>2, <2>2 DEF LogBindsHistory
    <3> QED
      BY <3>1, <3>2, <2>2
  <2>5. ASSUME NEW e \in DOMAIN decision'
        PROVE  e[1] \in DOMAIN strategy' /\ e[2] < strategy'[e[1]].decisions_count
    BY <2>2 DEF LogBindsHistory
  <2> QED
    BY <2>4, <2>5 DEF LogBindsHistory
<1>2. ASSUME NEW a \in Authorities, NEW s \in DOMAIN strategy, NEW h \in Hashes,
             NEW f \in Fixtures, NEW m \in Markets, commit_decision(a, s, h, f, m)
      PROVE  LogBindsHistory'
  BY <1>2, LogCommit
<1>3. ASSUME NEW a \in Authorities, NEW s \in DOMAIN strategy,
             NEW d \in DOMAIN decision, NEW r \in Reveals,
             settle_decision(a, s, d, r)
      PROVE  LogBindsHistory'
  <2>1. /\ DOMAIN decision' = DOMAIN decision
        /\ \A e \in DOMAIN decision : e # d => decision'[e] = decision[e]
        /\ decision'[d].commit_hash = decision[d].commit_hash
        /\ DOMAIN strategy' = DOMAIN strategy
        /\ \A t \in DOMAIN strategy : t # s => strategy'[t] = strategy[t]
        /\ strategy'[s].decisions_count = strategy[s].decisions_count
        /\ strategy'[s].commit_log_root = strategy[s].commit_log_root
    BY <1>3, SettleEffect
  <2> QED
    BY <2>1, LogKept
<1>4. ASSUME NEW a \in Authorities, NEW s \in DOMAIN strategy,
             NEW d \in DOMAIN decision, NEW r \in Reveals,
             prove_entry_odds(a, s, d, r)
      PROVE  LogBindsHistory'
  BY <1>4, ProveEffect, LogKept
<1>5. ASSUME NEW a \in Authorities, NEW s \in DOMAIN strategy,
             NEW d \in DOMAIN decision, NEW r \in Reveals,
             void_decision(a, s, d, r)
      PROVE  LogBindsHistory'
  <2>1. /\ DOMAIN decision' = DOMAIN decision
        /\ \A e \in DOMAIN decision : e # d => decision'[e] = decision[e]
        /\ decision'[d].commit_hash = decision[d].commit_hash
        /\ DOMAIN strategy' = DOMAIN strategy
        /\ \A t \in DOMAIN strategy : t # s => strategy'[t] = strategy[t]
        /\ strategy'[s].decisions_count = strategy[s].decisions_count
        /\ strategy'[s].commit_log_root = strategy[s].commit_log_root
    BY <1>5, VoidEffect
  <2> QED
    BY <2>1, LogKept
<1>6. CASE UNCHANGED <<strategy, decision>>
  BY <1>6 DEF LogBindsHistory
<1>7. Post \/ Tick \/ UNCHANGED vars => UNCHANGED <<strategy, decision>>
  BY DEF Post, PostScore, PostOdds, Tick, vars
<1> QED
  BY <1>1, <1>2, <1>3, <1>4, <1>5, <1>6, <1>7
     DEF Next, Initialize, Commit, Settle, Prove, Void

\* Every entry of a strategy's commit log is the unchanged seal of the decision
\* at that index, and no decision is missing from the log: the record of what
\* was committed can neither be rewritten nor extended on the side.
THEOREM LogIsBinding == Spec => []LogBindsHistory
<1>1. Init => LogBindsHistory
  BY DEF Init, LogBindsHistory
<1> QED
  BY <1>1, LogStep, TypeCorrect, PTL DEF Spec

(***************************************************************************)
(* Nothing is revised.                                                     *)
(***************************************************************************)

LEMMA AdvanceStep == TypeOK /\ [Next]_vars => Advance \/ UNCHANGED <<strategy, decision>>
<1> SUFFICES ASSUME TypeOK, [Next]_vars
             PROVE  Advance \/ UNCHANGED <<strategy, decision>>
  OBVIOUS
<1>1. ASSUME NEW a \in Authorities, NEW id \in StrategyIds, NEW p \in Programs,
             NEW b \in Bankrolls, initialize_strategy(a, id, p, b)
      PROVE  Advance
  <2>1. PICK s : s = AddressOf(a, id)
    OBVIOUS
  <2>2. /\ DOMAIN strategy' = DOMAIN strategy \cup {s}
        /\ \A t \in DOMAIN strategy : strategy'[t] = strategy[t]
        /\ decision' = decision
    BY <1>1, <2>1, InitializeEffect
  <2> QED
    BY <2>2 DEF Advance
<1>2. ASSUME NEW a \in Authorities, NEW s \in DOMAIN strategy, NEW h \in Hashes,
             NEW f \in Fixtures, NEW m \in Markets, commit_decision(a, s, h, f, m)
      PROVE  Advance
  <2>1. PICK d : d = NextKey(s)
    OBVIOUS
  <2>2. /\ DOMAIN decision' = DOMAIN decision \cup {d}
        /\ \A e \in DOMAIN decision : decision'[e] = decision[e]
    BY <1>2, <2>1, CommitDecisions
  <2>3. /\ DOMAIN strategy' = DOMAIN strategy
        /\ \A t \in DOMAIN strategy : t # s => strategy'[t] = strategy[t]
        /\ strategy'[s].txline_program = strategy[s].txline_program
        /\ strategy'[s].starting_bankroll = strategy[s].starting_bankroll
    BY <1>2, CommitStrategy
  <2> QED
    BY <2>2, <2>3 DEF Advance
<1>3. ASSUME NEW a \in Authorities, NEW s \in DOMAIN strategy,
             NEW d \in DOMAIN decision, NEW r \in Reveals,
             settle_decision(a, s, d, r)
      PROVE  Advance
  <2>1. /\ decision[d].status = STATUS_OPEN
        /\ DOMAIN decision' = DOMAIN decision
        /\ \A e \in DOMAIN decision : e # d => decision'[e] = decision[e]
        /\ decision'[d].commit_hash = decision[d].commit_hash
        /\ decision'[d].fixture_id = decision[d].fixture_id
        /\ decision'[d].commit_unix_ts = decision[d].commit_unix_ts
        /\ decision'[d].entry_odds_proven = decision[d].entry_odds_proven
    BY <1>3, SettleEffect
  <2>2. /\ DOMAIN strategy' = DOMAIN strategy
        /\ \A t \in DOMAIN strategy : t # s => strategy'[t] = strategy[t]
        /\ strategy'[s].txline_program = strategy[s].txline_program
        /\ strategy'[s].starting_bankroll = strategy[s].starting_bankroll
    BY <1>3, SettleEffect
  <2> QED
    BY <2>1, <2>2 DEF Advance
<1>4. ASSUME NEW a \in Authorities, NEW s \in DOMAIN strategy,
             NEW d \in DOMAIN decision, NEW r \in Reveals,
             prove_entry_odds(a, s, d, r)
      PROVE  Advance
  BY <1>4, ProveEffect DEF Advance
<1>5. ASSUME NEW a \in Authorities, NEW s \in DOMAIN strategy,
             NEW d \in DOMAIN decision, NEW r \in Reveals,
             void_decision(a, s, d, r)
      PROVE  Advance
  <2>1. /\ decision[d].status = STATUS_OPEN
        /\ DOMAIN decision' = DOMAIN decision
        /\ \A e \in DOMAIN decision : e # d => decision'[e] = decision[e]
        /\ decision'[d].commit_hash = decision[d].commit_hash
        /\ decision'[d].fixture_id = decision[d].fixture_id
        /\ decision'[d].commit_unix_ts = decision[d].commit_unix_ts
        /\ decision'[d].entry_odds_proven = decision[d].entry_odds_proven
    BY <1>5, VoidEffect
  <2>2. /\ DOMAIN strategy' = DOMAIN strategy
        /\ \A t \in DOMAIN strategy : t # s => strategy'[t] = strategy[t]
        /\ strategy'[s].txline_program = strategy[s].txline_program
        /\ strategy'[s].starting_bankroll = strategy[s].starting_bankroll
    BY <1>5, VoidEffect
  <2> QED
    BY <2>1, <2>2 DEF Advance
<1>6. Post \/ Tick \/ UNCHANGED vars => UNCHANGED <<strategy, decision>>
  BY DEF Post, PostScore, PostOdds, Tick, vars
<1> QED
  BY <1>1, <1>2, <1>3, <1>4, <1>5, <1>6
     DEF Next, Initialize, Commit, Settle, Prove, Void

\* No instruction ever revises a sealed field, a settlement or a void, forgets a
\* price proof, or repoints a strategy at another oracle.
THEOREM NothingRevised == Spec => AccountsOnlyAdvance
  BY TypeCorrect, AdvanceStep, PTL DEF Spec, AccountsOnlyAdvance

(***************************************************************************)
(* The bankroll.                                                           *)
(***************************************************************************)

LEMMA BankrollStep ==
  TypeOK /\ BankrollDominates /\ [Next]_vars => BankrollDominates'
<1> SUFFICES ASSUME TypeOK, BankrollDominates, [Next]_vars
             PROVE  BankrollDominates'
  OBVIOUS
<1> DEFINE Kept(t) ==
             /\ strategy'[t].starting_bankroll = strategy[t].starting_bankroll
             /\ strategy'[t].realized_pnl = strategy[t].realized_pnl
             /\ strategy'[t].bankroll = strategy[t].bankroll
<1>1. ASSUME NEW a \in Authorities, NEW id \in StrategyIds, NEW p \in Programs,
             NEW b \in Bankrolls, initialize_strategy(a, id, p, b)
      PROVE  BankrollDominates'
  <2>1. PICK s : s = AddressOf(a, id)
    OBVIOUS
  <2>2. /\ DOMAIN strategy' = DOMAIN strategy \cup {s}
        /\ \A t \in DOMAIN strategy : strategy'[t] = strategy[t]
        /\ strategy'[s] = NewStrategy(a, id, p, b)
    BY <1>1, <2>1, InitializeEffect
  <2>3. /\ strategy'[s].bankroll = b /\ strategy'[s].starting_bankroll = b
        /\ strategy'[s].realized_pnl = 0 /\ b \in Nat
    BY <2>2, LedgerAssumption DEF NewStrategy
  <2> QED
    BY <2>2, <2>3 DEF BankrollDominates
<1>2. ASSUME NEW a \in Authorities, NEW s \in DOMAIN strategy, NEW h \in Hashes,
             NEW f \in Fixtures, NEW m \in Markets, commit_decision(a, s, h, f, m)
      PROVE  BankrollDominates'
  <2>1. DOMAIN strategy' = DOMAIN strategy /\ \A t \in DOMAIN strategy : Kept(t)
    BY <1>2, CommitStrategy
  <2> QED
    BY <2>1 DEF BankrollDominates
<1>3. ASSUME NEW a \in Authorities, NEW s \in DOMAIN strategy,
             NEW d \in DOMAIN decision, NEW r \in Reveals,
             settle_decision(a, s, d, r)
      PROVE  BankrollDominates'
  <2>1. PICK pnl \in Int :
          /\ DOMAIN strategy' = DOMAIN strategy
          /\ \A t \in DOMAIN strategy : t # s => strategy'[t] = strategy[t]
          /\ strategy'[s].starting_bankroll = strategy[s].starting_bankroll
          /\ strategy'[s].bankroll >= strategy[s].bankroll + pnl
          /\ strategy'[s].realized_pnl = strategy[s].realized_pnl + pnl
    BY <1>3, SettleEffect
  <2>2. /\ strategy[s].bankroll \in Int /\ strategy[s].realized_pnl \in Int
        /\ strategy[s].starting_bankroll \in Int
        /\ strategy'[s].bankroll \in Int
    <3>1. TypeOK'
      BY TypeStep
    <3> QED
      BY <2>1, <3>1 DEF TypeOK, StrategyAccount
  <2> QED
    BY <2>1, <2>2 DEF BankrollDominates
<1>4. ASSUME NEW a \in Authorities, NEW s \in DOMAIN strategy,
             NEW d \in DOMAIN decision, NEW r \in Reveals,
             void_decision(a, s, d, r)
      PROVE  BankrollDominates'
  <2>1. DOMAIN strategy' = DOMAIN strategy /\ \A t \in DOMAIN strategy : Kept(t)
    BY <1>4, VoidEffect
  <2> QED
    BY <2>1 DEF BankrollDominates
<1>5. Prove \/ Post \/ Tick \/ UNCHANGED vars => UNCHANGED strategy
  BY DEF Prove, prove_entry_odds, Post, PostScore, PostOdds, Tick, vars
<1>6. UNCHANGED strategy => BankrollDominates'
  BY DEF BankrollDominates
<1> QED
  BY <1>1, <1>2, <1>3, <1>4, <1>5, <1>6
     DEF Next, Initialize, Commit, Settle, Void

\* The published bankroll is never below what the settlements add up to.
THEOREM BankrollIsFair == Spec => []BankrollDominates
<1>1. Init => BankrollDominates
  BY DEF Init, BankrollDominates
<1> QED
  BY <1>1, BankrollStep, TypeCorrect, PTL DEF Spec

(***************************************************************************)
(* Settlement is on proof.  What the oracle posted stays posted, so a      *)
(* decision that was settled on a posted score stays attested; a strategy  *)
(* cannot be pointed at another oracle behind its decisions, because none  *)
(* of them exists before it does (LogBindsHistory).                        *)
(***************************************************************************)

FeedsBounded ==
  \A p \in Programs : scoresPosted[p] \in 0..Len(ScoreFeed[p])

LEMMA FeedsStep == TypeOK /\ FeedsBounded /\ [Next]_vars =>
  /\ FeedsBounded'
  /\ \A p \in Programs : scoresPosted[p] <= scoresPosted'[p]
<1> SUFFICES ASSUME TypeOK, FeedsBounded, [Next]_vars
             PROVE  /\ FeedsBounded'
                    /\ \A p \in Programs : scoresPosted[p] <= scoresPosted'[p]
  OBVIOUS
<1>1. \A p \in Programs : /\ scoresPosted[p] \in Nat
                          /\ Len(ScoreFeed[p]) \in Nat
  BY LedgerAssumption DEF TypeOK
<1>2. CASE UNCHANGED scoresPosted
  BY <1>1, <1>2 DEF FeedsBounded
<1>3. ASSUME NEW p \in Programs, PostScore(p)
      PROVE  /\ FeedsBounded'
             /\ \A q \in Programs : scoresPosted[q] <= scoresPosted'[q]
  <2>1. /\ scoresPosted \in [Programs -> Nat]
        /\ scoresPosted[p] < Len(ScoreFeed[p])
        /\ scoresPosted' = [scoresPosted EXCEPT ![p] = scoresPosted[p] + 1]
    BY <1>3 DEF PostScore, TypeOK
  <2>2. /\ scoresPosted'[p] = scoresPosted[p] + 1
        /\ \A q \in Programs : q # p => scoresPosted'[q] = scoresPosted[q]
    BY <2>1
  <2> QED
    BY <1>1, <2>1, <2>2 DEF FeedsBounded
<1>4. UNCHANGED scoresPosted \/ \E p \in Programs : PostScore(p)
  BY DEF Next, Initialize, initialize_strategy, Commit, commit_decision, Settle,
         settle_decision, Prove, prove_entry_odds, Void, void_decision, Post,
         PostOdds, Tick, vars
<1> QED
  BY <1>2, <1>3, <1>4

\* The three predicates the oracle can be asked exclude each other, so the
\* result a score decides is the claim it proves.
LEMMA ResultIsUnique ==
  ASSUME NEW p \in Programs, NEW i \in 1..Len(ScoreFeed[p]), NEW side \in Sides,
         predicate_for_claim(side,
           ScoreFeed[p][i].stat[<<STAT_KEY_PARTICIPANT1, FULL_GAME_PERIOD>>]
           - ScoreFeed[p][i].stat[<<STAT_KEY_PARTICIPANT2, FULL_GAME_PERIOD>>])
  PROVE  ResultOf(ScoreFeed[p][i]) = side
<1> DEFINE home == ScoreFeed[p][i].stat[<<STAT_KEY_PARTICIPANT1, FULL_GAME_PERIOD>>]
           away == ScoreFeed[p][i].stat[<<STAT_KEY_PARTICIPANT2, FULL_GAME_PERIOD>>]
<1>1. ScoreFeed[p][i].stat \in [StatTerms -> Nat]
  <2>1. ScoreFeed[p] \in Seq(ScoreRecord)
    BY LedgerAssumption
  <2>2. ScoreFeed[p][i] \in ScoreRecord
    BY <2>1
  <2> QED
    BY <2>2 DEF ScoreRecord
<1>2. /\ <<STAT_KEY_PARTICIPANT1, FULL_GAME_PERIOD>> \in StatTerms
      /\ <<STAT_KEY_PARTICIPANT2, FULL_GAME_PERIOD>> \in StatTerms
  BY DEF StatTerms, StatKeys, Periods
<1>3. home - away \in Int
  <2>1. home \in Nat /\ away \in Nat
    BY <1>1, <1>2
  <2> QED
    BY <2>1
<1>4. predicate_for_claim(side, home - away)
  OBVIOUS
<1>5. ResultOf(ScoreFeed[p][i]) =
        CHOOSE x \in Sides : predicate_for_claim(x, home - away)
  BY DEF ResultOf
<1> HIDE DEF home, away
<1>6. ASSUME NEW n \in Int, NEW x \in Sides, NEW z \in Sides,
             predicate_for_claim(x, n), predicate_for_claim(z, n)
      PROVE  x = z
  BY <1>6 DEF predicate_for_claim, Comparison, Sides, SIDE_HOME, SIDE_DRAW,
              SIDE_AWAY
<1>7. \A x \in Sides : predicate_for_claim(x, home - away) => x = side
  BY <1>3, <1>4, <1>6
<1> QED
  BY <1>4, <1>5, <1>7

\* A decision nobody touches stays well settled.
LEMMA SettledKept ==
  ASSUME NEW d \in DOMAIN decision, SettledWell(d),
         decision'[d].status = decision[d].status,
         decision'[d].commit_hash = decision[d].commit_hash,
         decision'[d].fixture_id = decision[d].fixture_id,
         decision'[d].market = decision[d].market,
         decision'[d].outcome_side = decision[d].outcome_side,
         decision'[d].pnl = decision[d].pnl,
         strategy[d[1]].txline_program \in Programs,
         strategy'[d[1]].txline_program = strategy[d[1]].txline_program,
         FeedsBounded, FeedsBounded',
         \A p \in Programs : scoresPosted[p] <= scoresPosted'[p]
  PROVE  SettledWell(d)'
<1>1. SealOf(d)' = SealOf(d)
  BY DEF SealOf
<1>2. ASSUME NEW p \in Programs, NEW f, NEW side, AttestedBy(p, f, side)
      PROVE  AttestedBy(p, f, side)'
  <2>1. PICK i \in 1..scoresPosted[p] :
          /\ ScoreFeed[p][i].fixture_id = f
          /\ ResultOf(ScoreFeed[p][i]) = side
    BY <1>2 DEF AttestedBy
  <2>2. /\ scoresPosted[p] \in Nat /\ scoresPosted'[p] \in Nat
        /\ scoresPosted[p] <= scoresPosted'[p]
    BY LedgerAssumption DEF FeedsBounded
  <2>3. i \in 1..scoresPosted'[p]
    BY <2>2
  <2> QED
    BY <2>1, <2>3 DEF AttestedBy
<1> QED
  BY <1>1, <1>2 DEF SettledWell

\* What settle_decision writes is what SettledOnProof asks for.
LEMMA SettleIsOnProof ==
  ASSUME TypeOK, FeedsBounded, NEW a \in Authorities, NEW s \in DOMAIN strategy,
         NEW d \in DOMAIN decision, NEW r \in Reveals, settle_decision(a, s, d, r)
  PROVE  SettledWell(d)'
<1>1. PICK side \in Sides, i \in 1..scoresPosted[strategy[s].txline_program],
           pnl \in Int :
        /\ d = <<s, decision[d].index>>
        /\ RevealMatches(s, d, r)
        /\ ScoreProves(strategy[s].txline_program, i, decision[d].fixture_id,
                       side)
        /\ decision'[d].commit_hash = decision[d].commit_hash
        /\ decision'[d].fixture_id = decision[d].fixture_id
        /\ decision'[d].market = decision[d].market
        /\ decision'[d].outcome_side = side
        /\ decision'[d].pnl = pnl
        /\ pnl = compute_pnl(side = r.side, r.stake, r.entry_odds_milli)
        /\ strategy'[s].txline_program = strategy[s].txline_program
        /\ UNCHANGED <<now, scoresPosted, oddsPosted>>
  BY SettleEffect
<1> DEFINE p == strategy[s].txline_program
<1>2. p \in Programs
  BY DEF TypeOK, StrategyAccount
<1>3. d[1] = s
  BY <1>1
<1>4. ResultOf(ScoreFeed[p][i]) = side
  <2>1. i \in 1..Len(ScoreFeed[p])
    BY <1>1, <1>2, LedgerAssumption DEF FeedsBounded
  <2> QED
    BY <1>1, <1>2, <2>1, ResultIsUnique DEF ScoreProves
<1>5. AttestedBy(p, decision[d].fixture_id, side)'
  BY <1>1, <1>4 DEF AttestedBy, ScoreProves
<1>6. decision[d].commit_hash.keccak = r
  BY <1>1 DEF RevealMatches, compute_commit_hash
<1>7. SealOf(d)' = r
  BY <1>1, <1>6 DEF SealOf
<1>8. /\ r.strategy = s /\ r.side \in Sides
      /\ r.fixture_id = decision[d].fixture_id /\ r.market = decision[d].market
  BY <1>1 DEF RevealMatches
<1> QED
  BY <1>1, <1>3, <1>5, <1>7, <1>8 DEF SettledWell

LEMMA SettledStep ==
  TypeOK /\ LogBindsHistory /\ FeedsBounded /\ SettledOnProof /\ [Next]_vars
    => SettledOnProof'
<1> SUFFICES ASSUME TypeOK, LogBindsHistory, FeedsBounded, SettledOnProof,
                    [Next]_vars, NEW d \in DOMAIN decision'
             PROVE  SettledWell(d)'
  BY DEF SettledOnProof
<1>1. /\ FeedsBounded'
      /\ \A p \in Programs : scoresPosted[p] <= scoresPosted'[p]
  BY FeedsStep
<1>2. ASSUME d \in DOMAIN decision
      PROVE  /\ d[1] \in DOMAIN strategy
             /\ strategy[d[1]].txline_program \in Programs
             /\ SettledWell(d)
  BY <1>2 DEF LogBindsHistory, TypeOK, StrategyAccount, SettledOnProof
<1>3. ASSUME NEW a \in Authorities, NEW id \in StrategyIds, NEW p \in Programs,
             NEW b \in Bankrolls, initialize_strategy(a, id, p, b)
      PROVE  SettledWell(d)'
  <2>1. PICK s : s = AddressOf(a, id)
    OBVIOUS
  <2>2. /\ \A t \in DOMAIN strategy : strategy'[t] = strategy[t]
        /\ decision' = decision
    BY <1>3, <2>1, InitializeEffect
  <2> QED
    BY <1>1, <1>2, <2>2, SettledKept
<1>4. ASSUME NEW a \in Authorities, NEW s \in DOMAIN strategy, NEW h \in Hashes,
             NEW f \in Fixtures, NEW m \in Markets, commit_decision(a, s, h, f, m)
      PROVE  SettledWell(d)'
  <2>1. PICK e : e = NextKey(s)
    OBVIOUS
  <2>2. /\ DOMAIN decision' = DOMAIN decision \cup {e}
        /\ \A k \in DOMAIN decision : decision'[k] = decision[k]
        /\ decision'[e].status = STATUS_OPEN
    BY <1>4, <2>1, CommitDecisions
  <2>3. /\ \A t \in DOMAIN strategy : t # s => strategy'[t] = strategy[t]
        /\ strategy'[s].txline_program = strategy[s].txline_program
    BY <1>4, CommitStrategy
  <2>4. CASE d = e
    BY <2>2, <2>4 DEF SettledWell, STATUS_OPEN, STATUS_SETTLED
  <2>5. CASE d \in DOMAIN decision
    BY <1>1, <1>2, <2>2, <2>3, <2>5, SettledKept
  <2> QED
    BY <2>2, <2>4, <2>5
<1>5. ASSUME NEW a \in Authorities, NEW s \in DOMAIN strategy,
             NEW e \in DOMAIN decision, NEW r \in Reveals,
             settle_decision(a, s, e, r)
      PROVE  SettledWell(d)'
  <2>1. /\ DOMAIN decision' = DOMAIN decision
        /\ \A k \in DOMAIN decision : k # e => decision'[k] = decision[k]
        /\ \A t \in DOMAIN strategy : t # s => strategy'[t] = strategy[t]
        /\ strategy'[s].txline_program = strategy[s].txline_program
    BY <1>5, SettleEffect
  <2>2. CASE d = e
    BY <1>5, <2>2, SettleIsOnProof
  <2>3. CASE d # e
    BY <1>1, <1>2, <2>1, <2>3, SettledKept
  <2> QED
    BY <2>2, <2>3
<1>6. ASSUME NEW a \in Authorities, NEW s \in DOMAIN strategy,
             NEW e \in DOMAIN decision, NEW r \in Reveals,
             prove_entry_odds(a, s, e, r)
      PROVE  SettledWell(d)'
  <2>1. /\ DOMAIN decision' = DOMAIN decision /\ strategy' = strategy
        /\ \A k \in DOMAIN decision : k # e => decision'[k] = decision[k]
        /\ decision'[e].status = decision[e].status
        /\ decision'[e].commit_hash = decision[e].commit_hash
        /\ decision'[e].fixture_id = decision[e].fixture_id
        /\ decision'[e].market = decision[e].market
        /\ decision'[e].outcome_side = decision[e].outcome_side
        /\ decision'[e].pnl = decision[e].pnl
    BY <1>6, ProveEffect
  <2> QED
    BY <1>1, <1>2, <2>1, SettledKept
<1>7. ASSUME NEW a \in Authorities, NEW s \in DOMAIN strategy,
             NEW e \in DOMAIN decision, NEW r \in Reveals,
             void_decision(a, s, e, r)
      PROVE  SettledWell(d)'
  <2>1. /\ DOMAIN decision' = DOMAIN decision
        /\ \A k \in DOMAIN decision : k # e => decision'[k] = decision[k]
        /\ decision'[e].status = STATUS_VOID
        /\ \A t \in DOMAIN strategy : t # s => strategy'[t] = strategy[t]
        /\ strategy'[s].txline_program = strategy[s].txline_program
    BY <1>7, VoidEffect
  <2>2. CASE d = e
    BY <2>1, <2>2 DEF SettledWell, STATUS_VOID, STATUS_SETTLED
  <2>3. CASE d # e
    BY <1>1, <1>2, <2>1, <2>3, SettledKept
  <2> QED
    BY <2>2, <2>3
<1>8. CASE UNCHANGED <<strategy, decision>>
  BY <1>1, <1>2, <1>8, SettledKept
<1>9. Post \/ Tick \/ UNCHANGED vars => UNCHANGED <<strategy, decision>>
  BY DEF Post, PostScore, PostOdds, Tick, vars
<1> QED
  BY <1>3, <1>4, <1>5, <1>6, <1>7, <1>8, <1>9
     DEF Next, Initialize, Commit, Settle, Prove, Void

\* No decision is ever settled but on what its own strategy's oracle posted for
\* its own fixture, as the sealed bet it was committed as, for the PnL that seal
\* fixes.
THEOREM SettlementIsOnProof == Spec => []SettledOnProof
<1>1. Init => FeedsBounded
  BY LedgerAssumption DEF Init, FeedsBounded
<1>2. Init => SettledOnProof
  BY DEF Init, SettledOnProof
<1>3. TypeOK /\ FeedsBounded /\ [Next]_vars => FeedsBounded'
  BY FeedsStep
<1> QED
  BY <1>1, <1>2, <1>3, SettledStep, LogIsBinding, TypeCorrect, PTL DEF Spec
-----------------------------------------------------------------------------
(***************************************************************************)
(* What the ledger's accounts are worth: the entry price a proof marks,    *)
(* the counters and the realized PnL a strategy reports, and that          *)
(* AgentLedger implements SealedBets.                                      *)
(***************************************************************************)

(***************************************************************************)
(* Entry prices.  A price once posted stays posted, so a decision nobody   *)
(* proves stays as well proven as it was.                                  *)
(***************************************************************************)

OddsBounded ==
  \A p \in Programs : oddsPosted[p] \in 0..Len(OddsFeed[p])

LEMMA OddsStep == TypeOK /\ OddsBounded /\ [Next]_vars =>
  /\ OddsBounded'
  /\ \A p \in Programs : oddsPosted[p] <= oddsPosted'[p]
<1> SUFFICES ASSUME TypeOK, OddsBounded, [Next]_vars
             PROVE  /\ OddsBounded'
                    /\ \A p \in Programs : oddsPosted[p] <= oddsPosted'[p]
  OBVIOUS
<1>1. \A p \in Programs : /\ oddsPosted[p] \in Nat
                          /\ Len(OddsFeed[p]) \in Nat
  BY LedgerAssumption DEF TypeOK
<1>2. CASE UNCHANGED oddsPosted
  BY <1>1, <1>2 DEF OddsBounded
<1>3. ASSUME NEW p \in Programs, PostOdds(p)
      PROVE  /\ OddsBounded'
             /\ \A q \in Programs : oddsPosted[q] <= oddsPosted'[q]
  <2>1. /\ oddsPosted \in [Programs -> Nat]
        /\ oddsPosted[p] < Len(OddsFeed[p])
        /\ oddsPosted' = [oddsPosted EXCEPT ![p] = oddsPosted[p] + 1]
    BY <1>3 DEF PostOdds, TypeOK
  <2>2. /\ oddsPosted'[p] = oddsPosted[p] + 1
        /\ \A q \in Programs : q # p => oddsPosted'[q] = oddsPosted[q]
    BY <2>1
  <2> QED
    BY <1>1, <2>1, <2>2 DEF OddsBounded
<1>4. UNCHANGED oddsPosted \/ \E p \in Programs : PostOdds(p)
  BY DEF Next, Initialize, initialize_strategy, Commit, commit_decision, Settle,
         settle_decision, Prove, prove_entry_odds, Void, void_decision, Post,
         PostScore, Tick, vars
<1> QED
  BY <1>2, <1>3, <1>4

LEMMA PublishedStays ==
  ASSUME OddsBounded, OddsBounded', NEW p \in Programs, NEW f, NEW seal,
         oddsPosted[p] <= oddsPosted'[p], PricePublished(p, f, seal)
  PROVE  PricePublished(p, f, seal)'
<1>1. /\ oddsPosted[p] \in Nat /\ oddsPosted'[p] \in Nat
  BY LedgerAssumption DEF OddsBounded
<1>2. 1..oddsPosted[p] \subseteq 1..oddsPosted'[p]
  BY <1>1
<1> QED
  BY <1>2 DEF PricePublished

\* A decision nobody touches stays well priced.
LEMMA PriceKept ==
  ASSUME NEW d \in DOMAIN decision, PriceWell(d),
         decision'[d].status = decision[d].status,
         decision'[d].commit_hash = decision[d].commit_hash,
         decision'[d].fixture_id = decision[d].fixture_id,
         decision'[d].entry_odds_proven = decision[d].entry_odds_proven,
         strategy[d[1]].txline_program \in Programs,
         strategy'[d[1]].txline_program = strategy[d[1]].txline_program,
         OddsBounded, OddsBounded',
         \A p \in Programs : oddsPosted[p] <= oddsPosted'[p]
  PROVE  PriceWell(d)'
<1>1. SealOf(d)' = SealOf(d)
  BY DEF SealOf
<1>2. ASSUME NEW p \in Programs, NEW f, NEW seal, PricePublished(p, f, seal)
      PROVE  PricePublished(p, f, seal)'
  BY <1>2, PublishedStays
<1> QED
  BY <1>1, <1>2 DEF PriceWell

\* What prove_entry_odds accepts is what EntryOddsPublished asks for.
LEMMA ProveIsPublished ==
  ASSUME TypeOK, OddsBounded, NEW a \in Authorities,
         NEW s \in DOMAIN strategy, NEW d \in DOMAIN decision,
         NEW r \in Reveals, prove_entry_odds(a, s, d, r)
  PROVE  PriceWell(d)'
<1>1. PICK p \in Programs, ts \in Timestamps :
        \E i \in 1..oddsPosted[p], j \in 1..4 : prove_with(s, d, r, p, ts, i, j)
  BY DEF prove_entry_odds
<1>2. PICK i \in 1..oddsPosted[p], j \in 1..4 : prove_with(s, d, r, p, ts, i, j)
  BY <1>1
<1>3. /\ d = <<s, decision[d].index>>
      /\ decision[d].commit_hash = [keccak |-> r]
  BY DEF prove_entry_odds, ProveAccounts, DecisionAccounts, RevealMatches,
         compute_commit_hash
<1>4. /\ decision'[d].status = STATUS_SETTLED
      /\ decision'[d].commit_hash = decision[d].commit_hash
      /\ decision'[d].fixture_id = decision[d].fixture_id
      /\ UNCHANGED <<strategy, oddsPosted>>
  BY ProveEffect
<1>5. d[1] = s /\ SealOf(d)' = r
  BY <1>3, <1>4 DEF SealOf
<1>6. PricePublished(p, decision[d].fixture_id, r)
  <2> DEFINE o == OddsFeed[p][i]
  <2>1. /\ o.fixture_id = decision[d].fixture_id
        /\ o.super_odds_type = SUPER_ODDS_TYPE_1X2
        /\ Len(o.price_names) = Len(o.prices)
        /\ j \in DOMAIN o.price_names
        /\ o.price_names[j] \in CanonicalLabels(r.side)
        /\ o.prices[j] = r.entry_odds_milli
        /\ o \in OddsRoot(p, epoch_day_le(ts))
    BY <1>2 DEF prove_with, side_matches_label, cpi_validate_odds
  <2>2. o.price_names \in Seq(STRING) /\ o.prices \in Seq(Int)
    <3>1. OddsFeed[p] \in Seq(OddsRecord) /\ i \in 1..Len(OddsFeed[p])
      BY LedgerAssumption DEF OddsBounded
    <3>2. o \in OddsRecord
      BY <3>1
    <3> QED
      BY <3>2 DEF OddsRecord
  <2>3. j \in DOMAIN o.prices
    BY <2>1, <2>2
  <2> HIDE DEF o
  <2> QED
    BY <2>1, <2>3 DEF PricePublished, o
<1>7. PricePublished(p, decision[d].fixture_id, r)'
  BY <1>4, <1>6 DEF PricePublished
<1>8. p = strategy[s].txline_program
  BY <1>2 DEF prove_with
<1> QED
  BY <1>4, <1>5, <1>7, <1>8 DEF PriceWell

LEMMA PriceStep ==
  TypeOK /\ LogBindsHistory /\ OddsBounded /\ EntryOddsPublished /\ [Next]_vars
    => EntryOddsPublished'
<1> SUFFICES ASSUME TypeOK, LogBindsHistory, OddsBounded, EntryOddsPublished,
                    [Next]_vars, NEW d \in DOMAIN decision'
             PROVE  PriceWell(d)'
  BY DEF EntryOddsPublished
<1>1. /\ OddsBounded'
      /\ \A p \in Programs : oddsPosted[p] <= oddsPosted'[p]
  BY OddsStep
<1>2. ASSUME d \in DOMAIN decision
      PROVE  /\ d[1] \in DOMAIN strategy
             /\ strategy[d[1]].txline_program \in Programs
             /\ PriceWell(d)
  BY <1>2 DEF LogBindsHistory, TypeOK, StrategyAccount, EntryOddsPublished
<1>3. ASSUME NEW a \in Authorities, NEW id \in StrategyIds, NEW p \in Programs,
             NEW b \in Bankrolls, initialize_strategy(a, id, p, b)
      PROVE  PriceWell(d)'
  <2>1. PICK s : s = AddressOf(a, id)
    OBVIOUS
  <2>2. /\ \A t \in DOMAIN strategy : strategy'[t] = strategy[t]
        /\ decision' = decision
    BY <1>3, <2>1, InitializeEffect
  <2> QED
    BY <1>1, <1>2, <2>2, PriceKept
<1>4. ASSUME NEW a \in Authorities, NEW s \in DOMAIN strategy, NEW h \in Hashes,
             NEW f \in Fixtures, NEW m \in Markets, commit_decision(a, s, h, f, m)
      PROVE  PriceWell(d)'
  <2>1. PICK e : e = NextKey(s)
    OBVIOUS
  <2>2. /\ DOMAIN decision' = DOMAIN decision \cup {e}
        /\ \A k \in DOMAIN decision : decision'[k] = decision[k]
        /\ ~decision'[e].entry_odds_proven
    BY <1>4, <2>1, CommitDecisions
  <2>3. /\ \A t \in DOMAIN strategy : t # s => strategy'[t] = strategy[t]
        /\ strategy'[s].txline_program = strategy[s].txline_program
    BY <1>4, CommitStrategy
  <2>4. CASE d = e
    BY <2>2, <2>4 DEF PriceWell
  <2>5. CASE d \in DOMAIN decision
    BY <1>1, <1>2, <2>2, <2>3, <2>5, PriceKept
  <2> QED
    BY <2>2, <2>4, <2>5
<1>5. ASSUME NEW a \in Authorities, NEW s \in DOMAIN strategy,
             NEW e \in DOMAIN decision, NEW r \in Reveals,
             settle_decision(a, s, e, r)
      PROVE  PriceWell(d)'
  <2>1. /\ decision[e].status = STATUS_OPEN
        /\ DOMAIN decision' = DOMAIN decision
        /\ \A k \in DOMAIN decision : k # e => decision'[k] = decision[k]
        /\ decision'[e].entry_odds_proven = decision[e].entry_odds_proven
        /\ \A t \in DOMAIN strategy : t # s => strategy'[t] = strategy[t]
        /\ strategy'[s].txline_program = strategy[s].txline_program
    BY <1>5, SettleEffect
  <2>2. CASE d = e
    BY <1>2, <2>1, <2>2 DEF PriceWell, STATUS_OPEN, STATUS_SETTLED
  <2>3. CASE d # e
    BY <1>1, <1>2, <2>1, <2>3, PriceKept
  <2> QED
    BY <2>2, <2>3
<1>6. ASSUME NEW a \in Authorities, NEW s \in DOMAIN strategy,
             NEW e \in DOMAIN decision, NEW r \in Reveals,
             prove_entry_odds(a, s, e, r)
      PROVE  PriceWell(d)'
  <2>1. /\ DOMAIN decision' = DOMAIN decision /\ strategy' = strategy
        /\ \A k \in DOMAIN decision : k # e => decision'[k] = decision[k]
    BY <1>6, ProveEffect
  <2>2. CASE d = e
    BY <1>6, <2>2, ProveIsPublished
  <2>3. CASE d # e
    BY <1>1, <1>2, <2>1, <2>3, PriceKept
  <2> QED
    BY <2>2, <2>3
<1>7. ASSUME NEW a \in Authorities, NEW s \in DOMAIN strategy,
             NEW e \in DOMAIN decision, NEW r \in Reveals,
             void_decision(a, s, e, r)
      PROVE  PriceWell(d)'
  <2>1. /\ decision[e].status = STATUS_OPEN
        /\ DOMAIN decision' = DOMAIN decision
        /\ \A k \in DOMAIN decision : k # e => decision'[k] = decision[k]
        /\ decision'[e].entry_odds_proven = decision[e].entry_odds_proven
        /\ \A t \in DOMAIN strategy : t # s => strategy'[t] = strategy[t]
        /\ strategy'[s].txline_program = strategy[s].txline_program
    BY <1>7, VoidEffect
  <2>2. CASE d = e
    BY <1>2, <2>1, <2>2 DEF PriceWell, STATUS_OPEN, STATUS_SETTLED
  <2>3. CASE d # e
    BY <1>1, <1>2, <2>1, <2>3, PriceKept
  <2> QED
    BY <2>2, <2>3
<1>8. CASE UNCHANGED <<strategy, decision>>
  BY <1>1, <1>2, <1>8, PriceKept
<1>9. Post \/ Tick \/ UNCHANGED vars => UNCHANGED <<strategy, decision>>
  BY DEF Post, PostScore, PostOdds, Tick, vars
<1> QED
  BY <1>3, <1>4, <1>5, <1>6, <1>7, <1>8, <1>9
     DEF Next, Initialize, Commit, Settle, Prove, Void

\* An entry price marked proven is always one the strategy's own oracle posted,
\* for the sealed side of the sealed fixture's 1X2 market, and the decision it
\* is marked on has been settled.
THEOREM EntryPriceIsPublished == Spec => []EntryOddsPublished
<1>1. Init => OddsBounded
  BY LedgerAssumption DEF Init, OddsBounded
<1>2. Init => EntryOddsPublished
  BY DEF Init, EntryOddsPublished
<1>3. TypeOK /\ OddsBounded /\ [Next]_vars => OddsBounded'
  BY OddsStep
<1> QED
  BY <1>1, <1>2, <1>3, PriceStep, LogIsBinding, TypeCorrect, PTL DEF Spec

(***************************************************************************)
(* An open decision has no PnL: the settlement that writes one adds it,    *)
(* and the void that writes 0 changes nothing.                             *)
(***************************************************************************)

Unpaid(d) == decision[d].status = STATUS_OPEN => decision[d].pnl = 0

OpenIsUnpaid == \A d \in DOMAIN decision : Unpaid(d)

LEMMA CommitIsUnpaid ==
  ASSUME TypeOK, NEW a \in Authorities, NEW s \in DOMAIN strategy,
         NEW h \in Hashes, NEW f \in Fixtures, NEW m \in Markets,
         NEW e, e = NextKey(s), commit_decision(a, s, h, f, m)
  PROVE  /\ DOMAIN decision' = DOMAIN decision \cup {e}
         /\ \A k \in DOMAIN decision : decision'[k] = decision[k]
         /\ decision'[e].pnl = 0
BY CommitDecisions

LEMMA UnpaidStep == TypeOK /\ OpenIsUnpaid /\ [Next]_vars => OpenIsUnpaid'
<1> SUFFICES ASSUME TypeOK, OpenIsUnpaid, [Next]_vars, NEW d \in DOMAIN decision'
             PROVE  Unpaid(d)'
  BY DEF OpenIsUnpaid
<1>1. ASSUME NEW a \in Authorities, NEW s \in DOMAIN strategy, NEW h \in Hashes,
             NEW f \in Fixtures, NEW m \in Markets, commit_decision(a, s, h, f, m)
      PROVE  Unpaid(d)'
  <2>1. PICK e : e = NextKey(s)
    OBVIOUS
  <2>2. /\ DOMAIN decision' = DOMAIN decision \cup {e}
        /\ \A k \in DOMAIN decision : decision'[k] = decision[k]
        /\ decision'[e].pnl = 0
    BY <1>1, <2>1, CommitIsUnpaid
  <2> QED
    BY <2>2 DEF OpenIsUnpaid, Unpaid
<1>2. ASSUME NEW a \in Authorities, NEW s \in DOMAIN strategy,
             NEW e \in DOMAIN decision, NEW r \in Reveals,
             settle_decision(a, s, e, r)
      PROVE  Unpaid(d)'
  <2>1. /\ DOMAIN decision' = DOMAIN decision
        /\ \A k \in DOMAIN decision : k # e => decision'[k] = decision[k]
        /\ decision'[e].status = STATUS_SETTLED
    BY <1>2, SettleEffect
  <2> QED
    BY <2>1 DEF OpenIsUnpaid, Unpaid, STATUS_OPEN, STATUS_SETTLED
<1>3. ASSUME NEW a \in Authorities, NEW s \in DOMAIN strategy,
             NEW e \in DOMAIN decision, NEW r \in Reveals,
             prove_entry_odds(a, s, e, r)
      PROVE  Unpaid(d)'
  <2>1. /\ DOMAIN decision' = DOMAIN decision
        /\ \A k \in DOMAIN decision : k # e => decision'[k] = decision[k]
        /\ decision'[e].status = decision[e].status
        /\ decision'[e].pnl = decision[e].pnl
    BY <1>3, ProveEffect
  <2> QED
    BY <2>1 DEF OpenIsUnpaid, Unpaid
<1>4. ASSUME NEW a \in Authorities, NEW s \in DOMAIN strategy,
             NEW e \in DOMAIN decision, NEW r \in Reveals,
             void_decision(a, s, e, r)
      PROVE  Unpaid(d)'
  <2>1. /\ DOMAIN decision' = DOMAIN decision
        /\ \A k \in DOMAIN decision : k # e => decision'[k] = decision[k]
        /\ decision'[e].pnl = 0
    BY <1>4, VoidEffect
  <2> QED
    BY <2>1 DEF OpenIsUnpaid, Unpaid
<1>5. CASE UNCHANGED decision
  BY <1>5 DEF OpenIsUnpaid, Unpaid
<1>6. Initialize \/ Post \/ Tick \/ UNCHANGED vars => UNCHANGED decision
  BY DEF Initialize, initialize_strategy, Post, PostScore, PostOdds, Tick, vars
<1> QED
  BY <1>1, <1>2, <1>3, <1>4, <1>5, <1>6
     DEF Next, Commit, Settle, Prove, Void

(***************************************************************************)
(* Counting one element more or less.                                      *)
(***************************************************************************)

LEMMA CountAdded ==
  ASSUME NEW S, NEW T, NEW x, IsFiniteSet(S), x \notin S, T = S \cup {x}
  PROVE  IsFiniteSet(T) /\ Cardinality(T) = Cardinality(S) + 1
  BY FS_AddElement

LEMMA CountRemoved ==
  ASSUME NEW S, NEW T, NEW x, IsFiniteSet(S), x \in S, T = S \ {x}
  PROVE  IsFiniteSet(T) /\ Cardinality(T) = Cardinality(S) - 1
  BY FS_RemoveElement

(***************************************************************************)
(* The sets that are counted.                                              *)
(***************************************************************************)

LEMMA CountedSetsFinite ==
  ASSUME IsFiniteSet(DOMAIN decision), NEW s
  PROVE  /\ IsFiniteSet(DecisionsOf(s)) /\ IsFiniteSet(WonBy(s))
         /\ \A st : IsFiniteSet(WithStatus(s, st))
<1>1. DecisionsOf(s) \subseteq DOMAIN decision
  BY DEF DecisionsOf
<1>2. WonBy(s) \subseteq DOMAIN decision
  BY DEF WonBy, WithStatus, DecisionsOf
<1>3. \A st : WithStatus(s, st) \subseteq DOMAIN decision
  BY DEF WithStatus, DecisionsOf
<1> QED
  BY <1>1, <1>2, <1>3, FS_Subset

\* The counters of a strategy stay right when neither they nor the status of
\* any of its decisions changes.
LEMMA RecountKept ==
  ASSUME NEW s, RecountMatches(s),
         DecisionsOf(s)' = DecisionsOf(s),
         \A e \in DecisionsOf(s) :
           /\ decision'[e].status = decision[e].status
           /\ decision'[e].outcome_side = decision[e].outcome_side
           /\ decision'[e].commit_hash = decision[e].commit_hash,
         strategy'[s].decisions_count = strategy[s].decisions_count,
         strategy'[s].open_count = strategy[s].open_count,
         strategy'[s].settled_count = strategy[s].settled_count,
         strategy'[s].pushes = strategy[s].pushes,
         strategy'[s].wins = strategy[s].wins,
         strategy'[s].losses = strategy[s].losses
  PROVE  RecountMatches(s)'
<1>1. \A st : WithStatus(s, st)' = WithStatus(s, st)
  BY DEF WithStatus
<1>2. \A e \in DecisionsOf(s) : SealOf(e)' = SealOf(e)
  BY DEF SealOf
<1>3. WonBy(s)' = WonBy(s)
  BY <1>1, <1>2 DEF WonBy, WithStatus
<1> QED
  BY <1>1, <1>3 DEF RecountMatches

CountInv == IsFiniteSet(DOMAIN decision) /\ CountersAgree

LEMMA CountInitialize ==
  ASSUME TypeOK, LogBindsHistory, CountInv, NEW a \in Authorities,
         NEW id \in StrategyIds, NEW p \in Programs, NEW b \in Bankrolls,
         initialize_strategy(a, id, p, b)
  PROVE  CountInv'
<1>1. PICK s : s = AddressOf(a, id)
  OBVIOUS
<1>2. /\ s \notin DOMAIN strategy /\ DOMAIN strategy' = DOMAIN strategy \cup {s}
      /\ \A t \in DOMAIN strategy : strategy'[t] = strategy[t]
      /\ strategy'[s] = NewStrategy(a, id, p, b)
      /\ decision' = decision
  BY <1>1, InitializeEffect
<1>3. ASSUME NEW t \in DOMAIN strategy
      PROVE  RecountMatches(t)'
  <2>1. RecountMatches(t) /\ DecisionsOf(t)' = DecisionsOf(t)
    BY <1>2 DEF CountInv, CountersAgree, DecisionsOf
  <2> QED
    BY <1>2, <2>1, RecountKept
<1>4. RecountMatches(s)'
  <2>1. DecisionsOf(s)' = {}
    BY <1>2 DEF DecisionsOf, LogBindsHistory
  <2>2. \A st : WithStatus(s, st)' = {}
    BY <2>1 DEF WithStatus
  <2>3. WonBy(s)' = {}
    BY <2>2 DEF WonBy
  <2>4. /\ strategy'[s].decisions_count = 0 /\ strategy'[s].open_count = 0
        /\ strategy'[s].settled_count = 0 /\ strategy'[s].pushes = 0
        /\ strategy'[s].wins = 0 /\ strategy'[s].losses = 0
    BY <1>2 DEF NewStrategy
  <2>5. /\ WithStatus(s, STATUS_OPEN)' = {}
        /\ WithStatus(s, STATUS_SETTLED)' = {}
        /\ WithStatus(s, STATUS_VOID)' = {}
    BY <2>1 DEF WithStatus
  <2>6. Cardinality({}) = 0
    BY FS_EmptySet
  <2> QED
    BY <2>1, <2>3, <2>4, <2>5, <2>6 DEF RecountMatches
<1> QED
  BY <1>2, <1>3, <1>4 DEF CountInv, CountersAgree

LEMMA CountCommitted ==
  ASSUME TypeOK, CountInv, NEW a \in Authorities, NEW s \in DOMAIN strategy,
         NEW h \in Hashes, NEW f \in Fixtures, NEW m \in Markets,
         commit_decision(a, s, h, f, m)
  PROVE  CountInv'
<1>1. PICK d : d = NextKey(s)
  OBVIOUS
<1>2. /\ d \notin DOMAIN decision /\ DOMAIN decision' = DOMAIN decision \cup {d}
      /\ \A e \in DOMAIN decision : decision'[e] = decision[e]
      /\ decision'[d].status = STATUS_OPEN
  BY <1>1, CommitDecisions
<1>3. /\ DOMAIN strategy' = DOMAIN strategy
      /\ \A t \in DOMAIN strategy : t # s => strategy'[t] = strategy[t]
      /\ strategy'[s].decisions_count = strategy[s].decisions_count + 1
      /\ strategy'[s].open_count = strategy[s].open_count + 1
      /\ strategy'[s].settled_count = strategy[s].settled_count
      /\ strategy'[s].wins = strategy[s].wins
      /\ strategy'[s].losses = strategy[s].losses
      /\ strategy'[s].pushes = strategy[s].pushes
  BY CommitStrategy
<1>4. d[1] = s
  BY <1>1 DEF NextKey
<1>5. IsFiniteSet(DOMAIN decision')
  BY <1>2, CountAdded DEF CountInv
<1>6. ASSUME NEW t \in DOMAIN strategy, t # s
      PROVE  RecountMatches(t)'
  <2>1. RecountMatches(t) /\ DecisionsOf(t)' = DecisionsOf(t)
    BY <1>2, <1>4, <1>6 DEF CountInv, CountersAgree, DecisionsOf
  <2>2. \A e \in DecisionsOf(t) : e \in DOMAIN decision
    BY DEF DecisionsOf
  <2> QED
    BY <1>2, <1>3, <1>6, <2>1, <2>2, RecountKept
<1>7. RecountMatches(s)'
  <2>1. RecountMatches(s)
    BY DEF CountInv, CountersAgree
  <2>2. /\ DecisionsOf(s)' = DecisionsOf(s) \cup {d}
        /\ d \notin DecisionsOf(s)
    BY <1>2, <1>4 DEF DecisionsOf
  <2>3. \A e \in DecisionsOf(s) : decision'[e] = decision[e]
    BY <1>2 DEF DecisionsOf
  <2>4. /\ WithStatus(s, STATUS_OPEN)' = WithStatus(s, STATUS_OPEN) \cup {d}
        /\ d \notin WithStatus(s, STATUS_OPEN)
    BY <1>2, <2>2, <2>3 DEF WithStatus
  <2>5. /\ WithStatus(s, STATUS_SETTLED)' = WithStatus(s, STATUS_SETTLED)
        /\ WithStatus(s, STATUS_VOID)' = WithStatus(s, STATUS_VOID)
    BY <1>2, <2>2, <2>3
       DEF WithStatus, STATUS_OPEN, STATUS_SETTLED, STATUS_VOID
  <2>6. WonBy(s)' = WonBy(s)
    BY <2>3, <2>5 DEF WonBy, WithStatus, SealOf
  <2>7. IsFiniteSet(DecisionsOf(s)) /\ IsFiniteSet(WithStatus(s, STATUS_OPEN))
    BY CountedSetsFinite DEF CountInv
  <2>8. Cardinality(DecisionsOf(s)') = Cardinality(DecisionsOf(s)) + 1
    BY <2>2, <2>7, CountAdded
  <2>9. Cardinality(WithStatus(s, STATUS_OPEN)')
          = Cardinality(WithStatus(s, STATUS_OPEN)) + 1
    BY <2>4, <2>7, CountAdded
  <2> QED
    BY <1>3, <2>1, <2>5, <2>6, <2>8, <2>9 DEF RecountMatches
<1> QED
  BY <1>3, <1>5, <1>6, <1>7 DEF CountInv, CountersAgree

\* A decision d of strategy s that leaves OPEN: the sets that lose or gain it.
LEMMA OpenLosesOne ==
  ASSUME CountInv, NEW s, NEW d \in DecisionsOf(s),
         DOMAIN decision' = DOMAIN decision,
         \A e \in DOMAIN decision : e # d => decision'[e] = decision[e],
         decision[d].status = STATUS_OPEN, decision'[d].status # STATUS_OPEN
  PROVE  /\ DecisionsOf(s)' = DecisionsOf(s)
         /\ Cardinality(WithStatus(s, STATUS_OPEN)')
              = Cardinality(WithStatus(s, STATUS_OPEN)) - 1
<1>1. DecisionsOf(s)' = DecisionsOf(s)
  BY DEF DecisionsOf
<1>2. /\ WithStatus(s, STATUS_OPEN)' = WithStatus(s, STATUS_OPEN) \ {d}
      /\ d \in WithStatus(s, STATUS_OPEN)
  BY <1>1 DEF WithStatus, DecisionsOf
<1>3. IsFiniteSet(WithStatus(s, STATUS_OPEN))
  BY CountedSetsFinite DEF CountInv
<1> QED
  BY <1>1, <1>2, <1>3, CountRemoved

LEMMA StatusGainsOne ==
  ASSUME CountInv, NEW s, NEW d \in DecisionsOf(s), NEW st,
         DOMAIN decision' = DOMAIN decision,
         \A e \in DOMAIN decision : e # d => decision'[e] = decision[e],
         decision[d].status # st, decision'[d].status = st
  PROVE  Cardinality(WithStatus(s, st)') = Cardinality(WithStatus(s, st)) + 1
<1>1. DecisionsOf(s)' = DecisionsOf(s)
  BY DEF DecisionsOf
<1>2. /\ WithStatus(s, st)' = WithStatus(s, st) \cup {d}
      /\ d \notin WithStatus(s, st)
  BY <1>1 DEF WithStatus, DecisionsOf
<1>3. IsFiniteSet(WithStatus(s, st))
  BY CountedSetsFinite DEF CountInv
<1> QED
  BY <1>2, <1>3, CountAdded

\* The other strategies' decisions are untouched.
LEMMA OthersKept ==
  ASSUME CountInv, NEW d, NEW t \in DOMAIN strategy, d[1] # t,
         DOMAIN decision' = DOMAIN decision,
         \A e \in DOMAIN decision : e # d => decision'[e] = decision[e],
         strategy'[t] = strategy[t]
  PROVE  RecountMatches(t)'
<1>1. RecountMatches(t) /\ DecisionsOf(t)' = DecisionsOf(t)
  BY DEF CountInv, CountersAgree, DecisionsOf
<1>2. \A e \in DecisionsOf(t) : decision'[e] = decision[e]
  BY DEF DecisionsOf
<1> QED
  BY <1>1, <1>2, RecountKept

LEMMA CountSettlement ==
  ASSUME TypeOK, CountInv, NEW a \in Authorities, NEW s \in DOMAIN strategy,
         NEW d \in DOMAIN decision, NEW r \in Reveals, settle_decision(a, s, d, r)
  PROVE  CountInv'
<1>1. PICK side \in Sides, i \in 1..scoresPosted[strategy[s].txline_program],
           pnl \in Int :
        /\ d = <<s, decision[d].index>> /\ decision[d].status = STATUS_OPEN
        /\ RevealMatches(s, d, r)
        /\ DOMAIN decision' = DOMAIN decision
        /\ \A e \in DOMAIN decision : e # d => decision'[e] = decision[e]
        /\ decision'[d].commit_hash = decision[d].commit_hash
        /\ decision'[d].status = STATUS_SETTLED
        /\ decision'[d].outcome_side = side
        /\ DOMAIN strategy' = DOMAIN strategy
        /\ \A t \in DOMAIN strategy : t # s => strategy'[t] = strategy[t]
        /\ strategy'[s].decisions_count = strategy[s].decisions_count
        /\ strategy'[s].open_count = strategy[s].open_count - 1
        /\ strategy'[s].settled_count = strategy[s].settled_count + 1
        /\ strategy'[s].wins = (IF side = r.side THEN strategy[s].wins + 1
                                                 ELSE strategy[s].wins)
        /\ strategy'[s].losses = (IF side = r.side THEN strategy[s].losses
                                                   ELSE strategy[s].losses + 1)
        /\ strategy'[s].pushes = strategy[s].pushes
  BY SettleEffect
<1>2. d[1] = s /\ d \in DecisionsOf(s)
  BY <1>1 DEF DecisionsOf
<1>3. ASSUME NEW t \in DOMAIN strategy, t # s
      PROVE  RecountMatches(t)'
  BY <1>1, <1>2, <1>3, OthersKept
<1>4. RecountMatches(s)'
  <2>1. RecountMatches(s)
    BY DEF CountInv, CountersAgree
  <2>2. /\ DecisionsOf(s)' = DecisionsOf(s)
        /\ Cardinality(WithStatus(s, STATUS_OPEN)')
             = Cardinality(WithStatus(s, STATUS_OPEN)) - 1
    BY <1>1, <1>2, OpenLosesOne DEF STATUS_OPEN, STATUS_SETTLED
  <2>3. Cardinality(WithStatus(s, STATUS_SETTLED)')
          = Cardinality(WithStatus(s, STATUS_SETTLED)) + 1
    BY <1>1, <1>2, StatusGainsOne DEF STATUS_OPEN, STATUS_SETTLED
  <2>4. WithStatus(s, STATUS_VOID)' = WithStatus(s, STATUS_VOID)
    BY <1>1, <2>2 DEF WithStatus, DecisionsOf, STATUS_OPEN, STATUS_SETTLED,
                      STATUS_VOID
  <2>5. SealOf(d)' = r
    BY <1>1 DEF SealOf, RevealMatches, compute_commit_hash
  <2>6. \A e \in DecisionsOf(s) :
          e # d => decision'[e] = decision[e] /\ SealOf(e)' = SealOf(e)
    BY <1>1 DEF SealOf, DecisionsOf
  <2>7. d \notin WonBy(s) /\ IsFiniteSet(WonBy(s))
    BY <1>1, CountedSetsFinite
       DEF CountInv, WonBy, WithStatus, STATUS_OPEN, STATUS_SETTLED
  <2>8. CASE side = r.side
    <3>1. WonBy(s)' = WonBy(s) \cup {d}
      BY <1>1, <1>2, <2>2, <2>5, <2>6, <2>8 DEF WonBy, WithStatus
    <3>2. Cardinality(WonBy(s)') = Cardinality(WonBy(s)) + 1
      BY <2>7, <3>1, CountAdded
    <3>3. strategy[s].wins \in Nat /\ strategy[s].losses \in Nat
      BY DEF TypeOK, StrategyAccount
    <3> QED
      BY <1>1, <2>1, <2>2, <2>3, <2>4, <2>8, <3>2, <3>3 DEF RecountMatches
  <2>9. CASE side # r.side
    <3>1. WonBy(s)' = WonBy(s)
      BY <1>1, <1>2, <2>2, <2>5, <2>6, <2>7, <2>9 DEF WonBy, WithStatus
    <3>2. strategy[s].wins \in Nat /\ strategy[s].losses \in Nat
      BY DEF TypeOK, StrategyAccount
    <3> QED
      BY <1>1, <2>1, <2>2, <2>3, <2>4, <2>9, <3>1, <3>2 DEF RecountMatches
  <2> QED
    BY <2>8, <2>9
<1> QED
  BY <1>1, <1>3, <1>4 DEF CountInv, CountersAgree

LEMMA CountVoided ==
  ASSUME TypeOK, CountInv, NEW a \in Authorities, NEW s \in DOMAIN strategy,
         NEW d \in DOMAIN decision, NEW r \in Reveals, void_decision(a, s, d, r)
  PROVE  CountInv'
<1>1. /\ d = <<s, decision[d].index>> /\ decision[d].status = STATUS_OPEN
      /\ DOMAIN decision' = DOMAIN decision
      /\ \A e \in DOMAIN decision : e # d => decision'[e] = decision[e]
      /\ decision'[d].status = STATUS_VOID
      /\ DOMAIN strategy' = DOMAIN strategy
      /\ \A t \in DOMAIN strategy : t # s => strategy'[t] = strategy[t]
      /\ strategy'[s].decisions_count = strategy[s].decisions_count
      /\ strategy'[s].open_count = strategy[s].open_count - 1
      /\ strategy'[s].settled_count = strategy[s].settled_count
      /\ strategy'[s].wins = strategy[s].wins
      /\ strategy'[s].losses = strategy[s].losses
      /\ strategy'[s].pushes = strategy[s].pushes + 1
  BY VoidEffect
<1>2. d[1] = s /\ d \in DecisionsOf(s)
  BY <1>1 DEF DecisionsOf
<1>3. ASSUME NEW t \in DOMAIN strategy, t # s
      PROVE  RecountMatches(t)'
  BY <1>1, <1>2, <1>3, OthersKept
<1>4. RecountMatches(s)'
  <2>1. RecountMatches(s)
    BY DEF CountInv, CountersAgree
  <2>2. /\ DecisionsOf(s)' = DecisionsOf(s)
        /\ Cardinality(WithStatus(s, STATUS_OPEN)')
             = Cardinality(WithStatus(s, STATUS_OPEN)) - 1
    BY <1>1, <1>2, OpenLosesOne DEF STATUS_OPEN, STATUS_VOID
  <2>3. Cardinality(WithStatus(s, STATUS_VOID)')
          = Cardinality(WithStatus(s, STATUS_VOID)) + 1
    BY <1>1, <1>2, StatusGainsOne DEF STATUS_OPEN, STATUS_VOID
  <2>4. WithStatus(s, STATUS_SETTLED)' = WithStatus(s, STATUS_SETTLED)
    BY <1>1, <2>2 DEF WithStatus, DecisionsOf, STATUS_OPEN, STATUS_SETTLED,
                      STATUS_VOID
  <2>5. \A e \in WithStatus(s, STATUS_SETTLED) : decision'[e] = decision[e]
    BY <1>1 DEF WithStatus, DecisionsOf, STATUS_OPEN, STATUS_SETTLED
  <2>6. WonBy(s)' = WonBy(s)
    BY <2>4, <2>5 DEF WonBy, SealOf
  <2> QED
    BY <1>1, <2>1, <2>2, <2>3, <2>4, <2>6 DEF RecountMatches
<1> QED
  BY <1>1, <1>3, <1>4 DEF CountInv, CountersAgree

LEMMA CountStep ==
  TypeOK /\ LogBindsHistory /\ CountInv /\ [Next]_vars => CountInv'
<1> SUFFICES ASSUME TypeOK, LogBindsHistory, CountInv, [Next]_vars
             PROVE  CountInv'
  OBVIOUS
<1>1. ASSUME NEW a \in Authorities, NEW s \in DOMAIN strategy,
             NEW d \in DOMAIN decision, NEW r \in Reveals,
             prove_entry_odds(a, s, d, r)
      PROVE  CountInv'
  <2>1. /\ DOMAIN decision' = DOMAIN decision /\ strategy' = strategy
        /\ \A e \in DOMAIN decision : e # d => decision'[e] = decision[e]
        /\ decision'[d].status = decision[d].status
        /\ decision'[d].outcome_side = decision[d].outcome_side
        /\ decision'[d].commit_hash = decision[d].commit_hash
    BY <1>1, ProveEffect
  <2>2. ASSUME NEW t \in DOMAIN strategy
        PROVE  RecountMatches(t)'
    <3>1. RecountMatches(t) /\ DecisionsOf(t)' = DecisionsOf(t)
      BY <2>1 DEF CountInv, CountersAgree, DecisionsOf
    <3>2. \A e \in DecisionsOf(t) : e \in DOMAIN decision
      BY DEF DecisionsOf
    <3> QED
      BY <2>1, <3>1, <3>2, RecountKept
  <2> QED
    BY <2>1, <2>2 DEF CountInv, CountersAgree
<1>2. CASE UNCHANGED <<strategy, decision>>
  <2>1. ASSUME NEW t \in DOMAIN strategy
        PROVE  RecountMatches(t)'
    <3>1. RecountMatches(t) /\ DecisionsOf(t)' = DecisionsOf(t)
      BY <1>2 DEF CountInv, CountersAgree, DecisionsOf
    <3> QED
      BY <1>2, <3>1, RecountKept
  <2> QED
    BY <1>2, <2>1 DEF CountInv, CountersAgree
<1>3. Post \/ Tick \/ UNCHANGED vars => UNCHANGED <<strategy, decision>>
  BY DEF Post, PostScore, PostOdds, Tick, vars
<1> QED
  BY <1>1, <1>2, <1>3, CountInitialize, CountCommitted, CountSettlement,
     CountVoided DEF Next, Initialize, Commit, Settle, Prove, Void

\* Every counter lib.rs keeps equals a recount of the decision accounts it
\* summarises, whatever the order of commits, settlements and voids.
THEOREM CountersAreRight == Spec => []CountersAgree
<1>1. Init => CountInv
  BY FS_EmptySet DEF Init, CountInv, CountersAgree
<1>2. CountInv => CountersAgree
  BY DEF CountInv
<1> QED
  BY <1>1, <1>2, CountStep, LogIsBinding, TypeCorrect, PTL DEF Spec

\* The checked_sub on open_count in settle_decision and void_decision can never
\* be what stops them: a strategy with an open decision counts at least one.
THEOREM OpenCountCoversOpen ==
  Spec => [](\A d \in DOMAIN decision :
               decision[d].status = STATUS_OPEN => strategy[d[1]].open_count > 0)
<1>1. TypeOK /\ LogBindsHistory /\ CountInv =>
        \A d \in DOMAIN decision :
          decision[d].status = STATUS_OPEN => strategy[d[1]].open_count > 0
  <2> SUFFICES ASSUME TypeOK, LogBindsHistory, CountInv,
                      NEW d \in DOMAIN decision, decision[d].status = STATUS_OPEN
               PROVE  strategy[d[1]].open_count > 0
    OBVIOUS
  <2>1. d[1] \in DOMAIN strategy
    BY DEF LogBindsHistory
  <2>2. strategy[d[1]].open_count = Cardinality(WithStatus(d[1], STATUS_OPEN))
    BY <2>1 DEF CountInv, CountersAgree, RecountMatches
  <2>3. d \in WithStatus(d[1], STATUS_OPEN)
    BY DEF WithStatus, DecisionsOf
  <2>4. IsFiniteSet(WithStatus(d[1], STATUS_OPEN))
    BY CountedSetsFinite DEF CountInv
  <2>5. Cardinality(WithStatus(d[1], STATUS_OPEN)) # 0
    BY <2>3, <2>4, FS_EmptySet
  <2>6. Cardinality(WithStatus(d[1], STATUS_OPEN)) \in Nat
    BY <2>4, FS_CardinalityType
  <2> QED
    BY <2>2, <2>5, <2>6
<1>2. Init => CountInv
  BY FS_EmptySet DEF Init, CountInv, CountersAgree
<1> QED
  BY <1>1, <1>2, CountStep, LogIsBinding, TypeCorrect, PTL DEF Spec

(***************************************************************************)
(* The realized PnL.                                                       *)
(***************************************************************************)

Realized(s) == strategy[s].realized_pnl = SumFunction(PnlOf(s))

LEMMA PnlsOfStrategy ==
  ASSUME TypeOK, CountInv, NEW s
  PROVE  /\ DOMAIN PnlOf(s) = DecisionsOf(s) /\ IsFiniteSet(DecisionsOf(s))
         /\ \A d \in DecisionsOf(s) : PnlOf(s)[d] = decision[d].pnl /\ PnlOf(s)[d] \in Int
<1>1. DOMAIN PnlOf(s) = DecisionsOf(s)
  BY DEF PnlOf
<1>2. IsFiniteSet(DecisionsOf(s))
  BY CountedSetsFinite DEF CountInv
<1>3. ASSUME NEW d \in DecisionsOf(s)
      PROVE  PnlOf(s)[d] = decision[d].pnl /\ PnlOf(s)[d] \in Int
  <2>1. d \in DOMAIN decision
    BY DEF DecisionsOf
  <2>2. decision[d].pnl \in Int
    BY <2>1 DEF TypeOK, DecisionCommit
  <2> QED
    BY <2>2 DEF PnlOf
<1> QED
  BY <1>1, <1>2, <1>3

\* Nothing changes for a strategy whose decisions keep their PnL.
LEMMA RealizedKept ==
  ASSUME TypeOK, CountInv, NEW s, Realized(s), DecisionsOf(s)' = DecisionsOf(s),
         \A d \in DecisionsOf(s) : decision'[d].pnl = decision[d].pnl,
         strategy'[s].realized_pnl = strategy[s].realized_pnl
  PROVE  Realized(s)'
<1> DEFINE f == PnlOf(s)
           g == PnlOf(s)'
<1>1. /\ DOMAIN f = DecisionsOf(s) /\ IsFiniteSet(DOMAIN f)
      /\ \A d \in DOMAIN f : f[d] = decision[d].pnl
  BY PnlsOfStrategy
<1>2. DOMAIN g = DecisionsOf(s) /\ \A d \in DecisionsOf(s) : g[d] = decision'[d].pnl
  BY DEF PnlOf
<1> HIDE DEF f, g
<1>3. SumFunction(g) = SumFunction(f)
  BY <1>1, <1>2, SumSame
<1> QED
  BY <1>3, Zenon DEF Realized, f, g

\* A decision that gets a PnL adds it.
LEMMA RealizedAdded ==
  ASSUME TypeOK, CountInv, NEW s, Realized(s), DecisionsOf(s)' = DecisionsOf(s),
         NEW d \in DecisionsOf(s), NEW pnl \in Int,
         \A e \in DecisionsOf(s) : e # d => decision'[e].pnl = decision[e].pnl,
         decision[d].pnl = 0, decision'[d].pnl = pnl, strategy[s].realized_pnl \in Int,
         strategy'[s].realized_pnl = strategy[s].realized_pnl + pnl
  PROVE  Realized(s)'
<1> DEFINE f == PnlOf(s)
           g == PnlOf(s)'
<1>1. /\ DOMAIN f = DecisionsOf(s) /\ IsFiniteSet(DOMAIN f)
      /\ \A e \in DOMAIN f : f[e] = decision[e].pnl /\ f[e] \in Int
  BY PnlsOfStrategy
<1>2. DOMAIN g = DecisionsOf(s) /\ \A e \in DecisionsOf(s) : g[e] = decision'[e].pnl
  BY DEF PnlOf
<1> HIDE DEF f, g
<1>3. /\ d \in DOMAIN f /\ DOMAIN g = DOMAIN f /\ f[d] = 0 /\ f[d] \in Int
      /\ g[d] = pnl /\ g[d] \in Int
      /\ \A e \in DOMAIN f : e # d => f[e] \in Int /\ g[e] = f[e]
  BY <1>1, <1>2
<1>4. SumFunction(g) = SumFunction(f) - f[d] + g[d]
  BY <1>1, <1>3, SumChange
<1>5. SumFunction(f) = strategy[s].realized_pnl
  BY Zenon DEF Realized, f
<1>6. SumFunction(g) = strategy'[s].realized_pnl
  BY <1>3, <1>4, <1>5
<1> QED
  BY <1>6, Zenon DEF Realized, g

LEMMA RealizedOfNew ==
  ASSUME TypeOK, CountInv, NEW s, Realized(s), NEW d, d \notin DecisionsOf(s),
         DecisionsOf(s)' = DecisionsOf(s) \cup {d},
         \A e \in DecisionsOf(s) : decision'[e] = decision[e],
         decision'[d].pnl = 0, strategy[s].realized_pnl \in Int,
         strategy'[s].realized_pnl = strategy[s].realized_pnl
  PROVE  Realized(s)'
<1> DEFINE f == PnlOf(s)
           g == PnlOf(s)'
<1>1. /\ DOMAIN f = DecisionsOf(s) /\ IsFiniteSet(DOMAIN f)
      /\ \A e \in DOMAIN f : f[e] = decision[e].pnl /\ f[e] \in Int
  BY PnlsOfStrategy
<1>2. /\ DOMAIN g = DecisionsOf(s) \cup {d}
      /\ \A e \in DecisionsOf(s) \cup {d} : g[e] = decision'[e].pnl
  BY DEF PnlOf
<1> HIDE DEF f, g
<1>3. /\ d \notin DOMAIN f /\ DOMAIN g = DOMAIN f \cup {d} /\ g[d] = 0 /\ g[d] \in Int
      /\ \A e \in DOMAIN f : f[e] \in Int /\ g[e] = f[e]
  BY <1>1, <1>2
<1>4. SumFunction(g) = SumFunction(f) + g[d]
  BY <1>1, <1>3, SumAdd
<1>5. SumFunction(f) = strategy[s].realized_pnl
  BY Zenon DEF Realized, f
<1>6. SumFunction(g) = strategy'[s].realized_pnl
  BY <1>3, <1>4, <1>5
<1> QED
  BY <1>6, Zenon DEF Realized, g

LEMMA RealizedStep ==
  TypeOK /\ LogBindsHistory /\ CountInv /\ OpenIsUnpaid /\ RealizedIsSum /\ [Next]_vars
    => RealizedIsSum'
<1> SUFFICES ASSUME TypeOK, LogBindsHistory, CountInv, OpenIsUnpaid, RealizedIsSum, [Next]_vars
             PROVE  RealizedIsSum'
  OBVIOUS
<1>0. /\ \A s \in DOMAIN strategy : Realized(s)
      /\ \A s \in DOMAIN strategy : strategy[s].realized_pnl \in Int
  BY DEF RealizedIsSum, Realized, TypeOK, StrategyAccount
<1>1. ASSUME NEW a \in Authorities, NEW id \in StrategyIds, NEW p \in Programs,
             NEW b \in Bankrolls, initialize_strategy(a, id, p, b)
      PROVE  RealizedIsSum'
  <2>1. PICK s : s = AddressOf(a, id)
    OBVIOUS
  <2>2. /\ s \notin DOMAIN strategy /\ DOMAIN strategy' = DOMAIN strategy \cup {s}
        /\ \A t \in DOMAIN strategy : strategy'[t] = strategy[t]
        /\ strategy'[s] = NewStrategy(a, id, p, b)
        /\ decision' = decision
    BY <1>1, <2>1, InitializeEffect
  <2>3. ASSUME NEW t \in DOMAIN strategy PROVE Realized(t)'
    BY <1>0, <2>2, RealizedKept DEF DecisionsOf
  <2>4. Realized(s)'
    <3>1. DecisionsOf(s)' = {}
      BY <2>2 DEF DecisionsOf, LogBindsHistory
    <3>2. DOMAIN PnlOf(s)' = {}
      BY <3>1 DEF PnlOf
    <3>3. SumFunction(PnlOf(s)') = 0
      BY <3>2, SumEmpty
    <3>4. strategy'[s].realized_pnl = 0
      BY <2>2 DEF NewStrategy
    <3> QED
      BY <3>3, <3>4, Zenon DEF Realized
  <2> QED
    BY <2>2, <2>3, <2>4 DEF RealizedIsSum, Realized
<1>2. ASSUME NEW a \in Authorities, NEW s \in DOMAIN strategy, NEW h \in Hashes,
             NEW f \in Fixtures, NEW m \in Markets, commit_decision(a, s, h, f, m)
      PROVE  RealizedIsSum'
  <2>1. PICK d : d = NextKey(s)
    OBVIOUS
  <2>2. /\ d \notin DOMAIN decision /\ DOMAIN decision' = DOMAIN decision \cup {d}
        /\ \A e \in DOMAIN decision : decision'[e] = decision[e]
        /\ decision'[d].pnl = 0 /\ d[1] = s
    BY <1>2, <2>1, CommitDecisions DEF NextKey
  <2>3. /\ DOMAIN strategy' = DOMAIN strategy
        /\ \A t \in DOMAIN strategy : strategy'[t].realized_pnl = strategy[t].realized_pnl
    BY <1>2, CommitStrategy
  <2>4. ASSUME NEW t \in DOMAIN strategy, t # s PROVE Realized(t)'
    <3>1. DecisionsOf(t)' = DecisionsOf(t) /\ DecisionsOf(t) \subseteq DOMAIN decision
      BY <2>2, <2>4 DEF DecisionsOf
    <3> QED
      BY <1>0, <2>2, <2>3, <3>1, RealizedKept
  <2>5. Realized(s)'
    <3>1. /\ d \notin DecisionsOf(s) /\ DecisionsOf(s)' = DecisionsOf(s) \cup {d}
          /\ DecisionsOf(s) \subseteq DOMAIN decision
      BY <2>2 DEF DecisionsOf
    <3> QED
      BY <1>0, <2>2, <2>3, <3>1, RealizedOfNew
  <2> QED
    BY <2>3, <2>4, <2>5 DEF RealizedIsSum, Realized
<1>3. ASSUME NEW s \in DOMAIN strategy, NEW d \in DOMAIN decision, NEW pnl \in Int,
             d[1] = s, decision[d].status = STATUS_OPEN,
             DOMAIN decision' = DOMAIN decision, DOMAIN strategy' = DOMAIN strategy,
             \A e \in DOMAIN decision : e # d => decision'[e] = decision[e],
             \A t \in DOMAIN strategy : t # s => strategy'[t] = strategy[t],
             decision'[d].pnl = pnl,
             strategy'[s].realized_pnl = strategy[s].realized_pnl + pnl
      PROVE  RealizedIsSum'
  <2>1. \A t : /\ DecisionsOf(t)' = DecisionsOf(t) /\ DecisionsOf(t) \subseteq DOMAIN decision
               /\ d \in DecisionsOf(t) <=> t = s
    BY <1>3 DEF DecisionsOf
  <2>2. ASSUME NEW t \in DOMAIN strategy, t # s PROVE Realized(t)'
    BY <1>0, <1>3, <2>1, <2>2, RealizedKept
  <2>3. decision[d].pnl = 0
    BY <1>3 DEF OpenIsUnpaid, Unpaid
  <2>4. Realized(s)'
    BY <1>0, <1>3, <2>1, <2>3, RealizedAdded
  <2> QED
    BY <1>3, <2>2, <2>4 DEF RealizedIsSum, Realized
<1>4. ASSUME NEW a \in Authorities, NEW s \in DOMAIN strategy,
             NEW d \in DOMAIN decision, NEW r \in Reveals, settle_decision(a, s, d, r)
      PROVE  RealizedIsSum'
  <2>1. PICK side \in Sides, i \in 1..scoresPosted[strategy[s].txline_program],
             pnl \in Int :
          /\ d = <<s, decision[d].index>> /\ decision[d].status = STATUS_OPEN
          /\ DOMAIN decision' = DOMAIN decision /\ decision'[d].pnl = pnl
          /\ \A e \in DOMAIN decision : e # d => decision'[e] = decision[e]
          /\ DOMAIN strategy' = DOMAIN strategy
          /\ \A t \in DOMAIN strategy : t # s => strategy'[t] = strategy[t]
          /\ strategy'[s].realized_pnl = strategy[s].realized_pnl + pnl
    BY <1>4, SettleEffect
  <2>2. d[1] = s
    BY <2>1
  <2> QED
    BY <1>3, <2>1, <2>2
<1>5. ASSUME NEW a \in Authorities, NEW s \in DOMAIN strategy,
             NEW d \in DOMAIN decision, NEW r \in Reveals, void_decision(a, s, d, r)
      PROVE  RealizedIsSum'
  <2>1. /\ d = <<s, decision[d].index>> /\ decision[d].status = STATUS_OPEN
        /\ DOMAIN decision' = DOMAIN decision /\ decision'[d].pnl = 0
        /\ \A e \in DOMAIN decision : e # d => decision'[e] = decision[e]
        /\ DOMAIN strategy' = DOMAIN strategy
        /\ \A t \in DOMAIN strategy : t # s => strategy'[t] = strategy[t]
        /\ strategy'[s].realized_pnl = strategy[s].realized_pnl
    BY <1>5, VoidEffect
  <2>2. d[1] = s /\ strategy'[s].realized_pnl = strategy[s].realized_pnl + 0
    BY <1>0, <2>1
  <2> QED
    BY <1>3, <2>1, <2>2
<1>6. ASSUME NEW a \in Authorities, NEW s \in DOMAIN strategy,
             NEW d \in DOMAIN decision, NEW r \in Reveals, prove_entry_odds(a, s, d, r)
      PROVE  RealizedIsSum'
  <2>1. /\ DOMAIN decision' = DOMAIN decision /\ strategy' = strategy
        /\ \A e \in DOMAIN decision : decision'[e].pnl = decision[e].pnl
    BY <1>6, ProveEffect
  <2>2. ASSUME NEW t \in DOMAIN strategy PROVE Realized(t)'
    <3>1. DecisionsOf(t)' = DecisionsOf(t) /\ DecisionsOf(t) \subseteq DOMAIN decision
      BY <2>1 DEF DecisionsOf
    <3> QED
      BY <1>0, <2>1, <3>1, RealizedKept
  <2> QED
    BY <2>1, <2>2 DEF RealizedIsSum, Realized
<1>7. CASE UNCHANGED <<strategy, decision>>
  BY <1>7 DEF RealizedIsSum, PnlOf, DecisionsOf
<1>8. Post \/ Tick \/ UNCHANGED vars => UNCHANGED <<strategy, decision>>
  BY DEF Post, PostScore, PostOdds, Tick, vars
<1> QED
  BY <1>1, <1>2, <1>4, <1>5, <1>6, <1>7, <1>8
     DEF Next, Initialize, Commit, Settle, Prove, Void

\* What a strategy account reports of itself - its counters and the PnL it has
\* realized - is what its decision accounts add up to.
THEOREM LedgerIsConsistent == Spec => []LedgerAgrees
<1>1. Init => CountInv /\ OpenIsUnpaid /\ RealizedIsSum
  BY FS_EmptySet DEF Init, CountInv, CountersAgree, OpenIsUnpaid, RealizedIsSum
<1>2. CountInv /\ RealizedIsSum => LedgerAgrees
  BY DEF CountInv, LedgerAgrees
<1> QED
  BY <1>1, <1>2, CountStep, UnpaidStep, RealizedStep, LogIsBinding, TypeCorrect, PTL DEF Spec

(***************************************************************************)
(* The refinement.  A bet of SealedBets is the part of a decision account  *)
(* BetOf reads, together with the oracle its strategy pins.  Voiding       *)
(* writes a PnL of 0; that it changes nothing SealedBets sees needs        *)
(* OpenIsUnpaid.                                                           *)
(***************************************************************************)

LEMMA BetKept ==
  ASSUME NEW d, decision'[d] = decision[d],
         strategy'[d[1]].txline_program = strategy[d[1]].txline_program
  PROVE  BetOf(d)' = BetOf(d)
  BY DEF BetOf, BetState, BetResult

LEMMA AttestedKept == UNCHANGED scoresPosted => UNCHANGED Attested
  BY DEF Attested, AttestedBy

\* An instruction that changes one decision changes one bet.
LEMMA OneBetChanges ==
  ASSUME NEW d \in DOMAIN decision, DOMAIN decision' = DOMAIN decision,
         \A e \in DOMAIN decision : e # d => decision'[e] = decision[e],
         \A e \in DOMAIN decision :
           strategy'[e[1]].txline_program = strategy[e[1]].txline_program,
         NEW bet, bet = BetOf(d)'
  PROVE  BetsOfLedger' = [BetsOfLedger EXCEPT ![d] = bet]
<1>1. \A e \in DOMAIN decision : e # d => BetOf(e)' = BetOf(e)
  BY BetKept
<1> QED
  BY <1>1 DEF BetsOfLedger

LEMMA InitializeRefines ==
  ASSUME TypeOK, LogBindsHistory, NEW a \in Authorities, NEW id \in StrategyIds,
         NEW p \in Programs, NEW b \in Bankrolls, initialize_strategy(a, id, p, b)
  PROVE  UNCHANGED <<BetsOfLedger, Attested>>
<1>1. PICK s : s = AddressOf(a, id)
  OBVIOUS
<1>2. /\ \A t \in DOMAIN strategy : strategy'[t] = strategy[t]
      /\ decision' = decision /\ UNCHANGED scoresPosted
  BY <1>1, InitializeEffect
<1>3. \A d \in DOMAIN decision : d[1] \in DOMAIN strategy
  BY DEF LogBindsHistory
<1>4. \A d \in DOMAIN decision : BetOf(d)' = BetOf(d)
  BY <1>2, <1>3, BetKept
<1> QED
  BY <1>2, <1>4, AttestedKept DEF BetsOfLedger

LEMMA CommitRefines ==
  ASSUME TypeOK, LogBindsHistory, NEW a \in Authorities,
         NEW s \in DOMAIN strategy, NEW h \in Hashes, NEW f \in Fixtures,
         NEW m \in Markets, commit_decision(a, s, h, f, m)
  PROVE  Promise!Next
<1>1. PICK d : d = NextKey(s)
  OBVIOUS
<1>2. /\ d \in CommitKeys /\ d \notin DOMAIN decision
      /\ DOMAIN decision' = DOMAIN decision \cup {d}
      /\ \A e \in DOMAIN decision : decision'[e] = decision[e]
      /\ decision'[d].commit_hash = h /\ decision'[d].fixture_id = f
      /\ decision'[d].status = STATUS_OPEN /\ decision'[d].pnl = 0
      /\ ~decision'[d].entry_odds_proven
      /\ decision'[d] \in DecisionCommit
      /\ UNCHANGED scoresPosted
  BY <1>1, CommitDecisions
<1>3. /\ \A t \in DOMAIN strategy : t # s => strategy'[t] = strategy[t]
      /\ strategy'[s].txline_program = strategy[s].txline_program
  BY CommitStrategy
<1>4. PICK p \in Programs : p = strategy[s].txline_program
  BY DEF TypeOK, StrategyAccount
<1>5. d[1] = s
  BY <1>1 DEF NextKey
<1>6. decision'[d].entry_odds_proven = FALSE
  BY <1>2 DEF DecisionCommit
<1>7. BetOf(d)' = Promise!NewBet(p, f, h)
  <2>1. BetState(d)' = "open" /\ BetResult(d)' = 3
    BY <1>2 DEF BetState, BetResult, STATUS_OPEN, STATUS_SETTLED
  <2>2. strategy'[d[1]].txline_program = p
    BY <1>3, <1>4, <1>5
  <2> QED
    BY <1>2, <1>6, <2>1, <2>2 DEF BetOf, Promise!NewBet
<1>8. \A e \in DOMAIN decision : BetOf(e)' = BetOf(e)
  BY <1>2, <1>3, BetKept DEF LogBindsHistory
<1>9. Promise!Seal(d, p, f, h)
  BY <1>2, <1>7, <1>8, AttestedKept DEF Promise!Seal, BetsOfLedger
<1> QED
  BY <1>2, <1>9 DEF Promise!Next

\* What a seal fixes for a result is what compute_pnl pays for it.
LEMMA PayoutValue ==
  ASSUME NEW h \in Hashes, NEW side \in Sides
  PROVE  SealPayout[<<h, side>>] =
           compute_pnl(side = h.keccak.side, h.keccak.stake,
                       h.keccak.entry_odds_milli)
  BY DEF SealPayout

\* What the abstract steps write to a bet.
LEMMA BetSettled ==
  ASSUME NEW bet, NEW side, NEW new, new = Promise!SettledBet(bet, side),
         bet = [oracle |-> bet.oracle, fixture |-> bet.fixture,
                seal |-> bet.seal, state |-> bet.state, result |-> bet.result,
                paid |-> bet.paid, priceConfirmed |-> bet.priceConfirmed]
  PROVE  new =
           [oracle |-> bet.oracle, fixture |-> bet.fixture, seal |-> bet.seal,
            state |-> "settled", result |-> side,
            paid |-> SealPayout[<<bet.seal, side>>],
            priceConfirmed |-> bet.priceConfirmed]
  BY DEF Promise!SettledBet

LEMMA BetConfirmed ==
  ASSUME NEW bet, NEW new, new = Promise!ConfirmedBet(bet),
         bet = [oracle |-> bet.oracle, fixture |-> bet.fixture,
                seal |-> bet.seal, state |-> bet.state, result |-> bet.result,
                paid |-> bet.paid, priceConfirmed |-> bet.priceConfirmed]
  PROVE  new =
           [oracle |-> bet.oracle, fixture |-> bet.fixture, seal |-> bet.seal,
            state |-> bet.state, result |-> bet.result, paid |-> bet.paid,
            priceConfirmed |-> TRUE]
  BY DEF Promise!ConfirmedBet

LEMMA SettleRefines ==
  ASSUME TypeOK, LogBindsHistory, FeedsBounded, NEW a \in Authorities,
         NEW s \in DOMAIN strategy, NEW d \in DOMAIN decision,
         NEW r \in Reveals, settle_decision(a, s, d, r)
  PROVE  Promise!Next
<1>1. PICK side \in Sides, i \in 1..scoresPosted[strategy[s].txline_program],
           pnl \in Int :
        /\ d = <<s, decision[d].index>> /\ decision[d].status = STATUS_OPEN
        /\ RevealMatches(s, d, r)
        /\ ScoreProves(strategy[s].txline_program, i, decision[d].fixture_id,
                       side)
        /\ pnl = compute_pnl(side = r.side, r.stake, r.entry_odds_milli)
        /\ DOMAIN decision' = DOMAIN decision
        /\ \A e \in DOMAIN decision : e # d => decision'[e] = decision[e]
        /\ decision'[d].commit_hash = decision[d].commit_hash
        /\ decision'[d].fixture_id = decision[d].fixture_id
        /\ decision'[d].entry_odds_proven = decision[d].entry_odds_proven
        /\ decision'[d].status = STATUS_SETTLED
        /\ decision'[d].outcome_side = side /\ decision'[d].pnl = pnl
        /\ \A t \in DOMAIN strategy : t # s => strategy'[t] = strategy[t]
        /\ strategy'[s].txline_program = strategy[s].txline_program
        /\ UNCHANGED scoresPosted
  BY SettleEffect
<1> DEFINE p == strategy[s].txline_program
           f == decision[d].fixture_id
           h == decision[d].commit_hash
<1>2. /\ p \in Programs /\ f \in Fixtures /\ h \in Hashes /\ h.keccak = r
      /\ d[1] = s
  BY SMTT(30), <1>1 DEF TypeOK, StrategyAccount, DecisionCommit, RevealMatches,
              compute_commit_hash
<1>3. <<p, f, side>> \in Attested
  <2>1. i \in 1..Len(ScoreFeed[p])
    BY <1>1, <1>2, LedgerAssumption DEF FeedsBounded
  <2>2. ResultOf(ScoreFeed[p][i]) = side
    BY <1>1, <1>2, <2>1, ResultIsUnique DEF ScoreProves
  <2>3. AttestedBy(p, f, side)
    BY <1>1, <2>2 DEF AttestedBy, ScoreProves
  <2> QED
    BY <1>2, <2>3 DEF Attested
<1>4. SealPayout[<<h, side>>] = pnl
  BY <1>1, <1>2, PayoutValue
<1>5. BetOf(d) = [oracle |-> p, fixture |-> f, seal |-> h, state |-> "open",
                  result |-> 3, paid |-> decision[d].pnl,
                  priceConfirmed |-> decision[d].entry_odds_proven]
  BY <1>1, <1>2 DEF BetOf, BetState, BetResult, STATUS_OPEN, STATUS_SETTLED
<1>6. BetOf(d)' = [oracle |-> p, fixture |-> f, seal |-> h, state |-> "settled",
                   result |-> side, paid |-> pnl,
                   priceConfirmed |-> decision[d].entry_odds_proven]
  BY <1>1, <1>2 DEF BetOf, BetState, BetResult, STATUS_OPEN, STATUS_SETTLED
<1>7. BetOf(d)' = Promise!SettledBet(BetOf(d), side)
  BY <1>4, <1>5, <1>6, BetSettled
<1>8. BetsOfLedger' = [BetsOfLedger EXCEPT ![d] = BetOf(d)']
  <2>1. \A e \in DOMAIN decision :
          strategy'[e[1]].txline_program = strategy[e[1]].txline_program
    BY <1>1 DEF LogBindsHistory
  <2>2. PICK bet : bet = BetOf(d)'
    OBVIOUS
  <2> QED
    BY <1>1, <2>1, <2>2, OneBetChanges
<1>9. BetsOfLedger[d] = BetOf(d) /\ d \in DOMAIN BetsOfLedger
  BY DEF BetsOfLedger
<1>10. Promise!Settle(d, side)
  BY <1>1, <1>3, <1>5, <1>7, <1>8, <1>9, AttestedKept DEF Promise!Settle
<1> QED
  BY <1>9, <1>10 DEF Promise!Next

LEMMA ProveRefines ==
  ASSUME TypeOK, LogBindsHistory, NEW a \in Authorities,
         NEW s \in DOMAIN strategy, NEW d \in DOMAIN decision,
         NEW r \in Reveals, prove_entry_odds(a, s, d, r)
  PROVE  Promise!Next
<1>1. /\ decision[d].status = STATUS_SETTLED
      /\ DOMAIN decision' = DOMAIN decision
      /\ \A e \in DOMAIN decision : e # d => decision'[e] = decision[e]
      /\ decision'[d].commit_hash = decision[d].commit_hash
      /\ decision'[d].fixture_id = decision[d].fixture_id
      /\ decision'[d].status = decision[d].status
      /\ decision'[d].outcome_side = decision[d].outcome_side
      /\ decision'[d].pnl = decision[d].pnl
      /\ decision'[d].entry_odds_proven = TRUE
      /\ UNCHANGED <<strategy, scoresPosted>>
  BY ProveEffect
<1>2. ~decision[d].entry_odds_proven
  BY DEF prove_entry_odds, ProveAccounts
<1> DEFINE p == strategy[d[1]].txline_program
           f == decision[d].fixture_id
           h == decision[d].commit_hash
           side == decision[d].outcome_side
           pnl == decision[d].pnl
<1>3. BetOf(d) = [oracle |-> p, fixture |-> f, seal |-> h, state |-> "settled",
                  result |-> side, paid |-> pnl,
                  priceConfirmed |-> decision[d].entry_odds_proven]
  BY <1>1 DEF BetOf, BetState, BetResult, STATUS_OPEN, STATUS_SETTLED
<1>4. BetOf(d)' = [oracle |-> p, fixture |-> f, seal |-> h, state |-> "settled",
                   result |-> side, paid |-> pnl, priceConfirmed |-> TRUE]
  <2>1. BetState(d)' = "settled" /\ BetResult(d)' = side
    BY <1>1 DEF BetState, BetResult, STATUS_OPEN, STATUS_SETTLED
  <2> QED
    BY <1>1, <2>1 DEF BetOf
<1>5. BetOf(d)' = Promise!ConfirmedBet(BetOf(d))
  <2>1. PICK bet : bet = BetOf(d)
    OBVIOUS
  <2>2. PICK new : new = Promise!ConfirmedBet(bet)
    OBVIOUS
  <2>3. new = [oracle |-> bet.oracle, fixture |-> bet.fixture,
               seal |-> bet.seal, state |-> bet.state, result |-> bet.result,
               paid |-> bet.paid, priceConfirmed |-> TRUE]
    <3>1. bet = [oracle |-> bet.oracle, fixture |-> bet.fixture,
                 seal |-> bet.seal, state |-> bet.state, result |-> bet.result,
                 paid |-> bet.paid, priceConfirmed |-> bet.priceConfirmed]
      BY <1>3, <2>1
    <3> QED
      BY <2>2, <3>1, BetConfirmed
  <2>4. new = BetOf(d)'
    BY <1>3, <1>4, <2>1, <2>3
  <2> QED
    BY <2>1, <2>2, <2>4
<1>6. BetsOfLedger' = [BetsOfLedger EXCEPT ![d] = BetOf(d)']
  <2>1. PICK bet : bet = BetOf(d)'
    OBVIOUS
  <2> QED
    BY <1>1, <2>1, OneBetChanges
<1>7. BetsOfLedger[d] = BetOf(d) /\ d \in DOMAIN BetsOfLedger
  BY DEF BetsOfLedger
<1>8. Promise!ConfirmPrice(d)
  BY <1>1, <1>2, <1>3, <1>5, <1>6, <1>7, AttestedKept DEF Promise!ConfirmPrice
<1> QED
  BY <1>7, <1>8 DEF Promise!Next

LEMMA VoidRefines ==
  ASSUME TypeOK, LogBindsHistory, OpenIsUnpaid, NEW a \in Authorities,
         NEW s \in DOMAIN strategy, NEW d \in DOMAIN decision,
         NEW r \in Reveals, void_decision(a, s, d, r)
  PROVE  Promise!Next
<1>1. /\ d = <<s, decision[d].index>> /\ decision[d].status = STATUS_OPEN
      /\ DOMAIN decision' = DOMAIN decision
      /\ \A e \in DOMAIN decision : e # d => decision'[e] = decision[e]
      /\ decision'[d].commit_hash = decision[d].commit_hash
      /\ decision'[d].fixture_id = decision[d].fixture_id
      /\ decision'[d].entry_odds_proven = decision[d].entry_odds_proven
      /\ decision'[d].status = STATUS_VOID /\ decision'[d].pnl = 0
      /\ \A t \in DOMAIN strategy : t # s => strategy'[t] = strategy[t]
      /\ strategy'[s].txline_program = strategy[s].txline_program
      /\ UNCHANGED scoresPosted
  BY VoidEffect
<1> DEFINE p == strategy[s].txline_program
           f == decision[d].fixture_id
           h == decision[d].commit_hash
           proven == decision[d].entry_odds_proven
<1>2. decision[d].pnl = 0 /\ d[1] = s
  BY <1>1 DEF OpenIsUnpaid, Unpaid
<1>3. BetOf(d) = [oracle |-> p, fixture |-> f, seal |-> h, state |-> "open",
                  result |-> 3, paid |-> 0, priceConfirmed |-> proven]
  BY <1>1, <1>2 DEF BetOf, BetState, BetResult, STATUS_OPEN, STATUS_SETTLED
<1>4. BetOf(d)' = [oracle |-> p, fixture |-> f, seal |-> h, state |-> "void",
                   result |-> 3, paid |-> 0, priceConfirmed |-> proven]
  BY <1>1, <1>2 DEF BetOf, BetState, BetResult, STATUS_OPEN, STATUS_SETTLED,
                    STATUS_VOID
<1>5. BetOf(d)' = Promise!CancelledBet(BetOf(d))
  BY <1>3, <1>4 DEF Promise!CancelledBet
<1>6. BetsOfLedger' = [BetsOfLedger EXCEPT ![d] = BetOf(d)']
  <2>1. \A e \in DOMAIN decision :
          strategy'[e[1]].txline_program = strategy[e[1]].txline_program
    BY <1>1 DEF LogBindsHistory
  <2>2. PICK bet : bet = BetOf(d)'
    OBVIOUS
  <2> QED
    BY <1>1, <2>1, <2>2, OneBetChanges
<1>7. BetsOfLedger[d] = BetOf(d) /\ d \in DOMAIN BetsOfLedger
  BY DEF BetsOfLedger
<1>8. Promise!Cancel(d)
  BY <1>1, <1>3, <1>5, <1>6, <1>7, AttestedKept DEF Promise!Cancel
<1> QED
  BY <1>7, <1>8 DEF Promise!Next

LEMMA RefinementStep ==
  TypeOK /\ LogBindsHistory /\ FeedsBounded /\ OpenIsUnpaid /\ [Next]_vars
    => [Promise!Next]_<<BetsOfLedger, Attested>>
<1> SUFFICES ASSUME TypeOK, LogBindsHistory, FeedsBounded, OpenIsUnpaid,
                    [Next]_vars
             PROVE  Promise!Next \/ UNCHANGED <<BetsOfLedger, Attested>>
  OBVIOUS
<1>1. ASSUME NEW p \in Programs, PostScore(p)
      PROVE  Promise!Next
  <2>1. /\ FeedsBounded'
        /\ \A q \in Programs : scoresPosted[q] <= scoresPosted'[q]
    BY FeedsStep
  <2>2. \A q \in Programs : 1..scoresPosted[q] \subseteq 1..scoresPosted'[q]
    BY <2>1, LedgerAssumption DEF FeedsBounded
  <2>3. Attested \subseteq Attested'
    BY <2>2 DEF Attested, AttestedBy
  <2>4. UNCHANGED BetsOfLedger
    BY <1>1 DEF PostScore, BetsOfLedger, BetOf, BetState, BetResult
  <2> QED
    BY <2>3, <2>4 DEF Promise!Next, Promise!Attest
<1>2. CASE UNCHANGED <<strategy, decision, scoresPosted>>
  BY <1>2, AttestedKept DEF BetsOfLedger, BetOf, BetState, BetResult
<1>3. ASSUME NEW p \in Programs, PostOdds(p)
      PROVE  UNCHANGED <<strategy, decision, scoresPosted>>
  BY <1>3 DEF PostOdds
<1>4. Tick \/ UNCHANGED vars => UNCHANGED <<strategy, decision, scoresPosted>>
  BY DEF Tick, vars
<1>5. Initialize => UNCHANGED <<BetsOfLedger, Attested>>
  BY InitializeRefines DEF Initialize
<1>6. Commit => Promise!Next
  BY CommitRefines DEF Commit
<1>7. Settle => Promise!Next
  BY SettleRefines DEF Settle
<1>8. Prove => Promise!Next
  BY ProveRefines DEF Prove
<1>9. Void => Promise!Next
  BY VoidRefines DEF Void
<1> QED
  BY <1>1, <1>2, <1>3, <1>4, <1>5, <1>6, <1>7, <1>8, <1>9 DEF Next, Post

\* The ledger keeps the promise SealedBets states without accounts: a bet is
\* sealed once, ends at most once, void or with a result its own oracle attested
\* and the payout its seal fixes, and nothing else about it ever changes.
THEOREM LedgerImplementsSealedBets == Spec => ImplementsSealedBets
<1>1. Init => Promise!Init
  BY LedgerAssumption DEF Init, Promise!Init, BetsOfLedger, Attested, AttestedBy
<1>2. Init => OpenIsUnpaid
  BY DEF Init, OpenIsUnpaid
<1>3. Init => FeedsBounded
  BY LedgerAssumption DEF Init, FeedsBounded
<1>4. TypeOK /\ FeedsBounded /\ [Next]_vars => FeedsBounded'
  BY FeedsStep
<1> QED
  BY <1>1, <1>2, <1>3, <1>4, UnpaidStep, RefinementStep, LogIsBinding,
     TypeCorrect, PTL DEF Spec, ImplementsSealedBets, Promise!Spec

(***************************************************************************)
(*                                 The sink                                *)
(***************************************************************************)

(***************************************************************************)
(* The inductive invariant.                                                *)
(***************************************************************************)

Pending(tx) == [reveal |-> tx.reveal, onChainIndex |-> tx.index]

\* A reveal and an index that go together on chain.
Sealed(pending) ==
  LET d == <<Ours, pending.onChainIndex>> IN
  /\ pending.reveal \in Reveals /\ pending.onChainIndex \in Nat
  /\ pending.reveal.index = pending.onChainIndex
  /\ d \in DOMAIN decision
  /\ decision[d].commit_hash = compute_commit_hash(pending.reveal)

\* A reveal built for the decision at position p of this agent's run.
SealFor(reveal, p) ==
  /\ reveal.index \in Nat /\ reveal.nonce \in 1..nonces
  /\ reveal = buildRevealFromDecision(Decisions[p + 1], reveal.index, reveal.nonce)

CommitSound(tx, p) == tx = CommitTx(tx.reveal) /\ SealFor(tx.reveal, p)

SettleSound(tx) ==
  /\ tx = SettleTx(Pending(tx), tx.record) /\ Sealed(Pending(tx))
  /\ tx.record \in FinalRecords(tx.reveal.fixture_id)

ProveSound(tx) ==
  /\ tx = ProveTx(Pending(tx), tx.record, tx.side_index) /\ Sealed(Pending(tx))
  /\ tx.record \in 1..oddsPosted[Oracle] /\ tx.side_index \in 1..3

ScorePosted(tx) == tx.record \in 1..scoresPosted[Oracle]

TxSound(tx) ==
  \/ tx = InitializeTx
  \/ tx.kind = "commit" /\ \E p \in Positions : CommitSound(tx, p)
  \/ tx.kind = "settle" /\ SettleSound(tx) /\ ScorePosted(tx)
  \/ tx.kind = "prove" /\ ProveSound(tx)

\* Whatever is still in the air was built for this chain, before a restart or
\* after it.
FlyingSound == \A tx \in flying : TxSound(tx)

SettledOnChain(index) == decision[<<Ours, index>>].status = STATUS_SETTLED

InBoot ==
  task.op = "boot" =>
    /\ task.step \in {"boot", "down", "confirm"}
    /\ task.step = "confirm" => task.tx = InitializeTx

InCommit ==
  task.op = "commit" =>
    /\ task.step \in {"read", "check", "confirm"}
    /\ calls > 0 /\ task.pos = calls - 1 /\ task.pos \notin DOMAIN committed
    /\ task.step # "read" =>
         /\ CommitSound(task.tx, task.pos)
         /\ \A q \in DOMAIN committed :
              committed[q].reveal.nonce # task.tx.reveal.nonce
    /\ task.landed => task.step = "confirm" /\ Sealed(Pending(task.tx))

InSettle ==
  task.op = "settle" =>
    /\ task.step \in {"proof", "confirm", "readback", "discover"}
    /\ task.pos \in DOMAIN committed /\ task.pos \in settleCalls
    /\ task.tx = SettleTx(committed[task.pos], task.tx.record)
    /\ task.tx.record \in FinalRecords(task.tx.reveal.fixture_id)
    /\ store[task.pos].settled <=> task.step = "discover"
    /\ task.step = "confirm" => ScorePosted(task.tx)
    /\ task.landed \/ task.step \in {"readback", "discover"} =>
         SettledOnChain(task.tx.index)

InProve ==
  task.op = "prove" =>
    /\ task.step = "confirm" /\ task.pos \in DOMAIN committed
    /\ task.tx.index = committed[task.pos].onChainIndex
    /\ task.tx.kind = "prove" /\ store[task.pos].settled

\* What the call that is running knows.
TaskSound ==
  /\ task = [op |-> task.op, pos |-> task.pos, step |-> task.step,
             tx |-> task.tx, landed |-> task.landed]
  /\ task.op \in {"none", "boot", "commit", "settle", "prove"}
  /\ task.landed \in BOOLEAN
  /\ task.op = "none" => task = Idle
  /\ InBoot /\ InCommit /\ InSettle /\ InProve

\* What the agent remembers of its commits.
MemorySound ==
  /\ \A p \in DOMAIN committed :
       /\ Sealed(committed[p]) /\ SealFor(committed[p].reveal, p)
       /\ store[p].onChainIndex = committed[p].onChainIndex
  /\ \A p, q \in DOMAIN committed :
       p # q => committed[p].reveal.nonce # committed[q].reveal.nonce

Shown(p) ==
  LET x == decision[<<Ours, store[p].onChainIndex>>] IN
  /\ store[p].settled => /\ p \in settleCalls
                         /\ x.status = STATUS_SETTLED /\ x.pnl = store[p].pnl
                         /\ store[p].won <=> x.outcome_side = Decisions[p + 1].side
  /\ store[p].proven => x.entry_odds_proven

\* What the store shows.
StoreSound == \A p \in DOMAIN store : Shown(p)

PnlsShown == [p \in SettledInStore |-> store[p].pnl]

SumSound == realizedPnl = SumFunction(PnlsShown)

\* Every call that was made has been answered, or is running.
Answered ==
  /\ \A p \in 0..calls - 1 :
       \/ p \in DOMAIN store \/ <<"commit", p>> \in errors
       \/ task.op = "commit" /\ task.pos = p
  /\ \A p \in settleCalls :
       \/ p \in SettledInStore \/ <<"settle", p>> \in errors
       \/ task.op = "settle" /\ task.pos = p

ChainTyped == TypeOK /\ FeedsBounded /\ OddsBounded

SinkInv ==
  /\ ChainTyped /\ SinkTypeOK /\ FlyingSound /\ TaskSound /\ MemorySound
  /\ StoreSound /\ SumSound /\ Answered /\ SettledOnFinalRecord
----------------------------------------------------------------------------
(***************************************************************************)
(* The chain is a ledger.                                                  *)
(***************************************************************************)

\* The kinds of transactions exclude each other.
LEMMA Kinds ==
  ASSUME NEW tx, TxSound(tx)
  PROVE  /\ tx.kind \in {"initialize", "commit", "settle", "prove"}
         /\ tx.kind = "commit" => \E p \in Positions : CommitSound(tx, p)
         /\ tx.kind = "settle" => SettleSound(tx) /\ ScorePosted(tx)
         /\ tx.kind = "prove" => ProveSound(tx)
<1>1. InitializeTx.kind = "initialize"
  BY DEF InitializeTx
<1> QED
  BY <1>1, Zenon DEF TxSound

LEMMA PositionsOfDecisions ==
  ASSUME NEW p \in Positions
  PROVE  p \in Nat /\ p + 1 \in DOMAIN Decisions
  BY SinkAssumption DEF Positions

\* A reveal that fits the ledger is one of the seals it knows.
LEMMA RevealIsKnown ==
  ASSUME NEW r, NEW p \in Positions, SealFor(r, p), r.index < MaxDecisions,
         nonces \in 0..MaxNonce
  PROVE  r \in Reveals
<1>1. r.index \in 0..MaxDecisions - 1
  BY LedgerAssumption DEF SealFor
<1>2. r.nonce \in 1..MaxNonce
  BY SinkAssumption DEF SealFor
<1> QED
  BY <1>1, <1>2, PositionsOfDecisions, SealsAssumption, Zenon DEF SealFor

LEMMA SealIsHash ==
  ASSUME NEW r \in Reveals
  PROVE  /\ compute_commit_hash(r) \in Hashes
         /\ r.fixture_id \in Fixtures /\ r.market \in Markets
<1>1. r \in RevealArgs
  BY LedgerAssumption
<1> QED
  BY <1>1 DEF RevealArgs, Hashes, compute_commit_hash

LEMMA OursTyped ==
  /\ Ours = <<Agent, StrategyId>> /\ Ours \in StrategyKeys
  /\ Agent \in Authorities /\ StrategyId \in StrategyIds
  /\ Oracle \in Programs
<1>1. Ours \in Authorities \X StrategyIds
  BY SinkAssumption DEF StrategyKeys
<1> QED
  BY <1>1, SinkAssumption DEF Ours

LEMMA LandCommitIsCommit ==
  ASSUME ChainTyped, SinkTypeOK, NEW tx, TxSound(tx), tx.kind = "commit", LandCommit(tx)
  PROVE  /\ tx.reveal \in Reveals /\ tx.index \in Nat /\ tx.reveal.index = tx.index
         /\ Ours \in DOMAIN strategy /\ strategy[Ours].decisions_count = tx.index
         /\ compute_commit_hash(tx.reveal) \in Hashes
         /\ tx.reveal.fixture_id \in Fixtures /\ tx.reveal.market \in Markets
         /\ commit_decision(Agent, Ours, compute_commit_hash(tx.reveal),
                            tx.reveal.fixture_id, tx.reveal.market)
<1>1. PICK p \in Positions : CommitSound(tx, p)
  BY Kinds
<1>2. tx.index = tx.reveal.index /\ tx.index \in Nat
  <2>1. CommitTx(tx.reveal).index = tx.reveal.index
    BY DEF CommitTx
  <2> QED
    BY <1>1, <2>1, Zenon DEF CommitSound, SealFor
<1>3. tx.index < MaxDecisions
  BY DEF LandCommit, commit_decision
<1>4. tx.reveal \in Reveals
  BY <1>1, <1>2, <1>3, RevealIsKnown, Zenon DEF CommitSound, SinkTypeOK
<1> QED
  BY <1>2, <1>4, SealIsHash, Zenon DEF LandCommit

\* The score a settlement is sent with is one the oracle posted.
LEMMA LandSettleIsSettle ==
  ASSUME ChainTyped, NEW tx, TxSound(tx), tx.kind = "settle", LandSettle(tx)
  PROVE  /\ tx.reveal \in Reveals /\ tx.index \in Nat
         /\ Ours \in DOMAIN strategy /\ <<Ours, tx.index>> \in DOMAIN decision
         /\ settle_decision(Agent, Ours, <<Ours, tx.index>>, tx.reveal)
<1> DEFINE d == <<Ours, tx.index>>
           record == ScoreFeed[Oracle][tx.record]
           home == <<STAT_KEY_PARTICIPANT1, FULL_GAME_PERIOD>>
           away == <<STAT_KEY_PARTICIPANT2, FULL_GAME_PERIOD>>
<1>1. SettleSound(tx) /\ tx.record \in 1..scoresPosted[Oracle]
  BY Kinds DEF ScorePosted
<1>2. tx.reveal \in Reveals /\ tx.index \in Nat
  <2>1. Pending(tx).reveal = tx.reveal /\ Pending(tx).onChainIndex = tx.index
    BY DEF Pending
  <2> QED
    BY <1>1, <2>1, Zenon DEF SettleSound, Sealed
<1>3. /\ SettleAccounts(Agent, Ours, d, tx.reveal)
      /\ settle_with(Ours, d, tx.reveal, Oracle, record.ts, claimedResult(record),
                     tx.record, home, away)
      /\ UNCHANGED <<now, scoresPosted, oddsPosted>>
  BY Zenon DEF LandSettle
<1>4. record.ts \in Timestamps
  <2>1. scoresPosted[Oracle] \in 0..Len(ScoreFeed[Oracle])
    BY OursTyped DEF ChainTyped, FeedsBounded
  <2>2. ScoreFeed[Oracle] \in Seq(ScoreRecord)
    BY LedgerAssumption, OursTyped
  <2>3. tx.record \in DOMAIN ScoreFeed[Oracle]
    BY <1>1, <2>1, <2>2
  <2> QED
    BY <2>3, SinkAssumption
<1>5. claimedResult(record) \in 0..3
  BY DEF claimedResult, SIDE_HOME, SIDE_DRAW, SIDE_AWAY
<1>6. home \in StatTerms /\ away \in StatTerms
  BY DEF StatTerms, StatKeys, Periods
<1>7. settle_decision(Agent, Ours, d, tx.reveal)
  <2> HIDE DEF d, record, home, away
  <2> QED
    BY <1>1, <1>3, <1>4, <1>5, <1>6, OursTyped, Zenon DEF settle_decision
<1>8. Ours \in DOMAIN strategy /\ d \in DOMAIN decision
  BY <1>3, Zenon DEF SettleAccounts, DecisionAccounts, StrategyAccounts
<1> QED
  BY <1>2, <1>7, <1>8

LEMMA LandProveIsProve ==
  ASSUME ChainTyped, NEW tx, TxSound(tx), tx.kind = "prove", LandProve(tx)
  PROVE  /\ tx.reveal \in Reveals /\ tx.index \in Nat
         /\ Ours \in DOMAIN strategy /\ <<Ours, tx.index>> \in DOMAIN decision
         /\ prove_entry_odds(Agent, Ours, <<Ours, tx.index>>, tx.reveal)
<1> DEFINE d == <<Ours, tx.index>>
           stamp == OddsFeed[Oracle][tx.record].ts
<1>1. ProveSound(tx)
  BY Kinds
<1>2. tx.reveal \in Reveals /\ tx.index \in Nat
  <2>1. Pending(tx).reveal = tx.reveal /\ Pending(tx).onChainIndex = tx.index
    BY DEF Pending
  <2> QED
    BY <1>1, <2>1, Zenon DEF ProveSound, Sealed
<1>3. /\ ProveAccounts(Agent, Ours, d, tx.reveal)
      /\ prove_with(Ours, d, tx.reveal, Oracle, stamp, tx.record, tx.side_index)
      /\ decision' = [decision EXCEPT ![d] = Proven(@)]
      /\ UNCHANGED <<strategy, now, scoresPosted, oddsPosted>>
  BY Zenon DEF LandProve
<1>4. tx.record \in 1..oddsPosted[Oracle] /\ tx.side_index \in 1..4
  BY <1>1 DEF ProveSound
<1>5. stamp \in Timestamps
  <2>1. oddsPosted[Oracle] \in 0..Len(OddsFeed[Oracle])
    BY OursTyped DEF ChainTyped, OddsBounded
  <2>2. OddsFeed[Oracle] \in Seq(OddsRecord)
    BY LedgerAssumption, OursTyped
  <2>3. tx.record \in DOMAIN OddsFeed[Oracle]
    BY <1>4, <2>1, <2>2
  <2> QED
    BY <2>3, SinkAssumption
<1>6. prove_entry_odds(Agent, Ours, d, tx.reveal)
  <2> HIDE DEF d, stamp
  <2> QED
    BY <1>3, <1>4, <1>5, OursTyped, Zenon DEF prove_entry_odds
<1>7. Ours \in DOMAIN strategy /\ d \in DOMAIN decision
  BY <1>3, Zenon DEF ProveAccounts, DecisionAccounts, StrategyAccounts
<1> QED
  BY <1>2, <1>6, <1>7

LEMMA LandIsLedger ==
  ASSUME ChainTyped, SinkTypeOK, FlyingSound, NEW tx \in flying, Land(tx)
  PROVE  Next
<1>1. TxSound(tx)
  BY DEF FlyingSound
<1>2. CASE initialize_strategy(Agent, StrategyId, Oracle, StartingBankroll)
  BY <1>2, OursTyped, SinkAssumption, Zenon DEF Next, Initialize
<1>3. CASE tx.kind = "commit" /\ LandCommit(tx)
  BY <1>1, <1>3, LandCommitIsCommit, OursTyped, Zenon DEF Next, Commit
<1>4. CASE tx.kind = "settle" /\ LandSettle(tx)
  BY <1>1, <1>4, LandSettleIsSettle, OursTyped, Zenon DEF Next, Settle
<1>5. CASE tx.kind = "prove" /\ LandProve(tx)
  BY <1>1, <1>5, LandProveIsProve, OursTyped, Zenon DEF Next, Prove
<1> QED
  BY <1>2, <1>3, <1>4, <1>5, Zenon DEF Land

LEMMA OtherCommitIsLedger ==
  ASSUME OtherCommit
  PROVE  /\ Next /\ Ours \in DOMAIN strategy /\ compute_commit_hash(Foreign) \in Hashes
         /\ Foreign.fixture_id \in Fixtures /\ Foreign.market \in Markets
  BY SealIsHash, SinkAssumption, OursTyped, Zenon DEF OtherCommit, Next, Commit

\* Every step of the sink and its surroundings is one of the ledger or leaves
\* the chain alone.
LEMMA LedgerStep ==
  ASSUME ChainTyped, SinkTypeOK, FlyingSound, [SinkNext]_<<vars, sink_vars>>
  PROVE  [Next]_vars
<1>1. CASE \E tx \in flying : Land(tx)
  BY <1>1, LandIsLedger, Zenon
<1>2. CASE OtherCommit
  BY <1>2, OtherCommitIsLedger, Zenon
<1>3. CASE PostScore(Oracle) \/ PostOdds(Oracle) \/ Tick
  BY <1>3, OursTyped, Zenon DEF Next, Post
<1>4. CASE bootstrap \/ BootConfirmed \/ Restart \/ CommitCall \/ SettleCall
  BY <1>4, Zenon DEF bootstrap, BootConfirmed, Restart, CommitCall, SettleCall, onCommit,
     SealDecision, PortCommit, CommitConfirmed, onSettle, FetchProof, SettleConfirmed,
     ReadDecision, DiscoverEntryOdds, ProveConfirmed
<1>5. CASE UNCHANGED vars
  BY <1>5
<1> QED
  BY <1>1, <1>2, <1>3, <1>4, <1>5, Zenon DEF SinkNext, World
----------------------------------------------------------------------------
(***************************************************************************)
(* What the chain keeps.                                                   *)
(***************************************************************************)

Grown ==
  /\ \A d \in DOMAIN decision :
       /\ d \in DOMAIN decision'
       /\ decision'[d].commit_hash = decision[d].commit_hash
       /\ decision'[d].fixture_id = decision[d].fixture_id
       /\ decision[d].entry_odds_proven => decision'[d].entry_odds_proven
       /\ decision[d].status = STATUS_SETTLED =>
            /\ decision'[d].status = STATUS_SETTLED
            /\ decision'[d].outcome_side = decision[d].outcome_side
            /\ decision'[d].pnl = decision[d].pnl
  /\ \A n \in 1..scoresPosted[Oracle] : n \in 1..scoresPosted'[Oracle]
  /\ \A n \in 1..oddsPosted[Oracle] : n \in 1..oddsPosted'[Oracle]
  /\ \A n \in 1..nonces : n \in 1..nonces'

LEMMA ChainGrows ==
  ASSUME ChainTyped, [Next]_vars, nonces \in Nat, nonces' \in Nat, nonces <= nonces'
  PROVE  ChainTyped' /\ Grown
<1>1. ChainTyped'
  BY TypeStep, FeedsStep, OddsStep DEF ChainTyped
<1>2. Advance \/ UNCHANGED <<strategy, decision>>
  BY AdvanceStep DEF ChainTyped
<1>3. \A n \in 1..scoresPosted[Oracle] : n \in 1..scoresPosted'[Oracle]
  <2>1. scoresPosted[Oracle] <= scoresPosted'[Oracle]
    BY FeedsStep, OursTyped DEF ChainTyped
  <2>2. scoresPosted[Oracle] \in Nat /\ scoresPosted'[Oracle] \in Nat
    BY <1>1, OursTyped DEF ChainTyped, TypeOK
  <2> QED
    BY <2>1, <2>2
<1>4. \A n \in 1..oddsPosted[Oracle] : n \in 1..oddsPosted'[Oracle]
  <2>1. oddsPosted[Oracle] <= oddsPosted'[Oracle]
    BY OddsStep, OursTyped DEF ChainTyped
  <2>2. oddsPosted[Oracle] \in Nat /\ oddsPosted'[Oracle] \in Nat
    BY <1>1, OursTyped DEF ChainTyped, TypeOK
  <2> QED
    BY <2>1, <2>2
<1>5. \A n \in 1..nonces : n \in 1..nonces'
  OBVIOUS
<1>6. STATUS_SETTLED # STATUS_OPEN
  BY DEF STATUS_SETTLED, STATUS_OPEN
<1>7. CASE Advance
  BY <1>1, <1>3, <1>4, <1>5, <1>6, <1>7, Zenon DEF Advance, Grown
<1>8. CASE UNCHANGED <<strategy, decision>>
  BY <1>1, <1>3, <1>4, <1>5, <1>8, Zenon DEF Grown
<1> QED
  BY <1>2, <1>7, <1>8

LEMMA StillGrows ==
  ASSUME UNCHANGED vars, UNCHANGED nonces
  PROVE  Grown
  BY Zenon DEF vars, Grown

LEMMA SealedStays ==
  ASSUME Grown, NEW x, Sealed(x)
  PROVE  Sealed(x)'
  BY Zenon DEF Grown, Sealed

LEMMA TxStays ==
  ASSUME Grown, NEW tx, TxSound(tx)
  PROVE  TxSound(tx)'
<1>1. Pending(tx)' = Pending(tx)
  BY DEF Pending
<1>2. Sealed(Pending(tx)) => Sealed(Pending(tx))'
  BY Zenon DEF Grown, Sealed, Pending
<1>3. SettleSound(tx) /\ ScorePosted(tx) => SettleSound(tx)' /\ ScorePosted(tx)'
  BY <1>2, Zenon DEF SettleSound, ScorePosted, Grown
<1>4. ProveSound(tx) => ProveSound(tx)'
  BY <1>2, Zenon DEF ProveSound, Grown
<1>5. ASSUME NEW p \in Positions, CommitSound(tx, p)
      PROVE  CommitSound(tx, p)'
  BY <1>5, Zenon DEF CommitSound, SealFor, Grown
<1> QED
  BY <1>3, <1>4, <1>5, Zenon DEF TxSound

LEMMA FlyingStays ==
  ASSUME FlyingSound, Grown, \A tx \in flying' : tx \in flying \/ TxSound(tx)'
  PROVE  FlyingSound'
  BY TxStays, Zenon DEF FlyingSound

(***************************************************************************)
(* Steps that leave what the run remembers alone.                          *)
(***************************************************************************)

RunKept == UNCHANGED <<calls, settleCalls, committed, store, realizedPnl, restarts>>

LEMMA MemoryStays ==
  ASSUME MemorySound, Grown, UNCHANGED committed,
         \A p \in DOMAIN committed : store'[p].onChainIndex = store[p].onChainIndex
  PROVE  MemorySound'
<1>1. ASSUME NEW p \in DOMAIN committed
      PROVE  Sealed(committed[p])' /\ SealFor(committed[p].reveal, p)'
  BY Zenon DEF MemorySound, Grown, Sealed, SealFor
<1> QED
  BY <1>1, Zenon DEF MemorySound

\* What is shown of a position stays true while its own entry is kept.
LEMMA ShownStays ==
  ASSUME SinkTypeOK, MemorySound, Grown, settleCalls \subseteq settleCalls',
         NEW p \in DOMAIN store, store'[p] = store[p], Shown(p)
  PROVE  Shown(p)'
<1>1. <<Ours, store[p].onChainIndex>> \in DOMAIN decision
  BY Zenon DEF SinkTypeOK, MemorySound, Sealed
<1> QED
  BY <1>1, Zenon DEF Shown, Grown

LEMMA StoreStays ==
  ASSUME SinkTypeOK, MemorySound, StoreSound, Grown, UNCHANGED <<settleCalls, store>>
  PROVE  StoreSound'
  BY ShownStays, Zenon DEF StoreSound

LEMMA SumStays ==
  ASSUME SumSound, UNCHANGED <<store, realizedPnl>>
  PROVE  SumSound'
  BY Zenon DEF SumSound, PnlsShown, SettledInStore

LEMMA TypeStays ==
  ASSUME SinkTypeOK, RunKept, UNCHANGED nonces,
         task'.op \in {"none", "boot", "commit", "settle", "prove"},
         task'.step \in {"idle", "boot", "down", "read", "check", "proof", "confirm",
                         "readback", "discover"},
         errors' \subseteq {"commit", "settle", "prove-odds"} \X Positions
  PROVE  SinkTypeOK'
  BY Zenon DEF SinkTypeOK, RunKept, StoreView

LEMMA ResultsStay ==
  ASSUME UNCHANGED decision, SettledOnFinalRecord
  PROVE  SettledOnFinalRecord'
  BY Zenon DEF SettledOnFinalRecord, WithStatus, DecisionsOf

TaskTyped ==
  /\ task.op \in {"none", "boot", "commit", "settle", "prove"}
  /\ task.step \in {"idle", "boot", "down", "read", "check", "proof", "confirm",
                    "readback", "discover"}

\* A step of a call that only moves the call along.
LEMMA QuietStep ==
  ASSUME SinkInv, UNCHANGED vars, RunKept, UNCHANGED nonces, TaskTyped', TaskSound',
         \A tx \in flying' : tx \in flying \/ TxSound(tx)',
         errors' \subseteq {"commit", "settle", "prove-odds"} \X Positions, Answered'
  PROVE  SinkInv'
<1>1. Grown
  BY StillGrows
<1>2. ChainTyped'
  <2>1. UNCHANGED <<strategy, decision, now, scoresPosted, oddsPosted>>
    BY DEF vars
  <2> QED
    BY <2>1, Zenon DEF SinkInv, ChainTyped, TypeOK, FeedsBounded, OddsBounded
<1>3. SinkTypeOK'
  BY TypeStays, Zenon DEF SinkInv, TaskTyped
<1>4. FlyingSound'
  BY <1>1, FlyingStays, Zenon DEF SinkInv
<1>5. MemorySound'
  BY <1>1, MemoryStays, Zenon DEF SinkInv, RunKept
<1>6. StoreSound' /\ SumSound'
  BY <1>1, StoreStays, SumStays, Zenon DEF SinkInv, RunKept
<1>7. SettledOnFinalRecord'
  BY ResultsStay, Zenon DEF SinkInv, vars
<1> QED
  BY <1>2, <1>3, <1>4, <1>5, <1>6, <1>7, Zenon DEF SinkInv

LEMMA TaskIdle == ASSUME task' = Idle PROVE TaskTyped' /\ TaskSound'
<1>1. /\ task'.op = "none" /\ task'.step = "idle" /\ task'.landed = FALSE
      /\ task' = [op |-> task'.op, pos |-> task'.pos, step |-> task'.step,
                  tx |-> task'.tx, landed |-> task'.landed]
  BY DEF Idle, Call
<1> QED
  BY <1>1 DEF TaskTyped, TaskSound, InBoot, InCommit, InSettle, InProve

\* The position a call is about.
LEMMA TaskPosition ==
  ASSUME SinkTypeOK, TaskSound, task.op \in {"commit", "settle", "prove"}
  PROVE  task.pos \in 0..calls - 1 /\ task.pos \in Positions
<1>1. calls \in 0..Len(Decisions) /\ Len(Decisions) \in Nat
  BY SinkAssumption DEF SinkTypeOK
<1>2. \A p \in 0..calls - 1 : p \in Positions
  BY <1>1 DEF Positions
<1>3. CASE task.op = "commit"
  <2>1. calls > 0 /\ task.pos = calls - 1
    BY <1>3, Zenon DEF TaskSound, InCommit
  <2> QED
    BY <1>1, <1>2, <2>1
<1>4. CASE task.op \in {"settle", "prove"}
  <2>1. task.pos \in DOMAIN committed
    BY <1>4 DEF TaskSound, InSettle, InProve
  <2> QED
    BY <1>2, <2>1, Zenon DEF SinkTypeOK
<1> QED
  BY <1>3, <1>4

\* A call that fails leaves its stage and position among the errors.
LEMMA FailStep ==
  ASSUME SinkInv, NEW stage \in {"commit", "settle", "prove-odds"}, fail(stage),
         UNCHANGED <<vars, flying, nonces>>, RunKept,
         task.op \in {"commit", "settle", "prove"},
         task.op = "commit" => stage = "commit",
         task.op = "settle" /\ task.step # "discover" => stage = "settle"
  PROVE  SinkInv'
<1>1. task' = Idle /\ errors' = errors \cup {<<stage, task.pos>>}
  BY DEF fail
<1>2. TaskTyped' /\ TaskSound'
  BY <1>1, TaskIdle
<1>3. errors' \subseteq {"commit", "settle", "prove-odds"} \X Positions
  <2>1. task.pos \in Positions
    BY TaskPosition, Zenon DEF SinkInv
  <2> QED
    BY <1>1, <2>1 DEF SinkInv, SinkTypeOK
<1>4. Answered'
  <2>1. ASSUME NEW p \in 0..calls - 1
        PROVE  p \in DOMAIN store \/ <<"commit", p>> \in errors'
    <3>1. CASE task.op = "commit" /\ task.pos = p
      BY <1>1, <3>1
    <3>2. CASE p \in DOMAIN store \/ <<"commit", p>> \in errors
      BY <1>1, <3>2
    <3> QED
      BY <3>1, <3>2 DEF SinkInv, Answered
  <2>2. ASSUME NEW p \in settleCalls
        PROVE  p \in SettledInStore \/ <<"settle", p>> \in errors'
    <3>1. CASE task.op = "settle" /\ task.pos = p /\ task.step # "discover"
      BY <1>1, <3>1
    <3>2. CASE p \in SettledInStore \/ <<"settle", p>> \in errors
      BY <1>1, <3>2
    <3>3. CASE task.op = "settle" /\ task.pos = p /\ task.step = "discover"
      <4>1. p \in DOMAIN store /\ store[p].settled
        BY <3>3 DEF SinkInv, TaskSound, InSettle, SinkTypeOK
      <4> QED
        BY <4>1 DEF SettledInStore
    <3> QED
      BY <3>1, <3>2, <3>3 DEF SinkInv, Answered
  <2>3. SettledInStore' = SettledInStore
    BY DEF SettledInStore, RunKept
  <2> QED
    BY <2>1, <2>2, <2>3, Zenon DEF Answered, RunKept
<1> QED
  BY <1>2, <1>3, <1>4, QuietStep, Zenon

\* A call that returns without an error owes nothing.
LEMMA ReturnStep ==
  ASSUME SinkInv, return, UNCHANGED <<vars, flying, nonces>>, RunKept,
         task.op \in {"boot", "settle"}, task.op = "settle" => task.step = "discover"
  PROVE  SinkInv'
<1>1. task' = Idle /\ errors' = errors
  BY DEF return
<1>2. TaskTyped' /\ TaskSound'
  BY <1>1, TaskIdle
<1>3. Answered'
  <2>1. ASSUME NEW p \in settleCalls
        PROVE  p \in SettledInStore \/ <<"settle", p>> \in errors
    <3>1. CASE task.op = "settle" /\ task.pos = p
      <4>1. p \in DOMAIN store /\ store[p].settled
        BY <3>1 DEF SinkInv, TaskSound, InSettle, SinkTypeOK
      <4> QED
        BY <4>1 DEF SettledInStore
    <3> QED
      BY <3>1 DEF SinkInv, Answered
  <2>2. \A p \in 0..calls - 1 : p \in DOMAIN store \/ <<"commit", p>> \in errors
    BY DEF SinkInv, Answered
  <2>3. SettledInStore' = SettledInStore
    BY DEF SettledInStore, RunKept
  <2> QED
    BY <1>1, <2>1, <2>2, <2>3, Zenon DEF Answered, RunKept
<1>4. errors' \subseteq {"commit", "settle", "prove-odds"} \X Positions
  BY <1>1, Zenon DEF SinkInv, SinkTypeOK
<1> QED
  BY <1>2, <1>3, <1>4, QuietStep, Zenon

\* A call that goes on still owes what it owed.
LEMMA MoveStep ==
  ASSUME SinkInv, UNCHANGED <<vars, nonces, errors>>, RunKept,
         task'.op = task.op \/ task.op = "boot", task'.pos = task.pos,
         TaskTyped', TaskSound', \A tx \in flying' : tx \in flying \/ TxSound(tx)'
  PROVE  SinkInv'
<1>1. errors' \subseteq {"commit", "settle", "prove-odds"} \X Positions
  BY Zenon DEF SinkInv, SinkTypeOK
<1>2. SettledInStore' = SettledInStore
  BY DEF SettledInStore, RunKept
<1>3. task.op = "commit" => task'.op = "commit"
  OBVIOUS
<1>4. task.op = "settle" => task'.op = "settle"
  OBVIOUS
<1>5. Answered'
  BY <1>2, <1>3, <1>4, Zenon DEF SinkInv, Answered, RunKept
<1> QED
  BY <1>1, <1>5, QuietStep, Zenon
----------------------------------------------------------------------------
(***************************************************************************)
(* Every step of a call keeps the invariant.                               *)
(***************************************************************************)

\* The step a call is at tells which call it is.
LEMMA CallOfStep ==
  ASSUME TaskSound
  PROVE  /\ task.step = "boot" => task.op = "boot"
         /\ task.step \in {"read", "check"} => task.op = "commit"
         /\ task.step \in {"proof", "readback", "discover"} => task.op = "settle"
<1>1. Idle.step = "idle"
  BY DEF Idle, Call
<1>2. task.op = "none" => task.step = "idle"
  BY <1>1, Zenon DEF TaskSound
<1>3. task.op = "boot" => task.step \in {"boot", "down", "confirm"}
  BY Zenon DEF TaskSound, InBoot
<1>4. task.op = "commit" => task.step \in {"read", "check", "confirm"}
  BY Zenon DEF TaskSound, InCommit
<1>5. task.op = "settle" => task.step \in {"proof", "confirm", "readback", "discover"}
  BY Zenon DEF TaskSound, InSettle
<1>6. task.op = "prove" => task.step = "confirm"
  BY Zenon DEF TaskSound, InProve
<1>7. task.op \in {"none", "boot", "commit", "settle", "prove"}
  BY Zenon DEF TaskSound
<1> QED
  BY <1>2, <1>3, <1>4, <1>5, <1>6, <1>7

LEMMA StillStep ==
  ASSUME SinkInv, UNCHANGED vars, nonces' \in Nat, nonces <= nonces'
  PROVE  Grown /\ ChainTyped' /\ SettledOnFinalRecord'
<1>1. nonces \in Nat
  BY SinkAssumption DEF SinkInv, SinkTypeOK
<1>2. Grown /\ ChainTyped'
  BY <1>1, ChainGrows, Zenon DEF SinkInv
<1>3. SettledOnFinalRecord'
  BY ResultsStay, Zenon DEF SinkInv, vars
<1> QED
  BY <1>2, <1>3

\* What a task that is sent a transaction looks like.
LEMMA SentTask ==
  ASSUME TaskSound, NEW tx, sendInstructions(tx)
  PROVE  /\ task'.op = task.op /\ task'.pos = task.pos /\ task'.step = "confirm"
         /\ task'.tx = tx /\ task'.landed = FALSE
         /\ task' = [op |-> task'.op, pos |-> task'.pos, step |-> task'.step,
                     tx |-> task'.tx, landed |-> task'.landed]
         /\ \A t \in flying' : t \in flying \/ t = tx
         /\ UNCHANGED errors
<1>1. /\ task = [op |-> task.op, pos |-> task.pos, step |-> task.step,
                 tx |-> task.tx, landed |-> task.landed]
      /\ task' = [task EXCEPT !.step = "confirm", !.tx = tx, !.landed = FALSE]
      /\ flying' = flying \cup {tx} /\ UNCHANGED errors
  BY Zenon DEF TaskSound, sendInstructions
<1> QED
  BY <1>1

LEMMA BootStep == ASSUME SinkInv, bootstrap PROVE SinkInv'
<1>1. /\ UNCHANGED <<vars, calls, settleCalls, committed, store, realizedPnl, nonces,
                     restarts>>
      /\ RunKept /\ task.step = "boot" /\ task.op = "boot"
  BY CallOfStep, Zenon DEF bootstrap, SinkInv, RunKept
<1>2. CASE task' = Down /\ UNCHANGED <<flying, errors>>
  <2>1. /\ task'.op = "boot" /\ task'.step = "down" /\ task'.pos = 0
        /\ task'.landed = FALSE
        /\ task' = [op |-> task'.op, pos |-> task'.pos, step |-> task'.step,
                    tx |-> task'.tx, landed |-> task'.landed]
    BY <1>2 DEF Down, Call
  <2>2. TaskTyped' /\ TaskSound'
    BY <2>1 DEF TaskTyped, TaskSound, InBoot, InCommit, InSettle, InProve
  <2>3. errors' \subseteq {"commit", "settle", "prove-odds"} \X Positions
    BY <1>2, Zenon DEF SinkInv, SinkTypeOK
  <2>4. SettledInStore' = SettledInStore
    BY <1>1 DEF SettledInStore
  <2>5. task.op # "commit" /\ task.op # "settle"
    BY <1>1
  <2>6. Answered'
    BY <1>1, <1>2, <2>4, <2>5, Zenon DEF SinkInv, Answered
  <2> QED
    BY <1>1, <1>2, <2>2, <2>3, <2>6, QuietStep, Zenon
<1>3. CASE return /\ UNCHANGED flying
  BY <1>1, <1>3, ReturnStep, Zenon
<1>4. CASE sendInstructions(InitializeTx)
  <2>1. TaskSound
    BY DEF SinkInv
  <2>2. TaskTyped' /\ TaskSound'
    BY <1>1, <1>4, <2>1, SentTask
       DEF TaskTyped, TaskSound, InBoot, InCommit, InSettle, InProve
  <2>3. TxSound(InitializeTx)'
    BY DEF TxSound, InitializeTx
  <2> QED
    BY <1>1, <1>4, <2>1, <2>2, <2>3, SentTask, MoveStep, Zenon
<1> QED
  BY <1>2, <1>3, <1>4, Zenon DEF bootstrap

LEMMA BootConfirmedStep == ASSUME SinkInv, BootConfirmed PROVE SinkInv'
<1>1. /\ UNCHANGED <<vars, calls, settleCalls, committed, store, realizedPnl, flying,
                     nonces, restarts>>
      /\ RunKept /\ task.op = "boot"
  BY Zenon DEF BootConfirmed, RunKept
<1>2. CASE task' = Down /\ UNCHANGED errors
  <2>1. /\ task'.op = "boot" /\ task'.step = "down" /\ task'.pos = 0
        /\ task'.landed = FALSE
        /\ task' = [op |-> task'.op, pos |-> task'.pos, step |-> task'.step,
                    tx |-> task'.tx, landed |-> task'.landed]
    BY <1>2 DEF Down, Call
  <2>2. TaskTyped' /\ TaskSound'
    BY <2>1 DEF TaskTyped, TaskSound, InBoot, InCommit, InSettle, InProve
  <2>3. errors' \subseteq {"commit", "settle", "prove-odds"} \X Positions
    BY <1>2, Zenon DEF SinkInv, SinkTypeOK
  <2>4. SettledInStore' = SettledInStore
    BY <1>1 DEF SettledInStore
  <2>5. task.op # "commit" /\ task.op # "settle"
    BY <1>1
  <2>6. Answered'
    BY <1>1, <1>2, <2>4, <2>5, Zenon DEF SinkInv, Answered
  <2> QED
    BY <1>1, <1>2, <2>2, <2>3, <2>6, QuietStep, Zenon
<1>3. CASE return
  BY <1>1, <1>3, ReturnStep, Zenon
<1> QED
  BY <1>2, <1>3, Zenon DEF BootConfirmed

\* A restart forgets the run; what is in the air was still built for this chain.
LEMMA RestartStep == ASSUME SinkInv, Restart PROVE SinkInv'
<1>1. /\ restarts < MaxRestarts /\ restarts' = restarts + 1 /\ task' = Boot
      /\ calls' = 0 /\ settleCalls' = {} /\ realizedPnl' = 0 /\ errors' = {}
      /\ DOMAIN committed' = {} /\ DOMAIN store' = {}
      /\ store' = [p \in {} |-> 0]
      /\ UNCHANGED <<vars, flying, nonces>>
  BY DEF Restart
<1>2. nonces \in 0..MaxNonce /\ nonces \in Nat /\ restarts \in 0..MaxRestarts
  BY SinkAssumption DEF SinkInv, SinkTypeOK
<1>3. Grown /\ ChainTyped' /\ SettledOnFinalRecord'
  BY <1>1, <1>2, StillStep
<1>4. /\ task'.op = "boot" /\ task'.step = "boot" /\ task'.pos = 0
      /\ task'.landed = FALSE
      /\ task' = [op |-> task'.op, pos |-> task'.pos, step |-> task'.step,
                  tx |-> task'.tx, landed |-> task'.landed]
  BY <1>1 DEF Boot, Call
<1>5. TaskSound'
  BY <1>4 DEF TaskSound, InBoot, InCommit, InSettle, InProve
<1>6. SinkTypeOK'
  <2>1. restarts' \in 0..MaxRestarts /\ nonces' \in 0..MaxNonce
    BY <1>1, <1>2, SinkAssumption
  <2>2. calls' \in 0..Len(Decisions)
    BY <1>1, SinkAssumption
  <2>3. store' \in [DOMAIN store' -> StoreView]
    BY <1>1
  <2> QED
    BY <1>1, <1>4, <2>1, <2>2, <2>3 DEF SinkTypeOK
<1>7. FlyingSound'
  BY <1>1, <1>3, FlyingStays, Zenon DEF SinkInv
<1>8. MemorySound' /\ StoreSound'
  BY <1>1 DEF MemorySound, StoreSound
<1>9. SumSound'
  <2>1. SettledInStore' = {}
    BY <1>1 DEF SettledInStore
  <2>2. DOMAIN PnlsShown' = {}
    BY <2>1 DEF PnlsShown
  <2> QED
    BY <1>1, <2>2, SumEmpty DEF SumSound
<1>10. Answered'
  <2>1. 0..calls' - 1 = {}
    BY <1>1
  <2> QED
    BY <1>1, <2>1 DEF Answered
<1> QED
  BY <1>3, <1>5, <1>6, <1>7, <1>8, <1>9, <1>10 DEF SinkInv

LEMMA OnCommitStep == ASSUME SinkInv, onCommit PROVE SinkInv'
<1>1. /\ task = Idle /\ calls < Len(Decisions) /\ calls' = calls + 1
      /\ task' = Call("commit", calls, "read", NoTx)
      /\ UNCHANGED <<vars, settleCalls, committed, store, realizedPnl, errors, flying,
                     nonces, restarts>>
  BY Zenon DEF onCommit
<1>2. /\ nonces \in Nat /\ calls \in 0..Len(Decisions) /\ Len(Decisions) \in Nat
      /\ \A p \in DOMAIN committed : p \in 0..calls - 1
      /\ settleCalls \subseteq 0..calls - 1
  BY SinkAssumption DEF SinkInv, SinkTypeOK
<1>3. Grown /\ ChainTyped' /\ SettledOnFinalRecord'
  BY <1>1, <1>2, StillStep
<1>4. /\ task'.op = "commit" /\ task'.step = "read" /\ task'.pos = calls
      /\ task'.landed = FALSE
      /\ task' = [op |-> task'.op, pos |-> task'.pos, step |-> task'.step,
                  tx |-> task'.tx, landed |-> task'.landed]
  BY <1>1 DEF Call
<1>5. TaskSound'
  <2>1. calls' > 0 /\ calls' - 1 = calls /\ calls \notin DOMAIN committed
    BY <1>1, <1>2
  <2> QED
    BY <1>1, <1>4, <2>1 DEF TaskSound, InBoot, InCommit, InSettle, InProve
<1>6. SinkTypeOK'
  <2>1. calls' \in 0..Len(Decisions) /\ \A p \in 0..calls - 1 : p \in 0..calls' - 1
    BY <1>1, <1>2
  <2>2. settleCalls' \subseteq 0..calls' - 1 /\ DOMAIN committed' \subseteq 0..calls' - 1
    BY <1>1, <1>2, <2>1, Zenon
  <2>3. task'.op \in {"none", "boot", "commit", "settle", "prove"}
        /\ task'.step \in {"idle", "boot", "down", "read", "check", "proof", "confirm",
                           "readback", "discover"}
    BY <1>4
  <2> QED
    BY <1>1, <2>1, <2>2, <2>3, Zenon DEF SinkInv, SinkTypeOK, StoreView
<1>7. FlyingSound'
  BY <1>1, <1>3, FlyingStays, Zenon DEF SinkInv
<1>8. MemorySound' /\ StoreSound' /\ SumSound'
  BY <1>1, <1>3, MemoryStays, StoreStays, SumStays, Zenon DEF SinkInv
<1>9. Answered'
  <2>1. Idle.op = "none"
    BY DEF Idle, Call
  <2>2. /\ \A p \in 0..calls - 1 : p \in DOMAIN store \/ <<"commit", p>> \in errors
        /\ \A p \in settleCalls : p \in SettledInStore \/ <<"settle", p>> \in errors
    BY <1>1, <2>1 DEF SinkInv, Answered
  <2>3. \A p \in 0..calls' - 1 : p \in 0..calls - 1 \/ p = calls
    BY <1>1, <1>2
  <2>4. SettledInStore' = SettledInStore
    BY <1>1 DEF SettledInStore
  <2> QED
    BY <1>1, <1>4, <2>2, <2>3, <2>4, Zenon DEF Answered
<1> QED
  BY <1>3, <1>5, <1>6, <1>7, <1>8, <1>9, Zenon DEF SinkInv

\* A new seal has a nonce no other seal of the agent has.
LEMMA SealStep == ASSUME SinkInv, SealDecision PROVE SinkInv'
<1>1. /\ task.step = "read" /\ task.op = "commit" /\ TaskSound
      /\ UNCHANGED <<vars, calls, settleCalls, committed, store, realizedPnl, flying,
                     restarts>>
  BY CallOfStep, Zenon DEF SealDecision, SinkInv
<1>2. CASE fail("commit") /\ UNCHANGED nonces
  BY <1>1, <1>2, FailStep, Zenon DEF RunKept
<1>3. CASE
        /\ Ours \in DOMAIN strategy /\ nonces < MaxNonce
        /\ nonces' = nonces + 1
        /\ task' = [task EXCEPT !.step = "check", !.tx = CommitTx(
             buildRevealFromDecision(Decisions[task.pos + 1],
                                     strategy[Ours].decisions_count, nonces'))]
        /\ UNCHANGED errors
  <2> DEFINE reveal == buildRevealFromDecision(Decisions[task.pos + 1],
                         strategy[Ours].decisions_count, nonces')
  <2>1. /\ task'.op = "commit" /\ task'.step = "check" /\ task'.pos = task.pos
        /\ task'.landed = task.landed /\ task'.tx = CommitTx(reveal)
        /\ task' = [op |-> task'.op, pos |-> task'.pos, step |-> task'.step,
                    tx |-> task'.tx, landed |-> task'.landed]
    <3>1. task = [op |-> task.op, pos |-> task.pos, step |-> task.step,
                  tx |-> task.tx, landed |-> task.landed]
      BY <1>1, Zenon DEF TaskSound
    <3> HIDE DEF reveal
    <3>2. task' = [task EXCEPT !.step = "check", !.tx = CommitTx(reveal)]
      BY <1>3, Zenon DEF reveal
    <3> QED
      BY <1>1, <3>1, <3>2
  <2>2. nonces \in Nat /\ nonces' \in Nat /\ nonces <= nonces' /\ nonces' \in 0..MaxNonce
    BY <1>3, SinkAssumption DEF SinkInv, SinkTypeOK
  <2>3. Grown /\ ChainTyped' /\ SettledOnFinalRecord'
    BY <1>1, <2>2, StillStep
  <2>4. /\ reveal.index = strategy[Ours].decisions_count /\ reveal.nonce = nonces'
        /\ reveal.index \in Nat
    <3>1. strategy[Ours].decisions_count \in Nat
      BY <1>3 DEF SinkInv, ChainTyped, TypeOK, StrategyAccount
    <3> QED
      BY <3>1 DEF buildRevealFromDecision
  <2>5. CommitSound(task.tx, task.pos)'
    <3>1. CommitTx(reveal).reveal = reveal
      BY DEF CommitTx
    <3>2. nonces' \in 1..nonces'
      BY <1>3, <2>2
    <3> HIDE DEF reveal
    <3>3. reveal = buildRevealFromDecision(Decisions[task.pos + 1], reveal.index,
                                           reveal.nonce)
      BY <2>4, Zenon DEF reveal
    <3> QED
      BY <2>1, <2>4, <3>1, <3>2, <3>3, Zenon DEF CommitSound, SealFor
  <2>6. \A q \in DOMAIN committed : committed[q].reveal.nonce # reveal.nonce
    <3>1. ASSUME NEW q \in DOMAIN committed
          PROVE  committed[q].reveal.nonce \in 1..nonces
      BY Zenon DEF SinkInv, MemorySound, SealFor
    <3> QED
      BY <1>3, <2>2, <2>4, <3>1
  <2>7. TaskSound'
    <3>1. task'.tx.reveal = reveal
      BY <2>1 DEF CommitTx
    <3>2. /\ calls > 0 /\ task.pos = calls - 1 /\ task.pos \notin DOMAIN committed
          /\ task.landed = FALSE
      BY <1>1 DEF TaskSound, InCommit
    <3>3. InCommit'
      <4>1. calls' > 0 /\ task'.pos = calls' - 1 /\ task'.pos \notin DOMAIN committed'
        BY <1>1, <2>1, <3>2
      <4>2. \A q \in DOMAIN committed' :
              committed'[q].reveal.nonce # task'.tx.reveal.nonce
        BY <1>1, <2>6, <3>1, Zenon
      <4> QED
        BY <2>1, <2>5, <3>2, <4>1, <4>2, Zenon DEF InCommit
    <3> QED
      BY <2>1, <3>2, <3>3 DEF TaskSound, InBoot, InSettle, InProve
  <2>8. SinkTypeOK'
    <3>1. task'.op \in {"none", "boot", "commit", "settle", "prove"}
          /\ task'.step \in {"idle", "boot", "down", "read", "check", "proof",
                             "confirm", "readback", "discover"}
      BY <2>1
    <3> QED
      BY <1>1, <1>3, <2>2, <3>1, Zenon DEF SinkInv, SinkTypeOK, StoreView
  <2>9. FlyingSound'
    BY <1>1, <2>3, FlyingStays, Zenon DEF SinkInv
  <2>10. MemorySound' /\ StoreSound' /\ SumSound'
    BY <1>1, <2>3, MemoryStays, StoreStays, SumStays, Zenon DEF SinkInv
  <2>11. Answered'
    <3>1. SettledInStore' = SettledInStore
      BY <1>1 DEF SettledInStore
    <3> QED
      BY <1>1, <1>3, <2>1, <3>1, Zenon DEF SinkInv, Answered
  <2> QED
    BY <2>3, <2>7, <2>8, <2>9, <2>10, <2>11, Zenon DEF SinkInv
<1> QED
  BY <1>2, <1>3, Zenon DEF SealDecision

\* The second read of decisions_count: what is sent is what was sealed.
LEMMA PortStep == ASSUME SinkInv, PortCommit PROVE SinkInv'
<1>1. /\ task.step = "check" /\ task.op = "commit" /\ TaskSound
      /\ UNCHANGED <<vars, calls, settleCalls, committed, store, realizedPnl, nonces,
                     restarts>>
      /\ RunKept
  BY CallOfStep, Zenon DEF PortCommit, SinkInv, RunKept
<1>2. CASE fail("commit") /\ UNCHANGED flying
  BY <1>1, <1>2, FailStep, Zenon
<1>3. CASE
        /\ task.tx.reveal.index = strategy[Ours].decisions_count
        /\ sendInstructions([task.tx EXCEPT !.index = strategy[Ours].decisions_count])
  <2>1. /\ CommitSound(task.tx, task.pos)
        /\ task.pos \notin DOMAIN committed /\ calls > 0 /\ task.pos = calls - 1
        /\ \A q \in DOMAIN committed :
             committed[q].reveal.nonce # task.tx.reveal.nonce
    BY <1>1 DEF TaskSound, InCommit
  <2>2. [task.tx EXCEPT !.index = strategy[Ours].decisions_count] = task.tx
    <3>1. PICK r : r = task.tx.reveal
      OBVIOUS
    <3>2. task.tx = CommitTx(r)
      BY <2>1, <3>1, Zenon DEF CommitSound
    <3>3. CommitTx(r) = [CommitTx(r) EXCEPT !.index = r.index]
      BY DEF CommitTx
    <3> QED
      BY <1>3, <3>1, <3>2, <3>3, Zenon
  <2>3. sendInstructions(task.tx)
    BY <1>3, <2>2, Zenon
  <2>4. /\ task'.op = task.op /\ task'.pos = task.pos /\ task'.step = "confirm"
        /\ task'.tx = task.tx /\ task'.landed = FALSE
        /\ task' = [op |-> task'.op, pos |-> task'.pos, step |-> task'.step,
                    tx |-> task'.tx, landed |-> task'.landed]
        /\ \A t \in flying' : t \in flying \/ t = task.tx
        /\ UNCHANGED errors
    BY <1>1, <2>3, SentTask
  <2>5. TaskTyped' /\ TaskSound'
    <3>1. CommitSound(task.tx, task.pos)'
      BY <1>1, <2>1, <2>4, Zenon DEF CommitSound, SealFor
    <3>2. InCommit'
      BY <1>1, <2>1, <2>4, <3>1 DEF InCommit
    <3> QED
      BY <1>1, <2>4, <3>2 DEF TaskTyped, TaskSound, InBoot, InSettle, InProve
  <2>6. TxSound(task.tx)
    <3>1. PICK r : r = task.tx.reveal
      OBVIOUS
    <3>2. task.tx = CommitTx(r) /\ CommitTx(r).kind = "commit"
      BY <2>1, <3>1 DEF CommitSound, CommitTx
    <3>3. task.pos \in Positions
      BY <1>1, TaskPosition, Zenon DEF SinkInv
    <3> QED
      BY <2>1, <3>2, <3>3, Zenon DEF TxSound
  <2>7. Grown
    BY <1>1, StillGrows
  <2>8. \A t \in flying' : t \in flying \/ TxSound(t)'
    <3>1. ASSUME NEW t, t = task.tx PROVE TxSound(t)'
      BY <2>6, <2>7, <3>1, TxStays, Zenon
    <3> QED
      BY <2>4, <3>1, Zenon
  <2> QED
    BY <1>1, <2>4, <2>5, <2>8, MoveStep, Zenon
<1> QED
  BY <1>2, <1>3, Zenon DEF PortCommit

\* A commit that landed is remembered with its own account.
LEMMA CommitConfirmedStep == ASSUME SinkInv, CommitConfirmed PROVE SinkInv'
<1>1. /\ task.step = "confirm" /\ task.op = "commit" /\ TaskSound
      /\ UNCHANGED <<vars, calls, settleCalls, realizedPnl, flying, nonces, restarts>>
  BY Zenon DEF CommitConfirmed, SinkInv
<1>2. CASE fail("commit") /\ UNCHANGED <<committed, store>>
  BY <1>1, <1>2, FailStep, Zenon DEF RunKept
<1>4. PICK p : p = task.pos
  OBVIOUS
<1> DEFINE entry == [reveal |-> task.tx.reveal, onChainIndex |-> task.tx.index]
           shown == [onChainIndex |-> task.tx.index, settled |-> FALSE, won |-> FALSE,
                     pnl |-> 0, proven |-> FALSE]
<1>3. CASE /\ task.landed
           /\ committed' = Create(committed, task.pos, entry)
           /\ store' = Create(store, task.pos, shown)
           /\ return
  <2>1. /\ p \notin DOMAIN committed /\ DOMAIN store = DOMAIN committed
        /\ Sealed(Pending(task.tx)) /\ CommitSound(task.tx, p)
        /\ \A q \in DOMAIN committed : committed[q].reveal.nonce # task.tx.reveal.nonce
    BY <1>1, <1>3, <1>4 DEF TaskSound, InCommit, SinkInv, SinkTypeOK
  <2>2. task' = Idle /\ errors' = errors
    BY <1>3 DEF return
  <2>3. TaskTyped' /\ TaskSound'
    BY <2>2, TaskIdle
  <2>4. /\ DOMAIN committed' = DOMAIN committed \cup {p} /\ committed'[p] = entry
        /\ \A q \in DOMAIN committed : committed'[q] = committed[q]
    <3> HIDE DEF entry
    <3>1. /\ DOMAIN committed' = DOMAIN committed \cup {p} /\ committed'[p] = entry
          /\ \A q \in DOMAIN committed : q # p => committed'[q] = committed[q]
      <4>1. committed' = Create(committed, p, entry)
        BY <1>3, <1>4, Zenon
      <4> QED
        BY <4>1 DEF Create
    <3> QED
      BY <2>1, <3>1, Zenon
  <2>5. /\ DOMAIN store' = DOMAIN store \cup {p} /\ store'[p] = shown
        /\ \A q \in DOMAIN store : store'[q] = store[q]
    <3> HIDE DEF shown
    <3>1. /\ DOMAIN store' = DOMAIN store \cup {p} /\ store'[p] = shown
          /\ \A q \in DOMAIN store : q # p => store'[q] = store[q]
      <4>1. store' = Create(store, p, shown)
        BY <1>3, <1>4, Zenon
      <4> QED
        BY <4>1 DEF Create
    <3> QED
      BY <2>1, <3>1, Zenon
  <2>6. p \in 0..calls - 1 /\ p \in Positions
    BY <1>1, <1>4, TaskPosition, Zenon DEF SinkInv
  <2>7. /\ task.tx.reveal \in Reveals /\ task.tx.index \in Nat
        /\ task.tx.reveal.index = task.tx.index
        /\ <<Ours, task.tx.index>> \in DOMAIN decision
        /\ decision[<<Ours, task.tx.index>>].commit_hash = compute_commit_hash(task.tx.reveal)
    BY <2>1 DEF Sealed, Pending
  <2>8. Grown /\ ChainTyped' /\ SettledOnFinalRecord'
    <3>1. nonces \in Nat /\ nonces <= nonces
      BY SinkAssumption DEF SinkInv, SinkTypeOK
    <3> QED
      BY <1>1, <3>1, StillStep
  <2>9. SinkTypeOK'
    <3>1. shown \in StoreView
      BY <2>7 DEF StoreView
    <3>2. \A q \in DOMAIN store' : store'[q] \in StoreView
      <4> HIDE DEF shown
      <4>1. \A q \in DOMAIN store : store[q] \in StoreView
        BY DEF SinkInv, SinkTypeOK
      <4> QED
        BY <2>5, <3>1, <4>1, Zenon
    <3>3. store' \in [DOMAIN store' -> StoreView]
      <4>1. store' = [q \in DOMAIN store' |-> store'[q]]
        BY <1>3 DEF Create
      <4> QED
        BY <3>2, <4>1, Zenon
    <3>4. \A q \in DOMAIN committed' :
            committed'[q].reveal \in Reveals /\ committed'[q].onChainIndex \in Nat
      <4>1. entry.reveal = task.tx.reveal /\ entry.onChainIndex = task.tx.index
        OBVIOUS
      <4> HIDE DEF entry
      <4> QED
        BY <2>4, <2>7, <4>1, Zenon DEF SinkInv, SinkTypeOK
    <3>5. DOMAIN committed' \subseteq 0..calls - 1 /\ DOMAIN store' = DOMAIN committed'
      BY <2>1, <2>4, <2>5, <2>6, Zenon DEF SinkInv, SinkTypeOK
    <3> QED
      BY <1>1, <2>2, <2>3, <3>3, <3>4, <3>5, Zenon DEF SinkInv, SinkTypeOK, TaskTyped
  <2>10. FlyingSound'
    BY <1>1, <2>8, FlyingStays, Zenon DEF SinkInv
  <2>11. MemorySound'
    <3>1. entry.reveal = task.tx.reveal /\ entry.onChainIndex = task.tx.index
          /\ shown.onChainIndex = task.tx.index
      OBVIOUS
    <3> HIDE DEF entry, shown
    <3>2. UNCHANGED <<decision, nonces>>
      BY <1>1, Zenon DEF vars
    <3>3. ASSUME NEW q \in DOMAIN committed
          PROVE  /\ Sealed(committed[q])' /\ SealFor(committed[q].reveal, q)'
                 /\ store'[q].onChainIndex = committed'[q].onChainIndex
      <4>1. /\ Sealed(committed[q]) /\ SealFor(committed[q].reveal, q)
            /\ store[q].onChainIndex = committed[q].onChainIndex
        BY Zenon DEF SinkInv, MemorySound
      <4>2. committed'[q] = committed[q] /\ store'[q] = store[q]
        BY <2>1, <2>4, <2>5, Zenon
      <4> QED
        BY <3>2, <4>1, <4>2, Zenon DEF Sealed, SealFor
    <3>4. /\ Sealed(committed[p])' /\ SealFor(committed[p].reveal, p)'
          /\ store'[p].onChainIndex = committed'[p].onChainIndex
      <4>1. /\ committed'[p].reveal = task.tx.reveal
            /\ committed'[p].onChainIndex = task.tx.index
            /\ store'[p].onChainIndex = task.tx.index
        BY <2>4, <2>5, <3>1, Zenon
      <4>2. SealFor(task.tx.reveal, p)
        BY <1>4, <2>1, Zenon DEF CommitSound
      <4> QED
        BY <2>7, <3>2, <4>1, <4>2, Zenon DEF Sealed, SealFor
    <3>5. ASSUME NEW q \in DOMAIN committed', NEW j \in DOMAIN committed', q # j
          PROVE  committed'[q].reveal.nonce # committed'[j].reveal.nonce
      <4>1. committed'[p].reveal = task.tx.reveal
        BY <2>4, <3>1, Zenon
      <4> QED
        BY <2>1, <2>4, <3>5, <4>1, Zenon DEF SinkInv, MemorySound
    <3> QED
      BY <2>4, <3>3, <3>4, <3>5, Zenon DEF MemorySound
  <2>12. StoreSound'
    <3>1. ~shown.settled /\ ~shown.proven
      OBVIOUS
    <3> HIDE DEF shown
    <3>2. Shown(p)'
      BY <2>5, <3>1, Zenon DEF Shown
    <3>3. \A q \in DOMAIN store : Shown(q)'
      BY <1>1, <2>5, <2>8, ShownStays, Zenon DEF SinkInv, StoreSound
    <3> QED
      BY <2>5, <3>2, <3>3, Zenon DEF StoreSound
  <2>13. SettledInStore' = SettledInStore
    <3>1. ~shown.settled
      OBVIOUS
    <3> HIDE DEF shown
    <3> QED
      BY <2>5, <3>1, Zenon DEF SettledInStore
  <2>14. SumSound'
    <3>1. PnlsShown' = PnlsShown
      <4>1. \A q \in SettledInStore : store'[q].pnl = store[q].pnl
        BY <2>5, Zenon DEF SettledInStore
      <4> QED
        BY <2>13, <4>1 DEF PnlsShown
    <3> QED
      BY <1>1, <3>1, Zenon DEF SinkInv, SumSound
  <2>15. Answered'
    <3>1. \A q \in 0..calls - 1 : q \in DOMAIN store' \/ <<"commit", q>> \in errors
      BY <1>4, <2>5, Zenon DEF SinkInv, Answered
    <3>2. \A q \in settleCalls : q \in SettledInStore \/ <<"settle", q>> \in errors
      BY <1>1 DEF SinkInv, Answered
    <3> QED
      BY <1>1, <2>2, <2>13, <3>1, <3>2, Zenon DEF Answered
  <2> QED
    BY <2>3, <2>8, <2>9, <2>10, <2>11, <2>12, <2>14, <2>15, Zenon DEF SinkInv
<1> QED
  BY <1>2, <1>3, Zenon DEF CommitConfirmed

\* What InSettle says of a settlement that is running.
LEMMA SettleTask ==
  ASSUME SinkInv, task.op = "settle"
  PROVE  /\ task.pos \in DOMAIN committed /\ task.pos \in settleCalls
         /\ task.pos \in DOMAIN store
         /\ Sealed(committed[task.pos]) /\ SealFor(committed[task.pos].reveal, task.pos)
         /\ store[task.pos].onChainIndex = committed[task.pos].onChainIndex
         /\ task.tx = SettleTx(committed[task.pos], task.tx.record)
         /\ task.tx.reveal = committed[task.pos].reveal
         /\ task.tx.index = committed[task.pos].onChainIndex
         /\ task.tx.record \in FinalRecords(task.tx.reveal.fixture_id)
         /\ task.pos \in Positions
<1>1. /\ task.pos \in DOMAIN committed /\ task.pos \in settleCalls
      /\ task.tx = SettleTx(committed[task.pos], task.tx.record)
      /\ task.tx.record \in FinalRecords(task.tx.reveal.fixture_id)
  BY Zenon DEF SinkInv, TaskSound, InSettle
<1>2. /\ task.tx.reveal = committed[task.pos].reveal
      /\ task.tx.index = committed[task.pos].onChainIndex
  <2>1. PICK tx : tx = task.tx
    OBVIOUS
  <2>2. tx = SettleTx(committed[task.pos], tx.record)
    BY <1>1, <2>1, Zenon
  <2>3. tx.reveal = committed[task.pos].reveal /\ tx.index = committed[task.pos].onChainIndex
    BY <2>2 DEF SettleTx
  <2> QED
    BY <2>1, <2>3, Zenon
<1>3. /\ Sealed(committed[task.pos]) /\ SealFor(committed[task.pos].reveal, task.pos)
      /\ store[task.pos].onChainIndex = committed[task.pos].onChainIndex
  BY <1>1, Zenon DEF SinkInv, MemorySound
<1>4. task.pos \in DOMAIN store
  BY <1>1, Zenon DEF SinkInv, SinkTypeOK
<1>5. task.pos \in Positions
  <2>1. task.op \in {"commit", "settle", "prove"}
    OBVIOUS
  <2> QED
    BY <2>1, TaskPosition, Zenon DEF SinkInv
<1> QED
  BY <1>1, <1>2, <1>3, <1>4, <1>5

LEMMA OnSettleStep ==
  ASSUME SinkInv, NEW p \in 0..calls - 1, NEW i \in DOMAIN ScoreFeed[Oracle], onSettle(p, i)
  PROVE  SinkInv'
<1>1. /\ task = Idle /\ p \notin settleCalls
      /\ i \in FinalRecords(Decisions[p + 1].fixture_id)
      /\ settleCalls' = settleCalls \cup {p}
      /\ UNCHANGED <<vars, calls, committed, store, realizedPnl, flying, nonces, restarts>>
  BY Zenon DEF onSettle
<1>2. Grown /\ ChainTyped' /\ SettledOnFinalRecord'
  <2>1. nonces \in Nat /\ nonces <= nonces
    BY SinkAssumption DEF SinkInv, SinkTypeOK
  <2> QED
    BY <1>1, <2>1, StillStep
<1>3. p \in Positions
  <2>1. calls \in 0..Len(Decisions) /\ Len(Decisions) \in Nat
    BY SinkAssumption DEF SinkInv, SinkTypeOK
  <2> QED
    BY <2>1 DEF Positions
<1>4. /\ DOMAIN store = DOMAIN committed
      /\ p \in DOMAIN committed => /\ Sealed(committed[p]) /\ SealFor(committed[p].reveal, p)
                                   /\ store[p].settled = FALSE
  <2>1. DOMAIN store = DOMAIN committed
    BY Zenon DEF SinkInv, SinkTypeOK
  <2>2. p \in DOMAIN committed => ~store[p].settled
    BY <1>1, <2>1, Zenon DEF SinkInv, StoreSound, Shown
  <2>3. p \in DOMAIN committed => store[p].settled \in BOOLEAN
    BY <2>1 DEF SinkInv, SinkTypeOK, StoreView
  <2> QED
    BY <2>1, <2>2, <2>3, Zenon DEF SinkInv, MemorySound
<1>5. ASSUME p \notin DOMAIN committed, NoReveal(p)
      PROVE  /\ TaskTyped' /\ TaskSound' /\ Answered'
             /\ errors' \subseteq {"commit", "settle", "prove-odds"} \X Positions
  <2>1. task' = Idle /\ errors' = errors \cup {<<"settle", p>>}
    BY <1>5, Zenon DEF NoReveal
  <2>2. TaskTyped' /\ TaskSound'
    BY <2>1, TaskIdle
  <2>3. errors' \subseteq {"commit", "settle", "prove-odds"} \X Positions
    BY <1>3, <2>1 DEF SinkInv, SinkTypeOK
  <2>4. \A q \in settleCalls' : q \in SettledInStore \/ <<"settle", q>> \in errors'
    <3>1. Idle.op = "none"
      BY DEF Idle, Call
    <3>2. \A q \in settleCalls : q \in SettledInStore \/ <<"settle", q>> \in errors
      BY <1>1, <3>1 DEF SinkInv, Answered
    <3> QED
      BY <1>1, <2>1, <3>2, Zenon
  <2>5. \A q \in 0..calls - 1 : q \in DOMAIN store \/ <<"commit", q>> \in errors
    <3>1. Idle.op = "none"
      BY DEF Idle, Call
    <3> QED
      BY <1>1, <3>1 DEF SinkInv, Answered
  <2>6. Answered'
    <3>1. SettledInStore' = SettledInStore
      BY <1>1 DEF SettledInStore
    <3> QED
      BY <1>1, <2>1, <2>4, <2>5, <3>1, Zenon DEF Answered
  <2> QED
    BY <2>2, <2>3, <2>6
<1>6. ASSUME p \in DOMAIN committed, UNCHANGED errors,
             task' = Call("settle", p, "proof", SettleTx(committed[p], i))
      PROVE  /\ TaskTyped' /\ TaskSound' /\ Answered'
             /\ errors' \subseteq {"commit", "settle", "prove-odds"} \X Positions
  <2> DEFINE tx == SettleTx(committed[p], i)
  <2>1. /\ task'.op = "settle" /\ task'.step = "proof" /\ task'.pos = p
        /\ task'.landed = FALSE /\ task'.tx = tx
        /\ task' = [op |-> task'.op, pos |-> task'.pos, step |-> task'.step,
                    tx |-> task'.tx, landed |-> task'.landed]
    BY <1>6 DEF Call
  <2>2. tx.record = i /\ tx.reveal = committed[p].reveal
    BY DEF SettleTx
  <2>3. committed[p].reveal.fixture_id = Decisions[p + 1].fixture_id
    <3>1. PICK r : r = committed[p].reveal
      OBVIOUS
    <3>2. r = buildRevealFromDecision(Decisions[p + 1], r.index, r.nonce)
      BY <1>4, <1>6, <3>1, Zenon DEF SealFor
    <3>3. r.fixture_id = Decisions[p + 1].fixture_id
      BY <3>2 DEF buildRevealFromDecision
    <3> QED
      BY <3>1, <3>3, Zenon
  <2>4. InSettle'
    <3>1. FinalRecords(committed[p].reveal.fixture_id)' = FinalRecords(Decisions[p + 1].fixture_id)
      BY <1>1, <2>3, Zenon DEF FinalRecords
    <3>2. task'.tx.record \in FinalRecords(committed[p].reveal.fixture_id)'
      BY <1>1, <2>1, <2>2, <3>1, Zenon
    <3>3. task'.tx = SettleTx(committed'[p], task'.tx.record)
      BY <1>1, <2>1, <2>2, Zenon
    <3>4. p \in DOMAIN committed' /\ p \in settleCalls' /\ store'[p].settled = FALSE
          /\ task'.tx.reveal = committed'[p].reveal
      BY <1>1, <1>4, <1>6, <2>1, <2>2, Zenon
    <3>5. "proof" # "confirm" /\ "proof" # "readback" /\ "proof" # "discover"
      OBVIOUS
    <3> HIDE DEF tx
    <3> QED
      BY <2>1, <3>2, <3>3, <3>4, <3>5, Zenon DEF InSettle, FinalRecords
  <2>5. TaskTyped' /\ TaskSound'
    BY <2>1, <2>4 DEF TaskTyped, TaskSound, InBoot, InCommit, InProve
  <2>6. errors' \subseteq {"commit", "settle", "prove-odds"} \X Positions
    BY <1>6, Zenon DEF SinkInv, SinkTypeOK
  <2>7. \A q \in settleCalls : q \in SettledInStore \/ <<"settle", q>> \in errors
    <3>1. Idle.op = "none"
      BY DEF Idle, Call
    <3> QED
      BY <1>1, <3>1 DEF SinkInv, Answered
  <2>8. \A q \in 0..calls - 1 : q \in DOMAIN store \/ <<"commit", q>> \in errors
    <3>1. Idle.op = "none"
      BY DEF Idle, Call
    <3> QED
      BY <1>1, <3>1 DEF SinkInv, Answered
  <2>9. Answered'
    <3>1. SettledInStore' = SettledInStore
      BY <1>1 DEF SettledInStore
    <3> QED
      BY <1>1, <1>6, <2>1, <2>7, <2>8, <3>1, Zenon DEF Answered
  <2> QED
    BY <2>5, <2>6, <2>9
<1>7. TaskTyped' /\ TaskSound' /\ Answered'
      /\ errors' \subseteq {"commit", "settle", "prove-odds"} \X Positions
  BY <1>5, <1>6, Zenon DEF onSettle
<1>8. SinkTypeOK'
  <2>1. settleCalls' \subseteq 0..calls - 1
    BY <1>1 DEF SinkInv, SinkTypeOK
  <2> QED
    BY <1>1, <1>7, <2>1, Zenon DEF SinkInv, SinkTypeOK, StoreView, TaskTyped
<1>9. FlyingSound' /\ MemorySound' /\ SumSound'
  BY <1>1, <1>2, FlyingStays, MemoryStays, SumStays, Zenon DEF SinkInv
<1>10. StoreSound'
  BY <1>1, <1>2, ShownStays, Zenon DEF SinkInv, StoreSound
<1> QED
  BY <1>2, <1>7, <1>8, <1>9, <1>10, Zenon DEF SinkInv

LEMMA FetchStep == ASSUME SinkInv, FetchProof PROVE SinkInv'
<1>1. /\ task.step = "proof" /\ task.op = "settle" /\ TaskSound
      /\ UNCHANGED <<vars, calls, settleCalls, committed, store, realizedPnl, nonces,
                     restarts>>
      /\ RunKept
  BY CallOfStep, Zenon DEF FetchProof, SinkInv, RunKept
<1>2. CASE fail("settle") /\ UNCHANGED flying
  BY <1>1, <1>2, FailStep, Zenon
<1>3. CASE \E i \in ProofOf(task.tx.record) : sendInstructions([task.tx EXCEPT !.record = i])
  <2>1. PICK i \in ProofOf(task.tx.record) : sendInstructions([task.tx EXCEPT !.record = i])
    BY <1>3
  <2>2. i = task.tx.record /\ i \in 1..scoresPosted[Oracle]
    BY DEF ProofOf
  <2>3. PICK tx : tx = task.tx
    OBVIOUS
  <2>4. /\ tx = SettleTx(committed[task.pos], tx.record)
        /\ tx.reveal = committed[task.pos].reveal
        /\ tx.index = committed[task.pos].onChainIndex
        /\ tx.record \in FinalRecords(tx.reveal.fixture_id)
        /\ Sealed(committed[task.pos]) /\ task.pos \in DOMAIN committed
        /\ task.pos \in settleCalls /\ tx.record \in 1..scoresPosted[Oracle]
    BY <1>1, <2>2, <2>3, SettleTask, Zenon
  <2>5. [task.tx EXCEPT !.record = i] = tx
    <3>1. PICK pending, n : pending = committed[task.pos] /\ n = tx.record
      OBVIOUS
    <3>2. tx = SettleTx(pending, n)
      BY <2>4, <3>1, Zenon
    <3>3. [tx EXCEPT !.record = n] = tx
      BY <3>2 DEF SettleTx
    <3> QED
      BY <2>2, <2>3, <3>1, <3>3, Zenon
  <2>6. sendInstructions(tx)
    BY <2>1, <2>5, Zenon
  <2>7. /\ task'.op = "settle" /\ task'.pos = task.pos /\ task'.step = "confirm"
        /\ task'.tx = tx /\ task'.landed = FALSE
        /\ task' = [op |-> task'.op, pos |-> task'.pos, step |-> task'.step,
                    tx |-> task'.tx, landed |-> task'.landed]
        /\ \A t \in flying' : t \in flying \/ t = tx
        /\ UNCHANGED errors
    BY <1>1, <2>6, SentTask
  <2>8. InSettle'
    <3>1. ~store[task.pos].settled
      BY <1>1 DEF TaskSound, InSettle
    <3>2. UNCHANGED scoresPosted
      BY <1>1, Zenon DEF vars
    <3>3. "confirm" # "readback" /\ "confirm" # "discover"
      OBVIOUS
    <3> QED
      BY <1>1, <2>4, <2>7, <3>1, <3>2, <3>3, Zenon DEF InSettle, FinalRecords, ScorePosted
  <2>9. TaskTyped' /\ TaskSound'
    BY <2>7, <2>8 DEF TaskTyped, TaskSound, InBoot, InCommit, InProve
  <2>10. TxSound(tx)
    <3>1. Pending(tx).reveal = tx.reveal /\ Pending(tx).onChainIndex = tx.index
      BY DEF Pending
    <3>2. Sealed(Pending(tx))
      BY <2>4, <3>1, Zenon DEF Sealed
    <3>3. tx = SettleTx(Pending(tx), tx.record) /\ tx.kind = "settle"
      <4>1. PICK pending, n : pending = committed[task.pos] /\ n = tx.record
        OBVIOUS
      <4>2. tx = SettleTx(pending, n)
        BY <2>4, <4>1, Zenon
      <4> QED
        BY <4>2 DEF SettleTx, Pending
    <3> QED
      BY <2>4, <3>2, <3>3, Zenon DEF TxSound, SettleSound, ScorePosted
  <2>11. TxSound(tx)'
    BY <1>1, <2>10, StillGrows, TxStays, Zenon
  <2> QED
    BY <1>1, <2>7, <2>9, <2>11, MoveStep, Zenon
<1> QED
  BY <1>2, <1>3, Zenon DEF FetchProof

LEMMA SettleConfirmedStep == ASSUME SinkInv, SettleConfirmed PROVE SinkInv'
<1>1. /\ task.step = "confirm" /\ task.op = "settle" /\ TaskSound
      /\ UNCHANGED <<vars, calls, settleCalls, committed, store, realizedPnl, flying,
                     nonces, restarts>>
      /\ RunKept
  BY Zenon DEF SettleConfirmed, SinkInv, RunKept
<1>2. CASE fail("settle")
  <2>1. "confirm" # "discover"
    OBVIOUS
  <2> QED
    BY <1>1, <1>2, <2>1, FailStep, Zenon
<1>3. CASE /\ task.landed
           /\ task' = [task EXCEPT !.step = "readback"] /\ UNCHANGED errors
  <2>1. /\ task'.op = task.op /\ task'.pos = task.pos /\ task'.step = "readback"
        /\ task'.tx = task.tx /\ task'.landed = task.landed
        /\ task' = [op |-> task'.op, pos |-> task'.pos, step |-> task'.step,
                    tx |-> task'.tx, landed |-> task'.landed]
    <3>1. task = [op |-> task.op, pos |-> task.pos, step |-> task.step,
                  tx |-> task.tx, landed |-> task.landed]
      BY <1>1, Zenon DEF TaskSound
    <3> QED
      BY <1>3, <3>1
  <2>2. InSettle'
    <3>1. "readback" # "discover" /\ "readback" # "confirm" /\ "confirm" # "discover"
      OBVIOUS
    <3>2. UNCHANGED decision
      BY <1>1, Zenon DEF vars
    <3> QED
      BY <1>1, <1>3, <2>1, <3>1, <3>2, Zenon
         DEF InSettle, TaskSound, FinalRecords, SettledOnChain
  <2>3. TaskTyped' /\ TaskSound'
    BY <1>1, <2>1, <2>2 DEF TaskTyped, TaskSound, InBoot, InCommit, InProve
  <2> QED
    BY <1>1, <1>3, <2>1, <2>3, MoveStep, Zenon
<1> QED
  BY <1>2, <1>3, Zenon DEF SettleConfirmed

\* The entry of the store that a price proof writes.
LEMMA ProvenEntry ==
  ASSUME NEW x \in StoreView, NEW y, y = [x EXCEPT !.proven = TRUE]
  PROVE  /\ y \in StoreView /\ y.onChainIndex = x.onChainIndex /\ y.settled = x.settled
         /\ y.won = x.won /\ y.pnl = x.pnl /\ y.proven = TRUE
<1>1. x = [onChainIndex |-> x.onChainIndex, settled |-> x.settled, won |-> x.won,
           pnl |-> x.pnl, proven |-> x.proven]
  BY DEF StoreView
<1>2. y = [onChainIndex |-> x.onChainIndex, settled |-> x.settled, won |-> x.won,
           pnl |-> x.pnl, proven |-> TRUE]
  BY <1>1
<1> QED
  BY <1>2 DEF StoreView

\* What the store shows of one more settled position adds its PnL to the sum.
LEMMA SumOfNewPosition ==
  ASSUME SinkTypeOK, SumSound, NEW p \in DOMAIN store, ~store[p].settled,
         DOMAIN store' = DOMAIN store, store'[p].settled, store'[p].pnl \in Int,
         \A q \in DOMAIN store : q # p => store'[q] = store[q],
         realizedPnl' = realizedPnl + store'[p].pnl
  PROVE  SumSound'
<1> DEFINE f == PnlsShown
           g == PnlsShown'
<1>1. DOMAIN f = SettledInStore /\ \A q \in SettledInStore : f[q] = store[q].pnl
  BY DEF PnlsShown
<1>2. SettledInStore' = SettledInStore \cup {p} /\ p \notin SettledInStore
  BY DEF SettledInStore
<1>3. DOMAIN g = SettledInStore' /\ \A q \in SettledInStore' : g[q] = store'[q].pnl
  BY DEF PnlsShown
<1>4. IsFiniteSet(DOMAIN f)
  <2>1. calls \in Nat
    BY SinkAssumption DEF SinkTypeOK
  <2>2. IsFiniteSet(0..calls - 1)
    BY <2>1, FS_Interval
  <2>3. SettledInStore \subseteq 0..calls - 1
    BY DEF SettledInStore, SinkTypeOK
  <2> QED
    BY <1>1, <2>2, <2>3, FS_Subset
<1>5. \A q \in DOMAIN f : f[q] \in Int /\ g[q] = f[q]
  <2>1. ASSUME NEW q \in SettledInStore PROVE store[q].pnl \in Int /\ store'[q] = store[q]
    <3>1. q \in DOMAIN store /\ q # p
      BY <1>2 DEF SettledInStore
    <3>2. store[q] \in StoreView
      BY <3>1 DEF SinkTypeOK
    <3> QED
      BY <3>1, <3>2 DEF StoreView
  <2> QED
    BY <1>1, <1>2, <1>3, <2>1
<1>6. g[p] = store'[p].pnl /\ p \notin DOMAIN f /\ DOMAIN g = DOMAIN f \cup {p}
  BY <1>1, <1>2, <1>3
<1> HIDE DEF f, g
<1>7. SumFunction(g) = SumFunction(f) + g[p]
  BY <1>4, <1>5, <1>6, SumAdd
<1> QED
  BY <1>6, <1>7, Zenon DEF SumSound, f, g

LEMMA ReadStep == ASSUME SinkInv, ReadDecision PROVE SinkInv'
<1>1. /\ task.step = "readback" /\ task.op = "settle" /\ TaskSound
      /\ UNCHANGED <<vars, calls, settleCalls, committed, flying, nonces, restarts>>
  BY CallOfStep, Zenon DEF ReadDecision, SinkInv
<1>2. CASE fail("settle") /\ UNCHANGED <<store, realizedPnl>>
  <2>1. "readback" # "discover"
    OBVIOUS
  <2> QED
    BY <1>1, <1>2, <2>1, FailStep, Zenon DEF RunKept
<1>3. PICK p : p = task.pos
  OBVIOUS
<1>4. PICK account : account = decision[<<Ours, task.tx.index>>]
  OBVIOUS
<1> DEFINE won == account.status = STATUS_SETTLED /\ account.outcome_side = task.tx.reveal.side
<1>5. CASE /\ markSettled(task.pos, won, account.pnl)
           /\ task' = [task EXCEPT !.step = "discover"]
  <2>1. /\ p \in DOMAIN committed /\ p \in settleCalls /\ p \in DOMAIN store
        /\ Sealed(committed[p]) /\ SealFor(committed[p].reveal, p)
        /\ store[p].onChainIndex = committed[p].onChainIndex
        /\ task.tx = SettleTx(committed[p], task.tx.record)
        /\ task.tx.reveal = committed[p].reveal
        /\ task.tx.index = committed[p].onChainIndex
        /\ task.tx.record \in FinalRecords(task.tx.reveal.fixture_id)
        /\ store[p] \in StoreView
    <3>1. store[p] \in StoreView
      BY <1>1, <1>3, SettleTask DEF SinkInv, SinkTypeOK
    <3> QED
      BY <1>1, <1>3, <3>1, SettleTask, Zenon
  <2>2. /\ ~store[p].settled /\ account.status = STATUS_SETTLED
    <3>1. "readback" # "discover"
      OBVIOUS
    <3> QED
      BY <1>1, <1>3, <1>4, <3>1, Zenon DEF TaskSound, InSettle, SettledOnChain
  <2>3. account.pnl \in Int
    <3>1. account \in DecisionCommit
      BY <1>4, <2>1 DEF Sealed, SinkInv, ChainTyped, TypeOK
    <3> QED
      BY <3>1 DEF DecisionCommit
  <2>4. PICK w \in BOOLEAN : w = won
    OBVIOUS
  <2> DEFINE entry == [store[p] EXCEPT !.settled = TRUE, !.won = w, !.pnl = account.pnl]
  <2>5. /\ entry \in StoreView /\ entry.onChainIndex = store[p].onChainIndex
        /\ entry.settled = TRUE /\ entry.won = w /\ entry.pnl = account.pnl
        /\ entry.proven = store[p].proven
    <3>1. PICK x, pnl : x = store[p] /\ pnl = account.pnl
      OBVIOUS
    <3>2. x \in StoreView /\ pnl \in Int
      BY <2>1, <2>3, <3>1, Zenon
    <3>3. PICK y : y = [x EXCEPT !.settled = TRUE, !.won = w, !.pnl = pnl]
      OBVIOUS
    <3>4. /\ y \in StoreView /\ y.onChainIndex = x.onChainIndex /\ y.settled = TRUE
          /\ y.won = w /\ y.pnl = pnl /\ y.proven = x.proven
      <4>1. x = [onChainIndex |-> x.onChainIndex, settled |-> x.settled, won |-> x.won,
                 pnl |-> x.pnl, proven |-> x.proven]
        BY <3>2 DEF StoreView
      <4>2. y = [onChainIndex |-> x.onChainIndex, settled |-> TRUE, won |-> w,
                 pnl |-> pnl, proven |-> x.proven]
        BY <3>3, <4>1
      <4> QED
        BY <3>2, <4>2 DEF StoreView
    <3> QED
      BY <3>1, <3>3, <3>4, Zenon
  <2>6. /\ store' = [store EXCEPT ![p] = entry]
        /\ realizedPnl' = realizedPnl + account.pnl /\ UNCHANGED errors
    <3>1. /\ store' = [store EXCEPT ![p].settled = TRUE, ![p].won = w,
                                    ![p].pnl = account.pnl]
          /\ realizedPnl' = realizedPnl + account.pnl /\ UNCHANGED errors
      BY <1>3, <1>5, <2>1, <2>4, Zenon DEF markSettled
    <3>2. [store EXCEPT ![p].settled = TRUE, ![p].won = w, ![p].pnl = account.pnl]
            = [store EXCEPT ![p] = entry]
      BY <2>1
    <3> QED
      BY <3>1, <3>2, Zenon
  <2>7. /\ DOMAIN store' = DOMAIN store /\ store'[p] = entry
        /\ \A q \in DOMAIN store : q # p => store'[q] = store[q]
        /\ store' = [q \in DOMAIN store' |-> store'[q]]
    <3> HIDE DEF entry
    <3> QED
      BY <2>1, <2>6
  <2>8. /\ task'.op = task.op /\ task'.pos = task.pos /\ task'.step = "discover"
        /\ task'.tx = task.tx /\ task'.landed = task.landed
        /\ task' = [op |-> task'.op, pos |-> task'.pos, step |-> task'.step,
                    tx |-> task'.tx, landed |-> task'.landed]
    <3>1. task = [op |-> task.op, pos |-> task.pos, step |-> task.step,
                  tx |-> task.tx, landed |-> task.landed]
      BY <1>1, Zenon DEF TaskSound
    <3> QED
      BY <1>5, <3>1
  <2>9. Grown /\ ChainTyped' /\ SettledOnFinalRecord'
    <3>1. nonces \in Nat /\ nonces <= nonces
      BY SinkAssumption DEF SinkInv, SinkTypeOK
    <3> QED
      BY <1>1, <3>1, StillStep
  <2>10. InSettle'
    <3>1. "discover" # "confirm"
      OBVIOUS
    <3>2. UNCHANGED decision
      BY <1>1, Zenon DEF vars
    <3> HIDE DEF entry
    <3> QED
      BY <1>1, <1>3, <1>4, <2>1, <2>2, <2>5, <2>7, <2>8, <3>1, <3>2, Zenon
         DEF InSettle, FinalRecords, SettledOnChain
  <2>11. TaskTyped' /\ TaskSound'
    BY <1>1, <2>8, <2>10 DEF TaskTyped, TaskSound, InBoot, InCommit, InProve
  <2>12. SinkTypeOK'
    <3> HIDE DEF entry
    <3>1. \A q \in DOMAIN store' : store'[q] \in StoreView
      <4>1. \A q \in DOMAIN store : store[q] \in StoreView
        BY DEF SinkInv, SinkTypeOK
      <4> QED
        BY <2>5, <2>7, <4>1, Zenon
    <3>2. store' \in [DOMAIN store' -> StoreView]
      BY <2>7, <3>1, Zenon
    <3>3. realizedPnl' \in Int
      BY <2>3, <2>6 DEF SinkInv, SinkTypeOK
    <3> QED
      BY <1>1, <2>6, <2>7, <2>11, <3>2, <3>3, Zenon DEF SinkInv, SinkTypeOK, TaskTyped
  <2>13. FlyingSound'
    BY <1>1, <2>9, FlyingStays, Zenon DEF SinkInv
  <2>14. MemorySound'
    <3> HIDE DEF entry
    <3>1. \A q \in DOMAIN store : store'[q].onChainIndex = store[q].onChainIndex
      BY <2>5, <2>7, Zenon
    <3> QED
      BY <1>1, <2>9, <3>1, MemoryStays, Zenon DEF SinkInv, SinkTypeOK
  <2>15. StoreSound'
    <3>1. \A q \in DOMAIN store : q # p => Shown(q)'
      BY <1>1, <2>7, <2>9, ShownStays, Zenon DEF SinkInv, StoreSound
    <3>2. Shown(p)'
      <4>1. decision' = decision /\ settleCalls' = settleCalls
        BY <1>1, Zenon DEF vars
      <4>2. task.tx.reveal.side = Decisions[p + 1].side
        <5>1. PICK r : r = committed[p].reveal
          OBVIOUS
        <5>2. r = buildRevealFromDecision(Decisions[p + 1], r.index, r.nonce)
          BY <2>1, <5>1, Zenon DEF SealFor
        <5>3. r.side = Decisions[p + 1].side
          BY <5>2 DEF buildRevealFromDecision
        <5> QED
          BY <2>1, <5>1, <5>3, Zenon
      <4>3. store'[p].won <=> account.outcome_side = Decisions[p + 1].side
        <5>1. won <=> account.outcome_side = Decisions[p + 1].side
          BY <2>2, <4>2, Zenon
        <5> HIDE DEF entry, won
        <5> QED
          BY <2>4, <2>5, <2>7, <5>1, Zenon
      <4> HIDE DEF entry
      <4>4. account = decision'[<<Ours, store'[p].onChainIndex>>]
        BY <1>4, <2>1, <2>5, <2>7, <4>1, Zenon
      <4>5. store'[p].proven => account.entry_odds_proven
        BY <1>4, <2>1, <2>5, <2>7, Zenon DEF SinkInv, StoreSound, Shown
      <4>6. store'[p].pnl = account.pnl
        BY <2>5, <2>7, Zenon
      <4> QED
        BY <2>1, <2>2, <4>1, <4>3, <4>4, <4>5, <4>6, Zenon DEF Shown
    <3> QED
      BY <2>7, <3>1, <3>2, Zenon DEF StoreSound
  <2>16. SumSound'
    <3> HIDE DEF entry
    <3>1. store'[p].settled /\ store'[p].pnl = account.pnl
      BY <2>5, <2>7, Zenon
    <3> QED
      BY <2>1, <2>2, <2>3, <2>6, <2>7, <3>1, SumOfNewPosition, Zenon DEF SinkInv
  <2>17. Answered'
    <3> HIDE DEF entry
    <3>1. \A q \in SettledInStore : q \in SettledInStore'
      BY <2>5, <2>7, Zenon DEF SettledInStore
    <3> QED
      BY <1>1, <2>6, <2>7, <2>8, <3>1, Zenon DEF SinkInv, Answered
  <2> QED
    BY <2>9, <2>11, <2>12, <2>13, <2>14, <2>15, <2>16, <2>17, Zenon DEF SinkInv
<1> QED
  BY <1>2, <1>4, <1>5, Zenon DEF ReadDecision

LEMMA DiscoverStep == ASSUME SinkInv, DiscoverEntryOdds PROVE SinkInv'
<1>1. /\ task.step = "discover" /\ task.op = "settle" /\ TaskSound
      /\ UNCHANGED <<vars, calls, settleCalls, committed, store, realizedPnl, nonces,
                     restarts>>
      /\ RunKept
  BY CallOfStep, Zenon DEF DiscoverEntryOdds, SinkInv, RunKept
<1>2. CASE return /\ UNCHANGED flying
  BY <1>1, <1>2, ReturnStep, Zenon
<1>3. CASE fail("prove-odds") /\ UNCHANGED flying
  BY <1>1, <1>3, FailStep, Zenon
<1>4. ASSUME NEW i \in 1..oddsPosted[Oracle], NEW k \in 1..3, NEW tx,
             tx = ProveTx(committed[task.pos], i, k), flying' = flying \cup {tx},
             task' = Call("prove", task.pos, "confirm", tx), UNCHANGED errors
      PROVE  SinkInv'
  <2>1. /\ task.pos \in DOMAIN committed /\ task.pos \in DOMAIN store
        /\ Sealed(committed[task.pos])
    BY <1>1, SettleTask, Zenon
  <2>2. store[task.pos].settled
    BY <1>1, Zenon DEF TaskSound, InSettle
  <2>3. /\ task'.op = "prove" /\ task'.pos = task.pos /\ task'.step = "confirm"
        /\ task'.tx = tx /\ task'.landed = FALSE
        /\ task' = [op |-> task'.op, pos |-> task'.pos, step |-> task'.step,
                    tx |-> task'.tx, landed |-> task'.landed]
    BY <1>4 DEF Call
  <2>4. /\ tx.kind = "prove" /\ tx.reveal = committed[task.pos].reveal
        /\ tx.index = committed[task.pos].onChainIndex
        /\ tx.record = i /\ tx.side_index = k
        /\ tx = ProveTx(Pending(tx), tx.record, tx.side_index)
    BY <1>4 DEF ProveTx, Pending
  <2>5. TxSound(tx)
    <3>1. Pending(tx).reveal = tx.reveal /\ Pending(tx).onChainIndex = tx.index
      BY DEF Pending
    <3>2. Sealed(Pending(tx))
      BY <2>1, <2>4, <3>1, Zenon DEF Sealed
    <3>3. tx.record \in 1..oddsPosted[Oracle] /\ tx.side_index \in 1..3
      BY <1>4, <2>4, Zenon
    <3> QED
      BY <2>4, <3>2, <3>3, Zenon DEF TxSound, ProveSound
  <2>6. TxSound(tx)'
    BY <1>1, <2>5, StillGrows, TxStays, Zenon
  <2>7. TaskTyped' /\ TaskSound'
    <3>1. InProve'
      BY <1>1, <2>1, <2>2, <2>3, <2>4, Zenon DEF InProve
    <3> QED
      BY <2>3, <3>1 DEF TaskTyped, TaskSound, InBoot, InCommit, InSettle
  <2>8. errors' \subseteq {"commit", "settle", "prove-odds"} \X Positions
    BY <1>4, Zenon DEF SinkInv, SinkTypeOK
  <2>9. \A t \in flying' : t \in flying \/ TxSound(t)'
    BY <1>4, <2>6, Zenon
  <2>10. Answered'
    <3>1. SettledInStore' = SettledInStore
      BY <1>1 DEF SettledInStore
    <3>2. task.pos \in SettledInStore
      BY <2>1, <2>2 DEF SettledInStore
    <3>3. task.op # "commit"
      BY <1>1
    <3> QED
      BY <1>1, <1>4, <3>1, <3>2, <3>3, Zenon DEF SinkInv, Answered
  <2> QED
    BY <1>1, <2>7, <2>8, <2>9, <2>10, QuietStep, Zenon
<1> QED
  BY <1>2, <1>3, <1>4, Zenon DEF DiscoverEntryOdds

LEMMA ProveConfirmedStep == ASSUME SinkInv, ProveConfirmed PROVE SinkInv'
<1>1. /\ task.step = "confirm" /\ task.op = "prove" /\ TaskSound
      /\ UNCHANGED <<vars, calls, settleCalls, committed, realizedPnl, flying, nonces,
                     restarts>>
  BY Zenon DEF ProveConfirmed, SinkInv
<1>2. CASE fail("prove-odds") /\ UNCHANGED store
  <2>1. "prove" # "commit" /\ "prove" # "settle"
    OBVIOUS
  <2> QED
    BY <1>1, <1>2, <2>1, FailStep, Zenon DEF RunKept
<1>3. PICK p : p = task.pos
  OBVIOUS
<1>4. CASE /\ decision[<<Ours, task.tx.index>>].entry_odds_proven
           /\ task.pos \in DOMAIN store
           /\ store' = [store EXCEPT ![task.pos].proven = TRUE] /\ return
  <2>1. /\ p \in DOMAIN store /\ p \in DOMAIN committed /\ store[p] \in StoreView
        /\ task.tx.index = store[p].onChainIndex
    <3>1. p \in DOMAIN store /\ p \in DOMAIN committed
          /\ task.tx.index = committed[p].onChainIndex
      BY <1>1, <1>3, <1>4, Zenon DEF TaskSound, InProve
    <3>2. store[p] \in StoreView
      BY <3>1 DEF SinkInv, SinkTypeOK
    <3> QED
      BY <3>1, <3>2, Zenon DEF SinkInv, MemorySound
  <2> DEFINE entry == [store[p] EXCEPT !.proven = TRUE]
  <2>2. /\ entry \in StoreView /\ entry.onChainIndex = store[p].onChainIndex
        /\ entry.settled = store[p].settled /\ entry.won = store[p].won
        /\ entry.pnl = store[p].pnl
    BY <2>1, ProvenEntry
  <2>3. store' = [store EXCEPT ![p] = entry]
    <3>1. [store EXCEPT ![p].proven = TRUE] = [store EXCEPT ![p] = entry]
      BY <2>1
    <3> QED
      BY <1>3, <1>4, <3>1, Zenon
  <2>4. /\ DOMAIN store' = DOMAIN store /\ store'[p] = entry
        /\ \A q \in DOMAIN store : q # p => store'[q] = store[q]
        /\ store' = [q \in DOMAIN store' |-> store'[q]]
    <3> HIDE DEF entry
    <3> QED
      BY <2>1, <2>3
  <2>5. task' = Idle /\ errors' = errors
    BY <1>4, Zenon DEF return
  <2>6. TaskTyped' /\ TaskSound'
    BY <2>5, TaskIdle
  <2> HIDE DEF entry
  <2>7. Grown /\ ChainTyped' /\ SettledOnFinalRecord'
    <3>1. nonces \in Nat /\ nonces <= nonces
      BY SinkAssumption DEF SinkInv, SinkTypeOK
    <3> QED
      BY <1>1, <3>1, StillStep
  <2>8. SinkTypeOK'
    <3>1. \A q \in DOMAIN store' : store'[q] \in StoreView
      <4>1. \A q \in DOMAIN store : store[q] \in StoreView
        BY DEF SinkInv, SinkTypeOK
      <4> QED
        BY <2>2, <2>4, <4>1, Zenon
    <3>2. store' \in [DOMAIN store' -> StoreView]
      BY <2>4, <3>1, Zenon
    <3> QED
      BY <1>1, <2>4, <2>5, <2>6, <3>2, Zenon DEF SinkInv, SinkTypeOK, TaskTyped
  <2>9. FlyingSound'
    BY <1>1, <2>7, FlyingStays, Zenon DEF SinkInv
  <2>10. MemorySound'
    <3>1. \A q \in DOMAIN store : store'[q].onChainIndex = store[q].onChainIndex
      BY <2>2, <2>4, Zenon
    <3> QED
      BY <1>1, <2>7, <3>1, MemoryStays, Zenon DEF SinkInv, SinkTypeOK
  <2>11. StoreSound'
    <3>1. \A q \in DOMAIN store : q # p => Shown(q)'
      BY <1>1, <2>4, <2>7, ShownStays, Zenon DEF SinkInv, StoreSound
    <3>2. Shown(p)'
      <4>1. decision' = decision /\ settleCalls' = settleCalls
        BY <1>1, Zenon DEF vars
      <4>2. Shown(p)
        BY <2>1, Zenon DEF SinkInv, StoreSound
      <4>3. /\ store'[p].onChainIndex = store[p].onChainIndex
            /\ store'[p].settled = store[p].settled /\ store'[p].won = store[p].won
            /\ store'[p].pnl = store[p].pnl
        BY <2>2, <2>4, Zenon
      <4>4. decision[<<Ours, store[p].onChainIndex>>].entry_odds_proven
        BY <1>4, <2>1, Zenon
      <4>5. store'[p].settled => store[p].settled
        BY <4>3, Zenon
      <4>6. store'[p].won <=> store[p].won
        BY <4>3, Zenon
      <4> QED
        BY <4>1, <4>2, <4>3, <4>4, <4>5, <4>6, Zenon DEF Shown
    <3> QED
      BY <2>4, <3>1, <3>2, Zenon DEF StoreSound
  <2>12. SettledInStore' = SettledInStore
    BY <2>2, <2>4, Zenon DEF SettledInStore
  <2>13. SumSound'
    <3>1. PnlsShown' = PnlsShown
      <4>1. \A q \in SettledInStore : store'[q].pnl = store[q].pnl
        BY <2>2, <2>4, Zenon DEF SettledInStore
      <4> QED
        BY <2>12, <4>1 DEF PnlsShown
    <3> QED
      BY <1>1, <3>1, Zenon DEF SinkInv, SumSound
  <2>14. Answered'
    <3>1. "prove" # "commit" /\ "prove" # "settle"
      OBVIOUS
    <3> QED
      BY <1>1, <2>4, <2>5, <2>12, <3>1, Zenon DEF SinkInv, Answered
  <2> QED
    BY <2>6, <2>7, <2>8, <2>9, <2>10, <2>11, <2>13, <2>14, Zenon DEF SinkInv
<1> QED
  BY <1>2, <1>4, Zenon DEF ProveConfirmed
----------------------------------------------------------------------------
(***************************************************************************)
(* Every step of the surroundings keeps the invariant.                     *)
(***************************************************************************)

\* A running call still knows what it knew when the chain has moved, and that
\* its own transaction has landed.
LEMMA TaskStays ==
  ASSUME SinkInv, Grown, UNCHANGED <<calls, settleCalls, committed, store>>,
         task'.op = task.op, task'.pos = task.pos, task'.step = task.step,
         task'.tx = task.tx, task'.landed \in BOOLEAN,
         task' = [op |-> task'.op, pos |-> task'.pos, step |-> task'.step,
                  tx |-> task'.tx, landed |-> task'.landed],
         task.op = "none" => task' = task,
         task'.landed => \/ task.landed
                         \/ /\ task.step = "confirm"
                            /\ task.op = "commit" => Sealed(Pending(task.tx))'
                            /\ task.op = "settle" => SettledOnChain(task.tx.index)'
  PROVE  TaskSound'
<1>1. InBoot'
  BY Zenon DEF SinkInv, TaskSound, InBoot
<1>2. ASSUME task.op = "commit" PROVE InCommit'
  <2>1. /\ task.step \in {"read", "check", "confirm"}
        /\ calls > 0 /\ task.pos = calls - 1 /\ task.pos \notin DOMAIN committed
        /\ task.step # "read" =>
             /\ CommitSound(task.tx, task.pos)
             /\ \A q \in DOMAIN committed :
                  committed[q].reveal.nonce # task.tx.reveal.nonce
        /\ task.landed => task.step = "confirm" /\ Sealed(Pending(task.tx))
    BY <1>2, Zenon DEF SinkInv, TaskSound, InCommit
  <2>2. CommitSound(task.tx, task.pos) => CommitSound(task.tx, task.pos)'
    BY Zenon DEF CommitSound, SealFor, Grown
  <2>3. Sealed(Pending(task.tx)) => Sealed(Pending(task.tx))'
    BY Zenon DEF Sealed, Pending, Grown
  <2>4. task'.landed => task'.step = "confirm" /\ Sealed(Pending(task.tx))'
    BY <1>2, <2>1, <2>3, Zenon
  <2> QED
    BY <2>1, <2>2, <2>4, Zenon DEF InCommit
<1>3. ASSUME task.op = "settle" PROVE InSettle'
  <2>1. /\ task.step \in {"proof", "confirm", "readback", "discover"}
        /\ task.pos \in DOMAIN committed /\ task.pos \in settleCalls
        /\ task.tx = SettleTx(committed[task.pos], task.tx.record)
        /\ task.tx.record \in FinalRecords(task.tx.reveal.fixture_id)
        /\ store[task.pos].settled <=> task.step = "discover"
        /\ task.step = "confirm" => ScorePosted(task.tx)
        /\ task.landed \/ task.step \in {"readback", "discover"} =>
             SettledOnChain(task.tx.index)
    BY <1>3, Zenon DEF SinkInv, TaskSound, InSettle
  <2>2. ScorePosted(task.tx) => ScorePosted(task.tx)'
    BY Zenon DEF ScorePosted, Grown
  <2>3. SettledOnChain(task.tx.index) => SettledOnChain(task.tx.index)'
    <3>1. <<Ours, task.tx.index>> \in DOMAIN decision
      BY <1>3, SettleTask, Zenon DEF Sealed
    <3> QED
      BY <3>1, Zenon DEF SettledOnChain, Grown
  <2>4. task'.landed \/ task'.step \in {"readback", "discover"} =>
          SettledOnChain(task.tx.index)'
    BY <1>3, <2>1, <2>3, Zenon
  <2> QED
    BY <2>1, <2>2, <2>4, Zenon DEF InSettle, FinalRecords
<1>4. InProve'
  BY Zenon DEF SinkInv, TaskSound, InProve
<1>5. InCommit' /\ InSettle'
  BY <1>2, <1>3, Zenon DEF InCommit, InSettle
<1>6. task'.op = "none" => task' = Idle
  BY Zenon DEF SinkInv, TaskSound
<1>7. task'.op \in {"none", "boot", "commit", "settle", "prove"}
  BY Zenon DEF SinkInv, TaskSound
<1> QED
  BY <1>1, <1>4, <1>5, <1>6, <1>7, Zenon DEF TaskSound

LEMMA WorldStep ==
  ASSUME SinkInv, [Next]_vars, UNCHANGED <<run_vars, nonces, restarts>>,
         flying' \subseteq flying, task'.op = task.op, task'.pos = task.pos,
         task'.step = task.step, task'.tx = task.tx, task'.landed \in BOOLEAN,
         task' = [op |-> task'.op, pos |-> task'.pos, step |-> task'.step,
                  tx |-> task'.tx, landed |-> task'.landed],
         task.op = "none" => task' = task,
         task'.landed => \/ task.landed
                         \/ /\ task.step = "confirm"
                            /\ task.op = "commit" => Sealed(Pending(task.tx))'
                            /\ task.op = "settle" => SettledOnChain(task.tx.index)',
         SettledOnFinalRecord'
  PROVE  SinkInv'
<1>1. /\ UNCHANGED <<calls, settleCalls, committed, store, realizedPnl, errors>>
      /\ UNCHANGED <<nonces, restarts>> /\ RunKept
  BY Zenon DEF run_vars, RunKept
<1>2. ChainTyped' /\ Grown
  <2>1. nonces \in Nat /\ nonces <= nonces
    BY SinkAssumption DEF SinkInv, SinkTypeOK
  <2> QED
    BY <1>1, <2>1, ChainGrows DEF SinkInv
<1>3. TaskSound'
  BY <1>1, <1>2, TaskStays, Zenon
<1>4. SinkTypeOK'
  BY <1>1, TypeStays, Zenon DEF SinkInv, SinkTypeOK
<1>5. FlyingSound'
  BY <1>2, FlyingStays, Zenon DEF SinkInv
<1>6. MemorySound' /\ StoreSound' /\ SumSound'
  BY <1>1, <1>2, MemoryStays, StoreStays, SumStays, Zenon DEF SinkInv
<1>7. Answered'
  <2>1. SettledInStore' = SettledInStore
    BY <1>1 DEF SettledInStore
  <2> QED
    BY <1>1, <2>1, Zenon DEF SinkInv, Answered
<1> QED
  BY <1>2, <1>3, <1>4, <1>5, <1>6, <1>7, Zenon DEF SinkInv

\* A decision that is written leaves the others as they were.
LEMMA ResultsGrow ==
  ASSUME SettledOnFinalRecord, NEW e,
         \A d \in DOMAIN decision' : d # e =>
           /\ d \in DOMAIN decision
           /\ decision'[d].status = decision[d].status
           /\ decision'[d].fixture_id = decision[d].fixture_id
           /\ decision'[d].outcome_side = decision[d].outcome_side,
         e \in DOMAIN decision' /\ decision'[e].status = STATUS_SETTLED =>
           \E i \in FinalRecords(decision'[e].fixture_id) :
             claimedResult(ScoreFeed[Oracle][i]) = decision'[e].outcome_side
  PROVE  SettledOnFinalRecord'
<1>1. ASSUME NEW d \in DOMAIN decision', d[1] = Ours, decision'[d].status = STATUS_SETTLED
      PROVE  \E i \in FinalRecords(decision'[d].fixture_id) :
               claimedResult(ScoreFeed[Oracle][i]) = decision'[d].outcome_side
  <2>1. CASE d = e
    BY <1>1, <2>1, Zenon
  <2>2. CASE d # e
    <3>1. d \in WithStatus(Ours, STATUS_SETTLED)
      BY <1>1, <2>2 DEF WithStatus, DecisionsOf
    <3> QED
      BY <1>1, <2>2, <3>1, Zenon DEF SettledOnFinalRecord
  <2> QED
    BY <2>1, <2>2
<1> QED
  BY <1>1, Zenon DEF SettledOnFinalRecord, WithStatus, DecisionsOf, FinalRecords,
     claimedResult

\* What landing does to the account of the transaction.
LEMMA LandedCommit ==
  ASSUME SinkInv, NEW h \in Hashes, NEW f \in Fixtures, NEW m \in Markets,
         Ours \in DOMAIN strategy, commit_decision(Agent, Ours, h, f, m)
  PROVE  /\ <<Ours, strategy[Ours].decisions_count>> \in DOMAIN decision'
         /\ decision'[<<Ours, strategy[Ours].decisions_count>>].commit_hash = h
         /\ SettledOnFinalRecord'
<1>1. PICK d : d = NextKey(Ours)
  OBVIOUS
<1>2. d = <<Ours, strategy[Ours].decisions_count>>
  BY <1>1 DEF NextKey
<1>3. /\ DOMAIN decision' = DOMAIN decision \cup {d} /\ d \notin DOMAIN decision
      /\ \A e \in DOMAIN decision : decision'[e] = decision[e]
      /\ decision'[d].commit_hash = h /\ decision'[d].status = STATUS_OPEN
  BY <1>1, CommitDecisions, OursTyped DEF SinkInv, ChainTyped
<1>4. STATUS_OPEN # STATUS_SETTLED
  BY DEF STATUS_OPEN, STATUS_SETTLED
<1>5. SettledOnFinalRecord'
  BY <1>3, <1>4, ResultsGrow, Zenon DEF SinkInv
<1> QED
  BY <1>2, <1>3, <1>5, Zenon

LEMMA LandedSettle ==
  ASSUME SinkInv, NEW tx, TxSound(tx), tx.kind = "settle", LandSettle(tx)
  PROVE  SettledOnChain(tx.index)' /\ SettledOnFinalRecord'
<1> DEFINE d == <<Ours, tx.index>>
           record == ScoreFeed[Oracle][tx.record]
           pnl == compute_pnl(claimedResult(record) = tx.reveal.side, tx.reveal.stake,
                              tx.reveal.entry_odds_milli)
           account == Settled(decision[d], claimedResult(record), pnl, now)
<1>1. /\ record.fixture_id = decision[d].fixture_id
      /\ decision' = [decision EXCEPT ![d] = account]
  BY Zenon DEF LandSettle, settle_with
<1>2. d \in DOMAIN decision /\ decision[d] \in DecisionCommit
  BY LandSettleIsSettle DEF SinkInv, ChainTyped, TypeOK
<1>3. /\ account.status = STATUS_SETTLED /\ account.outcome_side = claimedResult(record)
      /\ account.fixture_id = decision[d].fixture_id
  <2>1. PICK x, side, n : x = decision[d] /\ side = claimedResult(record) /\ n = pnl
    OBVIOUS
  <2>2. x = [strategy |-> x.strategy, index |-> x.index,
             commit_hash |-> x.commit_hash, fixture_id |-> x.fixture_id,
             market |-> x.market, commit_unix_ts |-> x.commit_unix_ts,
             status |-> x.status, outcome_side |-> x.outcome_side,
             pnl |-> x.pnl, settle_slot |-> x.settle_slot,
             entry_odds_proven |-> x.entry_odds_proven]
    BY <1>2, <2>1 DEF DecisionCommit
  <2>3. PICK y : y = Settled(x, side, n, now)
    OBVIOUS
  <2>4. y.status = STATUS_SETTLED /\ y.outcome_side = side /\ y.fixture_id = x.fixture_id
    BY <2>2, <2>3 DEF Settled
  <2>5. y = account
    BY <2>1, <2>3, Zenon
  <2> HIDE DEF account, record, pnl, d
  <2> QED
    BY <2>1, <2>4, <2>5, Zenon
<1>4. tx.record \in FinalRecords(decision[d].fixture_id)
  <2>1. tx.record \in FinalRecords(tx.reveal.fixture_id)
    BY Kinds, Zenon DEF SettleSound
  <2> QED
    BY <1>1, <2>1 DEF FinalRecords
<1> HIDE DEF d, record, pnl, account
<1>5. /\ DOMAIN decision' = DOMAIN decision /\ decision'[d] = account
      /\ \A e \in DOMAIN decision : e # d => decision'[e] = decision[e]
  BY <1>1, <1>2
<1>6. claimedResult(ScoreFeed[Oracle][tx.record]) = decision'[d].outcome_side
  BY <1>3, <1>5, Zenon DEF record
<1>7. SettledOnFinalRecord'
  BY <1>3, <1>4, <1>5, <1>6, ResultsGrow, Zenon DEF SinkInv
<1> QED
  BY <1>3, <1>5, <1>7, Zenon DEF SettledOnChain, d

LEMMA LandStep == ASSUME SinkInv, NEW tx \in flying, Land(tx) PROVE SinkInv'
<1>1. /\ flying' = flying \ {tx} /\ UNCHANGED <<run_vars, nonces, restarts>>
      /\ task' = IF task.step = "confirm" /\ task.tx = tx
                 THEN [task EXCEPT !.landed = TRUE] ELSE task
  BY Zenon DEF Land
<1>2. TxSound(tx) /\ Next
  BY LandIsLedger, Zenon DEF SinkInv, FlyingSound
<1>3. /\ task'.op = task.op /\ task'.pos = task.pos /\ task'.step = task.step
      /\ task'.tx = task.tx /\ task'.landed \in BOOLEAN
      /\ task' = [op |-> task'.op, pos |-> task'.pos, step |-> task'.step,
                  tx |-> task'.tx, landed |-> task'.landed]
      /\ ~(task.step = "confirm" /\ task.tx = tx) => task' = task
  <2>1. /\ task = [op |-> task.op, pos |-> task.pos, step |-> task.step,
                   tx |-> task.tx, landed |-> task.landed]
        /\ task.landed \in BOOLEAN
    BY Zenon DEF SinkInv, TaskSound
  <2>2. CASE task.step = "confirm" /\ task.tx = tx
    <3>1. task' = [task EXCEPT !.landed = TRUE]
      BY <1>1, <2>2, Zenon
    <3> QED
      BY <2>1, <2>2, <3>1
  <2>3. CASE ~(task.step = "confirm" /\ task.tx = tx)
    <3>1. task' = task
      BY <1>1, <2>3, Zenon
    <3> QED
      BY <2>1, <3>1, Zenon
  <2> QED
    BY <2>2, <2>3
<1>4. task.op = "none" => task' = task
  <2>1. task.op = "none" => task.step = "idle"
    BY DEF SinkInv, TaskSound, Idle, Call
  <2> QED
    BY <1>3, <2>1
<1>5. /\ SettledOnFinalRecord'
      /\ tx.kind = "commit" => Sealed(Pending(tx))'
      /\ tx.kind = "settle" => SettledOnChain(tx.index)'
  <2>0. tx.kind \in {"initialize", "commit", "settle", "prove"}
    BY <1>2, Kinds
  <2>1. CASE tx.kind = "initialize"
    <3>1. initialize_strategy(Agent, StrategyId, Oracle, StartingBankroll)
      BY <2>1, Zenon DEF Land
    <3>2. UNCHANGED decision
      BY <3>1, Zenon DEF initialize_strategy
    <3> QED
      BY <2>1, <3>2, ResultsStay DEF SinkInv
  <2>2. CASE tx.kind = "commit"
    <3>1. LandCommit(tx)
      BY <2>2, Zenon DEF Land
    <3>2. /\ tx.reveal \in Reveals /\ tx.index \in Nat /\ tx.reveal.index = tx.index
          /\ Ours \in DOMAIN strategy /\ strategy[Ours].decisions_count = tx.index
          /\ compute_commit_hash(tx.reveal) \in Hashes
          /\ tx.reveal.fixture_id \in Fixtures /\ tx.reveal.market \in Markets
          /\ commit_decision(Agent, Ours, compute_commit_hash(tx.reveal),
                             tx.reveal.fixture_id, tx.reveal.market)
      BY <1>2, <2>2, <3>1, LandCommitIsCommit, Zenon DEF SinkInv
    <3>3. /\ <<Ours, tx.index>> \in DOMAIN decision'
          /\ decision'[<<Ours, tx.index>>].commit_hash = compute_commit_hash(tx.reveal)
          /\ SettledOnFinalRecord'
      BY <3>2, LandedCommit, Zenon
    <3>4. Pending(tx).reveal = tx.reveal /\ Pending(tx).onChainIndex = tx.index
      BY DEF Pending
    <3>5. Sealed(Pending(tx))'
      BY <3>2, <3>3, <3>4, Zenon DEF Sealed, Pending
    <3> QED
      BY <2>2, <3>3, <3>5
  <2>3. CASE tx.kind = "settle"
    <3>1. LandSettle(tx)
      BY <2>3, Zenon DEF Land
    <3> QED
      BY <1>2, <2>3, <3>1, LandedSettle
  <2>4. CASE tx.kind = "prove"
    <3>1. LandProve(tx)
      BY <2>4, Zenon DEF Land
    <3>2. PICK d : d = <<Ours, tx.index>>
      OBVIOUS
    <3>3. /\ tx.reveal \in Reveals /\ Ours \in DOMAIN strategy /\ d \in DOMAIN decision
          /\ prove_entry_odds(Agent, Ours, d, tx.reveal)
      BY <1>2, <2>4, <3>1, <3>2, LandProveIsProve, Zenon DEF SinkInv
    <3>4. /\ DOMAIN decision' = DOMAIN decision
          /\ \A e \in DOMAIN decision : e # d => decision'[e] = decision[e]
          /\ decision'[d].fixture_id = decision[d].fixture_id
          /\ decision'[d].status = decision[d].status
          /\ decision'[d].outcome_side = decision[d].outcome_side
      BY <3>3, ProveEffect, OursTyped DEF SinkInv, ChainTyped
    <3>5. \A e \in DOMAIN decision :
            /\ decision'[e].status = decision[e].status
            /\ decision'[e].fixture_id = decision[e].fixture_id
            /\ decision'[e].outcome_side = decision[e].outcome_side
      BY <3>4, Zenon
    <3>6. SettledOnFinalRecord'
      <4>1. WithStatus(Ours, STATUS_SETTLED)' = WithStatus(Ours, STATUS_SETTLED)
        BY <3>4, <3>5 DEF WithStatus, DecisionsOf
      <4>2. \A e \in WithStatus(Ours, STATUS_SETTLED) : e \in DOMAIN decision
        BY DEF WithStatus, DecisionsOf
      <4>3. ASSUME NEW e \in WithStatus(Ours, STATUS_SETTLED)
            PROVE  \E i \in FinalRecords(decision'[e].fixture_id) :
                     claimedResult(ScoreFeed[Oracle][i]) = decision'[e].outcome_side
        <5>1. PICK i \in FinalRecords(decision[e].fixture_id) :
                claimedResult(ScoreFeed[Oracle][i]) = decision[e].outcome_side
          BY <4>3, Zenon DEF SinkInv, SettledOnFinalRecord
        <5> QED
          BY <3>5, <4>2, <5>1, Zenon
      <4>4. \A e \in WithStatus(Ours, STATUS_SETTLED)' :
              \E i \in FinalRecords(decision'[e].fixture_id) :
                claimedResult(ScoreFeed[Oracle][i]) = decision'[e].outcome_side
        BY <4>1, <4>3, Zenon
      <4> QED
        BY <4>4, Zenon DEF SettledOnFinalRecord, FinalRecords, claimedResult
    <3> QED
      BY <2>4, <3>6
  <2> QED
    BY <2>0, <2>1, <2>2, <2>3, <2>4
<1>6. task'.landed => \/ task.landed
                      \/ /\ task.step = "confirm"
                         /\ task.op = "commit" => Sealed(Pending(task.tx))'
                         /\ task.op = "settle" => SettledOnChain(task.tx.index)'
  <2>1. SUFFICES ASSUME task.step = "confirm", task.tx = tx
                 PROVE  /\ task.op = "commit" => Sealed(Pending(task.tx))'
                        /\ task.op = "settle" => SettledOnChain(task.tx.index)'
    BY <1>3, Zenon
  <2>2. task.op = "commit" => tx.kind = "commit"
    <3>1. SUFFICES ASSUME task.op = "commit" PROVE tx.kind = "commit"
      OBVIOUS
    <3>2. tx = CommitTx(tx.reveal)
      BY <2>1, <3>1 DEF SinkInv, TaskSound, InCommit, CommitSound
    <3> QED
      BY <3>2 DEF CommitTx
  <2>3. task.op = "settle" => tx.kind = "settle"
    <3>1. SUFFICES ASSUME task.op = "settle" PROVE tx.kind = "settle"
      OBVIOUS
    <3>2. tx = SettleTx(committed[task.pos], tx.record)
      BY <2>1, <3>1, SettleTask, Zenon
    <3> QED
      BY <3>2 DEF SettleTx
  <2>4. /\ task.op = "commit" => Sealed(Pending(tx))'
        /\ task.op = "settle" => SettledOnChain(tx.index)'
    BY <1>5, <2>2, <2>3
  <2>5. task'.tx = tx
    BY <1>3, <2>1
  <2> QED
    BY <2>1, <2>4, <2>5, Zenon DEF Sealed, Pending, SettledOnChain
<1> QED
  BY <1>1, <1>2, <1>3, <1>4, <1>5, <1>6, WorldStep, Zenon

LEMMA OtherCommitStep == ASSUME SinkInv, OtherCommit PROVE SinkInv'
<1>1. /\ Next /\ Ours \in DOMAIN strategy /\ compute_commit_hash(Foreign) \in Hashes
      /\ Foreign.fixture_id \in Fixtures /\ Foreign.market \in Markets
  BY OtherCommitIsLedger
<1>2. commit_decision(Agent, Ours, compute_commit_hash(Foreign), Foreign.fixture_id,
                      Foreign.market)
      /\ UNCHANGED <<task, flying, nonces, restarts, run_vars>>
  BY Zenon DEF OtherCommit, sink_vars
<1>3. SettledOnFinalRecord'
  BY <1>1, <1>2, LandedCommit, Zenon
<1>4. /\ task = [op |-> task.op, pos |-> task.pos, step |-> task.step,
                 tx |-> task.tx, landed |-> task.landed]
      /\ task.landed \in BOOLEAN
  BY Zenon DEF SinkInv, TaskSound
<1> QED
  BY <1>1, <1>2, <1>3, <1>4, WorldStep, Zenon

\* The clock, the oracle's posts, and steps nobody here sees.
LEMMA PostStep ==
  ASSUME SinkInv, UNCHANGED sink_vars, UNCHANGED decision, [Next]_vars
  PROVE  SinkInv'
<1>1. UNCHANGED <<task, flying, nonces, restarts, run_vars>>
  BY Zenon DEF sink_vars
<1>2. SettledOnFinalRecord'
  BY ResultsStay DEF SinkInv
<1>3. /\ task = [op |-> task.op, pos |-> task.pos, step |-> task.step,
                 tx |-> task.tx, landed |-> task.landed]
      /\ task.landed \in BOOLEAN
  BY Zenon DEF SinkInv, TaskSound
<1> QED
  BY <1>1, <1>2, <1>3, WorldStep, Zenon

LEMMA SinkStep == SinkInv /\ [SinkNext]_<<vars, sink_vars>> => SinkInv'
<1> SUFFICES ASSUME SinkInv, [SinkNext]_<<vars, sink_vars>> PROVE SinkInv'
  OBVIOUS
<1>1. CASE bootstrap \/ BootConfirmed \/ Restart
  BY <1>1, BootStep, BootConfirmedStep, RestartStep, Zenon
<1>2. CASE CommitCall
  BY <1>2, OnCommitStep, SealStep, PortStep, CommitConfirmedStep, Zenon DEF CommitCall
<1>3. CASE SettleCall
  BY <1>3, OnSettleStep, FetchStep, SettleConfirmedStep, ReadStep, DiscoverStep,
     ProveConfirmedStep, Zenon DEF SettleCall
<1>4. CASE \E tx \in flying : Land(tx)
  BY <1>4, LandStep, Zenon
<1>5. CASE OtherCommit
  BY <1>5, OtherCommitStep
<1>6. CASE (PostScore(Oracle) \/ PostOdds(Oracle) \/ Tick) /\ UNCHANGED sink_vars
  <2>1. Next
    BY <1>6, OursTyped, Zenon DEF Next, Post
  <2>2. UNCHANGED decision
    BY <1>6, Zenon DEF PostScore, PostOdds, Tick
  <2> QED
    BY <1>6, <2>1, <2>2, PostStep, Zenon
<1>7. CASE UNCHANGED <<vars, sink_vars>>
  <2>1. UNCHANGED decision /\ UNCHANGED vars /\ UNCHANGED sink_vars
    BY <1>7, Zenon DEF vars
  <2> QED
    BY <2>1, PostStep, Zenon
<1> QED
  BY <1>1, <1>2, <1>3, <1>4, <1>5, <1>6, <1>7, Zenon DEF SinkNext, World

LEMMA SinkInvInit == SinkInit => SinkInv
<1> SUFFICES ASSUME SinkInit PROVE SinkInv
  OBVIOUS
<1>1. /\ Init /\ task = Boot /\ calls = 0 /\ settleCalls = {}
      /\ DOMAIN committed = {} /\ DOMAIN store = {} /\ store = [p \in {} |-> 0]
      /\ realizedPnl = 0 /\ errors = {} /\ flying = {} /\ nonces = 0 /\ restarts = 0
  BY DEF SinkInit
<1>2. ChainTyped
  <2>1. \A p \in Programs : Len(ScoreFeed[p]) \in Nat /\ Len(OddsFeed[p]) \in Nat
    BY LedgerAssumption
  <2>2. \A p \in Programs : scoresPosted[p] = 0 /\ oddsPosted[p] = 0
    BY <1>1 DEF Init
  <2>3. FeedsBounded /\ OddsBounded
    BY <2>1, <2>2 DEF FeedsBounded, OddsBounded
  <2> QED
    BY <1>1, <2>3, TypeInit DEF ChainTyped
<1>3. /\ task.op = "boot" /\ task.step = "boot" /\ task.landed = FALSE
      /\ task = [op |-> task.op, pos |-> task.pos, step |-> task.step,
                 tx |-> task.tx, landed |-> task.landed]
  BY <1>1 DEF Boot, Call
<1>4. TaskSound
  BY <1>3 DEF TaskSound, InBoot, InCommit, InSettle, InProve
<1>5. SinkTypeOK
  <2>1. 0 \in 0..MaxRestarts /\ 0 \in 0..MaxNonce /\ 0 \in 0..Len(Decisions)
    BY SinkAssumption
  <2>2. store \in [DOMAIN store -> StoreView]
    BY <1>1
  <2> QED
    BY <1>1, <1>3, <2>1, <2>2 DEF SinkTypeOK
<1>6. FlyingSound /\ MemorySound /\ StoreSound
  BY <1>1 DEF FlyingSound, MemorySound, StoreSound
<1>7. SumSound
  <2>1. DOMAIN PnlsShown = {}
    BY <1>1 DEF PnlsShown, SettledInStore
  <2> QED
    BY <1>1, <2>1, SumEmpty DEF SumSound
<1>8. Answered
  <2>1. 0..calls - 1 = {}
    BY <1>1
  <2> QED
    BY <1>1, <2>1 DEF Answered
<1>9. SettledOnFinalRecord
  BY <1>1 DEF Init, SettledOnFinalRecord, WithStatus, DecisionsOf
<1> QED
  BY <1>2, <1>4, <1>5, <1>6, <1>7, <1>8, <1>9 DEF SinkInv

\* What OnChainSink keeps between two awaits, whichever of its transactions land,
\* are lost or land after it gave up on them, and across restarts of the agent.
THEOREM SinkSafety == SinkSpec => []SinkInv
  BY SinkInvInit, SinkStep, PTL DEF SinkSpec

\* Whatever the agent, its second wallet holder, the oracle and the network do,
\* the chain they share behaves as the ledger program alone allows: each
\* transaction OnChainSink sends lands as one instruction of lib.rs with
\* arguments that instruction accepts from anyone.
THEOREM ChainIsLedger == SinkSpec => Spec
<1>1. SinkInv /\ [SinkNext]_<<vars, sink_vars>> => [Next]_vars
  BY LedgerStep, Zenon DEF SinkInv
<1>2. SinkInit => Init
  BY DEF SinkInit
<1> QED
  BY <1>1, <1>2, SinkSafety, PTL DEF SinkSpec, Spec

\* So what is proved of the ledger holds of the chain the agent runs on: its
\* counters, its commit log, and settlement on proof.
THEOREM ChainIsConsistent ==
  SinkSpec => [](TypeOK /\ LogBindsHistory /\ SettledOnProof /\ LedgerAgrees)
  BY ChainIsLedger, TypeCorrect, LogIsBinding, SettlementIsOnProof, LedgerIsConsistent, PTL

\* A remembered reveal is the seal of the account it is stored for: the port
\* reads decisions_count again and the program derives the address from it, so
\* neither a second holder of the wallet nor a transaction that lands late can
\* come between them.
THEOREM RevealsFit == SinkSpec => []RevealFitsChain
<1>1. SinkInv => RevealFitsChain
  BY Zenon DEF SinkInv, MemorySound, Sealed, RevealFitsChain
<1> QED
  BY <1>1, SinkSafety, PTL

\* What the store shows of a position is what its decision account says, no two
\* positions show one account, and realizedPnl is the sum of what is shown.
THEOREM StoreIsBacked == SinkSpec => []StoreBackedByChain
<1>1. ASSUME SinkInv PROVE StoreBackedByChain
  <2>1. SinkTypeOK /\ DOMAIN store = DOMAIN committed
    BY <1>1, Zenon DEF SinkInv, SinkTypeOK
  <2>2. realizedPnl = SumFunction([p \in SettledInStore |-> store[p].pnl])
    BY <1>1, Zenon DEF SinkInv, SumSound, PnlsShown
  <2>3. ASSUME NEW p \in DOMAIN store, NEW q \in DOMAIN store, q # p
        PROVE  store[q].onChainIndex # store[p].onChainIndex
    <3>1. /\ Sealed(committed[p]) /\ Sealed(committed[q])
          /\ store[p].onChainIndex = committed[p].onChainIndex
          /\ store[q].onChainIndex = committed[q].onChainIndex
          /\ committed[p].reveal.nonce # committed[q].reveal.nonce
      BY <1>1, <2>1, <2>3, Zenon DEF SinkInv, MemorySound
    <3>2. ASSUME NEW r, NEW t, compute_commit_hash(r) = compute_commit_hash(t)
          PROVE  r = t
      BY <3>2 DEF compute_commit_hash
    <3>3. SUFFICES ASSUME store[q].onChainIndex = store[p].onChainIndex PROVE FALSE
      OBVIOUS
    <3>4. compute_commit_hash(committed[q].reveal) = compute_commit_hash(committed[p].reveal)
      BY <3>1, <3>3, Zenon DEF Sealed
    <3> QED
      BY <3>1, <3>2, <3>4, Zenon
  <2>4. \A p \in DOMAIN store : Shown(p)
    BY <1>1, Zenon DEF SinkInv, StoreSound
  <2> QED
    BY <2>1, <2>2, <2>3, <2>4, Zenon DEF StoreBackedByChain, Shown
<1> QED
  BY <1>1, SinkSafety, PTL

\* No commit and no settlement the pipeline asked for disappears: when no call
\* is running, each one is in the store or among its errors.
THEOREM FailuresAreTold == SinkSpec => []FailuresRecorded
<1>1. SinkInv => FailuresRecorded
  <2>1. Idle.op = "none"
    BY DEF Idle, Call
  <2> QED
    BY <2>1 DEF SinkInv, Answered, FailuresRecorded
<1> QED
  BY <1>1, SinkSafety, PTL

\* The program takes any score of the fixture; the agent's strategy is only ever
\* settled on a final one, as long as the agent alone settles its decisions.
THEOREM ResultsAreFinal == SinkSpec => []SettledOnFinalRecord
  BY SinkSafety, PTL DEF SinkInv
=============================================================================
