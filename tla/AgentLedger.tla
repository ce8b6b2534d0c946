---------------------------- MODULE AgentLedger ----------------------------
(***************************************************************************)
(* The on-chain program programs/agent_ledger: one ledger account per      *)
(* strategy, one account per committed decision, and the five instructions *)
(* that change them.  A decision is committed as a hash, settled by        *)
(* revealing the hashed fields together with an oracle proof of the score, *)
(* or voided inside a grace window; a settled decision can also have its   *)
(* entry price proven.                                                     *)
(*                                                                         *)
(* A Solana transaction is atomic and a failing one leaves no trace, so    *)
(* each instruction is one action whose guard is the conjunction of the    *)
(* account constraints and of every require! of the handler.  Accounts are *)
(* functions keyed by their program-derived address; an address that is    *)
(* not in the domain has no account.                                       *)
(*                                                                         *)
(* External: the txoracle program.  It is modelled by the score and odds   *)
(* records it has posted so far and by what its two validation calls       *)
(* assert about them.                                                      *)
(***************************************************************************)
EXTENDS Integers, FiniteSets, Sequences, Functions

CONSTANTS
  Authorities,        (* wallets that can sign                             *)
  StrategyIds,        (* the strategy_id part of a strategy's address      *)
  Fixtures,
  Markets,
  Programs,           (* programs a strategy can pin as its oracle         *)
  Bankrolls,          (* starting bankrolls                                *)
  Reveals,            (* the sealed decisions wallets ever hash            *)
  ScoreFeed,          (* per program, the score records it posts, in order *)
  OddsFeed,           (* per program, the odds records it posts, in order  *)
  Timestamps,         (* ts arguments of settle and prove                  *)
  DayLength,          (* 86_400_000 in the code                            *)
  MaxDay,             (* u16::MAX in the code                              *)
  VOID_GRACE_SECONDS, (* 21_600 in the code                                *)
  MaxI64,             (* the widths of the ledger's integers               *)
  MaxU64,
  MaxDecisions,       (* bound: decisions per strategy                     *)
  MaxTime             (* bound: the clock                                  *)

STATUS_OPEN    == 0
STATUS_SETTLED == 1
STATUS_VOID    == 2
Statuses == {STATUS_OPEN, STATUS_SETTLED, STATUS_VOID}

SIDE_HOME == 0
SIDE_DRAW == 1
SIDE_AWAY == 2
Sides == {SIDE_HOME, SIDE_DRAW, SIDE_AWAY}

STAT_KEY_PARTICIPANT1 == 1
STAT_KEY_PARTICIPANT2 == 2
FULL_GAME_PERIOD      == 0
StatKeys == {STAT_KEY_PARTICIPANT1, STAT_KEY_PARTICIPANT2}
Periods  == {FULL_GAME_PERIOD, 1}       (* 1 stands for the first half *)

SUPER_ODDS_TYPE_1X2 == "1X2_PARTICIPANT_RESULT"

\* Seeds [STRATEGY_SEED, authority, strategy_id] and [COMMIT_SEED, strategy,
\* index]: an address is the tuple of what it is derived from.
StrategyKeys == Authorities \X StrategyIds
CommitKeys   == StrategyKeys \X (0..MaxDecisions - 1)

\* u8 sides outside 0..2 stand for one value, 3.  fair_prob_bps, signal_hash
\* and nonce only make seals differ; "nonce" stands for all three.
RevealArgs ==
  [strategy : StrategyKeys, index : Nat, fixture_id : Fixtures,
   market : Markets, side : 0..3, entry_odds_milli : Nat,
   stake : 0..MaxU64, nonce : Nat]

\* keccak256 over the borsh bytes is injective on what the model can tell apart.
compute_commit_hash(reveal) == [keccak |-> reveal]
Hashes == [keccak : Reveals]

StatTerms == StatKeys \X Periods
ScoreRecord ==
  [fixture_id : Fixtures, ts : Nat, final : BOOLEAN, stat : [StatTerms -> Nat]]
OddsRecord ==
  [fixture_id : Fixtures, ts : Nat, super_odds_type : STRING,
   price_names : Seq(STRING), prices : Seq(Int)]

ASSUME LedgerAssumption ==
  /\ Reveals \subseteq RevealArgs
  /\ Bankrolls \subseteq 0..MaxU64
  /\ ScoreFeed \in [Programs -> Seq(ScoreRecord)]
  /\ OddsFeed \in [Programs -> Seq(OddsRecord)]
  /\ Timestamps \subseteq Int
  /\ DayLength \in Nat \ {0} /\ MaxDay \in Nat
  /\ VOID_GRACE_SECONDS \in Nat
  /\ MaxI64 \in Nat /\ MaxU64 \in Nat /\ MaxI64 <= MaxU64
  /\ MaxDecisions \in Nat /\ MaxTime \in Nat

VARIABLES
  strategy,      (* Strategy accounts by address                           *)
  decision,      (* DecisionCommit accounts by address                     *)
  now,           (* Clock: unix_timestamp, and slot, which advances with it *)
  scoresPosted,  (* how much of ScoreFeed each program has posted          *)
  oddsPosted     (* how much of OddsFeed each program has posted           *)

vars == <<strategy, decision, now, scoresPosted, oddsPosted>>
----------------------------------------------------------------------------
(***************************************************************************)
(* logic.rs.  Where the code returns an Option, the operator that decides  *)
(* whether it is Some is separate from the one that gives its value.       *)
(***************************************************************************)
InI64(n) == n \in -(MaxI64 + 1)..MaxI64

Comparison(claimed_result) ==
  CASE claimed_result = SIDE_HOME -> "GreaterThan"
    [] claimed_result = SIDE_DRAW -> "EqualTo"
    [] claimed_result = SIDE_AWAY -> "LessThan"
    [] OTHER -> "None"

\* The predicate over (home goals - away goals); its threshold is always 0.
predicate_for_claim(claimed_result, difference) ==
  \/ Comparison(claimed_result) = "GreaterThan" /\ difference > 0
  \/ Comparison(claimed_result) = "EqualTo" /\ difference = 0
  \/ Comparison(claimed_result) = "LessThan" /\ difference < 0

CanonicalLabels(side) ==
  CASE side = SIDE_HOME -> {"1", "part1"}
    [] side = SIDE_DRAW -> {"x", "draw"}
    [] side = SIDE_AWAY -> {"2", "part2"}
    [] OTHER -> {}

MatchesAnyLabel(side, label) ==                       \* mutant
  label \in UNION {CanonicalLabels(x) : x \in Sides}

\* Labels are given trimmed and in lower case.
side_matches_label(side, label) == label \in CanonicalLabels(side)

PnlIsSome(won, stake, entry_odds_milli) ==
  IF won
  THEN /\ entry_odds_milli >= 1000
       /\ stake * (entry_odds_milli - 1000) <= MaxU64
       /\ (stake * (entry_odds_milli - 1000)) \div 1000 <= MaxI64
  ELSE stake <= MaxI64

compute_pnl(won, stake, entry_odds_milli) ==
  IF won THEN (stake * (entry_odds_milli - 1000)) \div 1000 ELSE -stake

ApplyIsSome(bankroll, pnl) == pnl >= 0 => bankroll + pnl <= MaxU64

ApplyUnsaturated(bankroll, pnl) == bankroll + pnl     \* mutant

\* Saturates at 0.
apply_pnl(bankroll, pnl) == IF bankroll + pnl < 0 THEN 0 ELSE bankroll + pnl

EpochDayIsSome(ts) == ts >= 0 /\ ts \div DayLength <= MaxDay
epoch_day_le(ts) == ts \div DayLength
----------------------------------------------------------------------------
(***************************************************************************)
(* The txoracle program, external.  A record is provable once posted, in   *)
(* the daily root of its own day.                                          *)
(***************************************************************************)
ScoresRoot(program, day) ==
  {ScoreFeed[program][i] : i \in
     {j \in 1..scoresPosted[program] :
        epoch_day_le(ScoreFeed[program][j].ts) = day}}

OddsRoot(program, day) ==
  {OddsFeed[program][i] : i \in
     {j \in 1..oddsPosted[program] :
        epoch_day_le(OddsFeed[program][j].ts) = day}}

ResultIgnored(program, day, record, claimed_result, home, away) ==  \* mutant
  record \in ScoresRoot(program, day)

cpi_validate_stat(program, day, record, claimed_result, home, away) ==
  /\ record \in ScoresRoot(program, day)
  /\ predicate_for_claim(claimed_result, record.stat[home] - record.stat[away])

cpi_validate_odds(program, day, record) == record \in OddsRoot(program, day)

PostScore(program) ==
  /\ scoresPosted[program] < Len(ScoreFeed[program])
  /\ ScoreFeed[program][scoresPosted[program] + 1].ts <= now
  /\ scoresPosted' = [scoresPosted EXCEPT ![program] = @ + 1]
  /\ UNCHANGED <<strategy, decision, now, oddsPosted>>

PostOdds(program) ==
  /\ oddsPosted[program] < Len(OddsFeed[program])
  /\ OddsFeed[program][oddsPosted[program] + 1].ts <= now
  /\ oddsPosted' = [oddsPosted EXCEPT ![program] = @ + 1]
  /\ UNCHANGED <<strategy, decision, now, scoresPosted>>

Tick ==
  /\ now < MaxTime
  /\ now' = now + 1
  /\ UNCHANGED <<strategy, decision, scoresPosted, oddsPosted>>
----------------------------------------------------------------------------
(***************************************************************************)
(* Account constraints (the #[derive(Accounts)] structs of lib.rs).        *)
(***************************************************************************)
Create(accounts, key, account) ==
  [k \in DOMAIN accounts \cup {key} |->
     IF k = key THEN account ELSE accounts[k]]

StrategyAccounts(signer, s) ==
  /\ s \in DOMAIN strategy
  /\ strategy[s].authority = signer                \* has_one = authority

DecisionAccounts(signer, s, d) ==
  /\ StrategyAccounts(signer, s)
  /\ d \in DOMAIN decision
  /\ decision[d].strategy = s                      \* has_one = strategy
  /\ d = <<s, decision[d].index>>                  \* seeds

RevealOfAnyMarket(s, d, reveal) ==                    \* mutant
  /\ compute_commit_hash(reveal) = decision[d].commit_hash
  /\ reveal.fixture_id = decision[d].fixture_id
  /\ reveal.strategy = s
  /\ reveal.side \in Sides

\* The checks settle_decision and prove_entry_odds both make of the reveal.
RevealMatches(s, d, reveal) ==
  /\ compute_commit_hash(reveal) = decision[d].commit_hash
  /\ reveal.fixture_id = decision[d].fixture_id
  /\ reveal.market = decision[d].market
  /\ reveal.strategy = s
  /\ reveal.side \in Sides

CountThenLog(account, commit_hash) ==                 \* mutant
  [account EXCEPT
     !.commit_log_root = Append(@, <<commit_hash, account.decisions_count + 1>>),
     !.decisions_count = @ + 1,
     !.open_count = @ + 1]

LogRestarts(account, commit_hash) ==                  \* mutant: the old root is left out
  [account EXCEPT
     !.commit_log_root = << <<commit_hash, account.decisions_count>> >>,
     !.decisions_count = @ + 1,
     !.open_count = @ + 1]

PayFromStart(account, won, pnl) ==                    \* mutant
  [account EXCEPT
     !.realized_pnl = @ + pnl,
     !.bankroll = apply_pnl(account.starting_bankroll, pnl),
     !.open_count = @ - 1,
     !.settled_count = @ + 1,
     !.wins = IF won THEN @ + 1 ELSE @,
     !.losses = IF won THEN @ ELSE @ + 1]

VoidStaysOpen(account) == [account EXCEPT !.pushes = @ + 1]   \* mutant

\* What the instructions write to an account they change.
CountCommit(account, commit_hash) ==
  [account EXCEPT
     !.commit_log_root = Append(@, <<commit_hash, account.decisions_count>>),
     !.decisions_count = @ + 1,
     !.open_count = @ + 1]

CountSettled(account, won, pnl) ==
  [account EXCEPT
     !.realized_pnl = @ + pnl,
     !.bankroll = apply_pnl(@, pnl),
     !.open_count = @ - 1,
     !.settled_count = @ + 1,
     !.wins = IF won THEN @ + 1 ELSE @,
     !.losses = IF won THEN @ ELSE @ + 1]

CountVoid(account) ==
  [account EXCEPT !.open_count = @ - 1, !.pushes = @ + 1]

Settled(account, claimed_result, pnl, slot) ==
  [account EXCEPT
     !.status = STATUS_SETTLED,
     !.outcome_side = claimed_result,
     !.pnl = pnl,
     !.settle_slot = slot]

Voided(account, slot) ==
  [account EXCEPT !.status = STATUS_VOID, !.pnl = 0, !.settle_slot = slot]

Proven(account) == [account EXCEPT !.entry_odds_proven = TRUE]

NewStrategy(authority, strategy_id, txline_program, starting_bankroll) ==
  [authority |-> authority, strategy_id |-> strategy_id,
   txline_program |-> txline_program,
   starting_bankroll |-> starting_bankroll,
   bankroll |-> starting_bankroll, realized_pnl |-> 0,
   decisions_count |-> 0, open_count |-> 0, settled_count |-> 0,
   wins |-> 0, losses |-> 0, pushes |-> 0, commit_log_root |-> <<>>]

InitIfNeeded(authority, strategy_id, txline_program, starting_bankroll) == \* mutant
  /\ strategy' = Create(strategy, <<authority, strategy_id>>,
       NewStrategy(authority, strategy_id, txline_program, starting_bankroll))
  /\ UNCHANGED <<decision, now, scoresPosted, oddsPosted>>

initialize_strategy(authority, strategy_id, txline_program, starting_bankroll) ==
  LET s == <<authority, strategy_id>> IN
  /\ s \notin DOMAIN strategy                      \* init
  /\ strategy' = Create(strategy, s,
       NewStrategy(authority, strategy_id, txline_program, starting_bankroll))
  /\ UNCHANGED <<decision, now, scoresPosted, oddsPosted>>

\* Nothing ties commit_hash to the routing fields until the reveal.  The root
\* keccak(root, commit_hash, index) is the sequence of what was folded into it.
\* The checked_add of the counters cannot fail under MaxDecisions.
commit_decision(signer, s, commit_hash, fixture_id, market) ==
  /\ StrategyAccounts(signer, s)
  /\ strategy[s].decisions_count < MaxDecisions
  /\ LET index == strategy[s].decisions_count
         d == <<s, index>>
     IN  /\ d \notin DOMAIN decision               \* init
         /\ decision' = Create(decision, d,
              [strategy |-> s, index |-> index, commit_hash |-> commit_hash,
               fixture_id |-> fixture_id, market |-> market,
               commit_unix_ts |-> now, status |-> STATUS_OPEN,
               outcome_side |-> 0, pnl |-> 0, settle_slot |-> 0,
               entry_odds_proven |-> FALSE])
         /\ strategy' = [strategy EXCEPT ![s] = CountCommit(@, commit_hash)]
  /\ UNCHANGED <<now, scoresPosted, oddsPosted>>

SettleAccounts(signer, s, d, reveal) ==
  /\ DecisionAccounts(signer, s, d)
  /\ decision[d].status = STATUS_OPEN
  /\ RevealMatches(s, d, reveal)

\* The handler on one SettleArgs: record i is the score the proof is about.  The
\* roots account is re-derived from ts and the pinned program, so the CPI reads
\* that program's root for that day.
settle_with(s, d, reveal, txline_program, ts, claimed_result, i, home, away) ==
  LET record == ScoreFeed[txline_program][i]
      won == claimed_result = reveal.side
      pnl == compute_pnl(won, reveal.stake, reveal.entry_odds_milli)
  IN
  /\ record.fixture_id = decision[d].fixture_id    \* fixture_summary
  /\ home = <<STAT_KEY_PARTICIPANT1, FULL_GAME_PERIOD>>
  /\ away = <<STAT_KEY_PARTICIPANT2, FULL_GAME_PERIOD>>
  /\ txline_program = strategy[s].txline_program
  /\ claimed_result \in Sides
  /\ EpochDayIsSome(ts)
  /\ cpi_validate_stat(txline_program, epoch_day_le(ts), record,
                       claimed_result, home, away)
  /\ PnlIsSome(won, reveal.stake, reveal.entry_odds_milli)
  /\ InI64(strategy[s].realized_pnl + pnl)
  /\ ApplyIsSome(strategy[s].bankroll, pnl)
  /\ strategy[s].open_count > 0                    \* checked_sub
  /\ decision' = [decision EXCEPT ![d] = Settled(@, claimed_result, pnl, now)]
  /\ strategy' = [strategy EXCEPT ![s] = CountSettled(@, won, pnl)]

settle_decision(signer, s, d, reveal) ==
  /\ SettleAccounts(signer, s, d, reveal)
  /\ \E txline_program \in Programs, ts \in Timestamps, claimed_result \in 0..3 :
     \E i \in 1..scoresPosted[txline_program], home, away \in StatTerms :
       settle_with(s, d, reveal, txline_program, ts, claimed_result, i, home, away)
  /\ UNCHANGED <<now, scoresPosted, oddsPosted>>

ProveAccounts(signer, s, d, reveal) ==
  /\ DecisionAccounts(signer, s, d)
  /\ decision[d].status = STATUS_SETTLED
  /\ ~decision[d].entry_odds_proven
  /\ RevealMatches(s, d, reveal)

\* What the handler asks of one ProveOddsArgs: record i is the snapshot.
\* side_index counts from 0 in the code and from 1 here.
prove_with(s, d, reveal, txline_program, ts, i, side_index) ==
  LET record == OddsFeed[txline_program][i] IN
  /\ record.fixture_id = decision[d].fixture_id
  /\ record.super_odds_type = SUPER_ODDS_TYPE_1X2
  /\ Len(record.price_names) = Len(record.prices)
  /\ side_index \in DOMAIN record.price_names
  /\ side_matches_label(reveal.side, record.price_names[side_index])
  /\ record.prices[side_index] >= 0
  /\ record.prices[side_index] = reveal.entry_odds_milli
  /\ txline_program = strategy[s].txline_program
  /\ EpochDayIsSome(ts)
  /\ cpi_validate_odds(txline_program, epoch_day_le(ts), record)

prove_entry_odds(signer, s, d, reveal) ==
  /\ ProveAccounts(signer, s, d, reveal)
  /\ \E txline_program \in Programs, ts \in Timestamps :
     \E i \in 1..oddsPosted[txline_program], side_index \in 1..4 :
       prove_with(s, d, reveal, txline_program, ts, i, side_index)
  /\ decision' = [decision EXCEPT ![d] = Proven(@)]
  /\ UNCHANGED <<strategy, now, scoresPosted, oddsPosted>>

\* The reveal is only compared with the seal, not with the routing fields.
void_decision(signer, s, d, reveal) ==
  /\ DecisionAccounts(signer, s, d)
  /\ decision[d].status = STATUS_OPEN
  /\ compute_commit_hash(reveal) = decision[d].commit_hash
  /\ now - decision[d].commit_unix_ts <= VOID_GRACE_SECONDS
  /\ decision' = [decision EXCEPT ![d] = Voided(@, now)]
  /\ strategy[s].open_count > 0                    \* checked_sub
  /\ strategy' = [strategy EXCEPT ![s] = CountVoid(@)]
  /\ UNCHANGED <<now, scoresPosted, oddsPosted>>
----------------------------------------------------------------------------
Init ==
  /\ strategy = [s \in {} |-> 0]
  /\ decision = [d \in {} |-> 0]
  /\ now = 0
  /\ scoresPosted = [p \in Programs |-> 0]
  /\ oddsPosted = [p \in Programs |-> 0]

Initialize ==
  \E a \in Authorities, id \in StrategyIds, p \in Programs, b \in Bankrolls :
    initialize_strategy(a, id, p, b)

Commit ==
  \E a \in Authorities, s \in DOMAIN strategy, h \in Hashes,
     f \in Fixtures, m \in Markets : commit_decision(a, s, h, f, m)

Settle ==
  \E a \in Authorities, d \in DOMAIN decision, s \in DOMAIN strategy,
     r \in Reveals : settle_decision(a, s, d, r)

Prove ==
  \E a \in Authorities, d \in DOMAIN decision, s \in DOMAIN strategy,
     r \in Reveals : prove_entry_odds(a, s, d, r)

Void ==
  \E a \in Authorities, d \in DOMAIN decision, s \in DOMAIN strategy,
     r \in Reveals : void_decision(a, s, d, r)

Post == \E p \in Programs : PostScore(p) \/ PostOdds(p)

Next == Initialize \/ Commit \/ Settle \/ Prove \/ Void \/ Post \/ Tick

Spec == Init /\ [][Next]_vars
----------------------------------------------------------------------------
StrategyAccount ==
  [authority : Authorities, strategy_id : StrategyIds,
   txline_program : Programs, starting_bankroll : 0..MaxU64,
   bankroll : 0..MaxU64, realized_pnl : -(MaxI64 + 1)..MaxI64,
   decisions_count : Nat, open_count : Nat, settled_count : Nat,
   wins : Nat, losses : Nat, pushes : Nat, commit_log_root : Seq(Hashes \X Nat)]

DecisionCommit ==
  [strategy : StrategyKeys, index : Nat, commit_hash : Hashes,
   fixture_id : Fixtures, market : Markets, commit_unix_ts : Nat,
   status : Statuses, outcome_side : Sides, pnl : Int,
   settle_slot : Nat, entry_odds_proven : BOOLEAN]

\* Every account holds values of its fields' types, widths included, and lives
\* at an address of its kind.
TypeOK ==
  /\ DOMAIN strategy \subseteq StrategyKeys
  /\ DOMAIN decision \subseteq CommitKeys
  /\ strategy \in [DOMAIN strategy -> StrategyAccount]
  /\ decision \in [DOMAIN decision -> DecisionCommit]
  /\ now \in Nat
  /\ scoresPosted \in [Programs -> Nat]
  /\ oddsPosted \in [Programs -> Nat]

DecisionsOf(s)    == {d \in DOMAIN decision : d[1] = s}
WithStatus(s, st) == {d \in DecisionsOf(s) : decision[d].status = st}
SealOf(d)         == decision[d].commit_hash.keccak
WonBy(s)          == {d \in WithStatus(s, STATUS_SETTLED) :
                        decision[d].outcome_side = SealOf(d).side}

RecountMatches(s) ==
  /\ strategy[s].decisions_count = Cardinality(DecisionsOf(s))
  /\ strategy[s].open_count = Cardinality(WithStatus(s, STATUS_OPEN))
  /\ strategy[s].settled_count = Cardinality(WithStatus(s, STATUS_SETTLED))
  /\ strategy[s].pushes = Cardinality(WithStatus(s, STATUS_VOID))
  /\ strategy[s].wins = Cardinality(WonBy(s))
  /\ strategy[s].wins + strategy[s].losses = strategy[s].settled_count

\* The counters lib.rs increments and decrements one by one across three
\* instructions always equal what a recount of the decision accounts would
\* give; in particular open_count never meets its checked_sub at 0 while a
\* decision is open.
CountersAgree == \A s \in DOMAIN strategy : RecountMatches(s)

\* The full-game goals of a record decide exactly one 1X2 result.
ResultOf(record) ==
  LET difference == record.stat[<<STAT_KEY_PARTICIPANT1, FULL_GAME_PERIOD>>]
                    - record.stat[<<STAT_KEY_PARTICIPANT2, FULL_GAME_PERIOD>>]
  IN  CHOOSE side \in Sides : predicate_for_claim(side, difference)

AttestedBy(program, fixture_id, side) ==
  \E i \in 1..scoresPosted[program] :
    /\ ScoreFeed[program][i].fixture_id = fixture_id
    /\ ResultOf(ScoreFeed[program][i]) = side

SettledWell(d) ==
  LET x == decision[d]
      seal == SealOf(d)
  IN  x.status = STATUS_SETTLED =>
        /\ seal.strategy = d[1] /\ seal.side \in Sides
        /\ seal.fixture_id = x.fixture_id /\ seal.market = x.market
        /\ AttestedBy(strategy[d[1]].txline_program, x.fixture_id,
                      x.outcome_side)
        /\ x.pnl = compute_pnl(x.outcome_side = seal.side, seal.stake,
                               seal.entry_odds_milli)

\* A settled decision was revealed as what was sealed, carries the result that
\* a score the pinned oracle posted for its own fixture gives, and pays what
\* the sealed stake and odds pay for that result (settle_decision, V1 and V2 of
\* docs/audit/M8-audit.md).
SettledOnProof == \A d \in DOMAIN decision : SettledWell(d)

PricePublished(program, fixture_id, seal) ==
  \E i \in 1..oddsPosted[program] :
    LET o == OddsFeed[program][i] IN
    /\ o.fixture_id = fixture_id
    /\ o.super_odds_type = SUPER_ODDS_TYPE_1X2
    /\ \E j \in DOMAIN o.price_names :
         /\ j \in DOMAIN o.prices
         /\ o.price_names[j] \in CanonicalLabels(seal.side)
         /\ o.prices[j] = seal.entry_odds_milli

PriceWell(d) ==
  decision[d].entry_odds_proven =>
    /\ decision[d].status = STATUS_SETTLED
    /\ PricePublished(strategy[d[1]].txline_program, decision[d].fixture_id,
                      SealOf(d))

\* An entry price is only marked proven on a settled decision, and only if the
\* pinned oracle posted that very price for the sealed side of that fixture's
\* 1X2 market (prove_entry_odds).
EntryOddsPublished == \A d \in DOMAIN decision : PriceWell(d)

\* commit_log_root binds the whole commit history: entry i is decision i's
\* seal, still unchanged in its account, and there is no other decision.
LogBindsHistory ==
  /\ \A s \in DOMAIN strategy :
       LET root == strategy[s].commit_log_root IN
       /\ Len(root) = strategy[s].decisions_count
       /\ \A i \in 1..Len(root) :
            /\ <<s, i - 1>> \in DOMAIN decision
            /\ root[i] = <<decision[<<s, i - 1>>].commit_hash, i - 1>>
  /\ \A d \in DOMAIN decision :
       d[1] \in DOMAIN strategy /\ d[2] < strategy[d[1]].decisions_count

PnlOf(s) == [d \in DecisionsOf(s) |-> decision[d].pnl]

\* realized_pnl is the sum of the PnL written on the decisions, the voided ones
\* adding nothing.
RealizedIsSum ==
  \A s \in DOMAIN strategy :
    strategy[s].realized_pnl = SumFunction(PnlOf(s))

\* What a strategy reports about itself is what its decision accounts say.
LedgerAgrees == CountersAgree /\ RealizedIsSum

\* The bankroll never reports less than what the settlements add up to: it
\* differs from starting_bankroll + realized_pnl only by the losses that
\* apply_pnl absorbed at zero.
BankrollDominates ==
  \A s \in DOMAIN strategy :
    strategy[s].bankroll >= strategy[s].starting_bankroll + strategy[s].realized_pnl

Advance ==
  /\ \A s \in DOMAIN strategy :
       /\ s \in DOMAIN strategy'
       /\ strategy'[s].txline_program = strategy[s].txline_program
       /\ strategy'[s].starting_bankroll = strategy[s].starting_bankroll
  /\ \A d \in DOMAIN decision :
       /\ d \in DOMAIN decision'
       /\ decision'[d].commit_hash = decision[d].commit_hash
       /\ decision'[d].fixture_id = decision[d].fixture_id
       /\ decision'[d].commit_unix_ts = decision[d].commit_unix_ts
       /\ decision[d].entry_odds_proven => decision'[d].entry_odds_proven
       /\ decision[d].status # STATUS_OPEN =>
            /\ decision'[d].status = decision[d].status
            /\ decision'[d].outcome_side = decision[d].outcome_side
            /\ decision'[d].pnl = decision[d].pnl

\* The identity and pinned oracle of a strategy, and the sealed fields of a
\* decision, never change; a decision only leaves OPEN, and a settlement, its
\* outcome and its PnL are never revised (NotOpen, OddsAlreadyProven).
AccountsOnlyAdvance == [][Advance]_<<strategy, decision>>

----------------------------------------------------------------------------
(***************************************************************************)
(* The ledger implements SealedBets: a decision account is a bet, and a    *)
(* score record posted by a program attests its result.                    *)
(***************************************************************************)
BetState(d) ==
  CASE decision[d].status = STATUS_OPEN -> "open"
    [] decision[d].status = STATUS_SETTLED -> "settled"
    [] OTHER -> "void"

BetResult(d) ==
  IF decision[d].status = STATUS_SETTLED THEN decision[d].outcome_side ELSE 3

BetOf(d) ==
  [oracle |-> strategy[d[1]].txline_program, fixture |-> decision[d].fixture_id,
   seal |-> decision[d].commit_hash, state |-> BetState(d),
   result |-> BetResult(d), paid |-> decision[d].pnl,
   priceConfirmed |-> decision[d].entry_odds_proven]

BetsOfLedger == [d \in DOMAIN decision |-> BetOf(d)]

Attested ==
  {x \in Programs \X Fixtures \X Sides : AttestedBy(x[1], x[2], x[3])}

SealPayout ==
  [x \in Hashes \X Sides |->
     compute_pnl(x[2] = x[1].keccak.side, x[1].keccak.stake,
                 x[1].keccak.entry_odds_milli)]

Promise == INSTANCE SealedBets WITH
  BetIds <- CommitKeys, Oracles <- Programs, Seals <- Hashes,
  Results <- Sides, NoResult <- 3, Payout <- SealPayout,
  bets <- BetsOfLedger, attested <- Attested

\* Every behaviour of the ledger is one that SealedBets allows.
ImplementsSealedBets == Promise!Spec
=============================================================================
