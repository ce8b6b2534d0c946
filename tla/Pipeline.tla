------------------------------ MODULE Pipeline ------------------------------
(***************************************************************************)
(* runPipeline of packages/core: one loop that takes feed events one at a  *)
(* time, keeps the odds history, the tracked scores and the risk books,    *)
(* commits at most one decision per market (steam) or per fixture          *)
(* (cross-market), and settles positions at the final whistle and once     *)
(* more when the feed ends.                                                *)
(*                                                                         *)
(* The loop awaits every call it makes, so one event is one step, except   *)
(* that each settlement is a step of its own: the sink is awaited between  *)
(* two of them.  The feed is the set Frames, each delivered at most once   *)
(* (IdempotencyTracker), in any order or never.                            *)
(*                                                                         *)
(* Probabilities are percentages and odds integers in units of             *)
(* 1 / ODDS_MILLI_SCALE.  The goals-model fit and the Elo overlay only     *)
(* choose a signal and a size multiplier: they are sets to choose from.    *)
(* The breakers that runPipeline can never trip (outlier odds at           *)
(* dispersion 0, latched anomalies) are left out.                          *)
(***************************************************************************)
EXTENDS Integers, Sequences, FiniteSets, Functions

CONSTANTS
  Fixtures,
  Markets,
  Frames,        (* what the feed holds: a sequence of frames               *)
  CrossMarket,   (* whether config.crossMarket is set                       *)
  EloOverlay,    (* whether config.eloOverlay is set                        *)
  Config,        (* the numbers of PipelineConfig                           *)
  ODDS_MILLI_SCALE, (* 1000 in the code                                     *)
  FitSignals,    (* [outcome, fair] signals a goals-model fit may give      *)
  Multipliers,   (* stake multipliers the overlay may give, in percent      *)
  MaxSkew,       (* bound: how far ahead of the clock a frame is stamped    *)
  MaxTime        (* bound: the clock                                        *)

Null == -1
Outcomes == {"home", "draw", "away"}
OUTCOMES_1X2 == <<"home", "draw", "away">>
FINAL_GAME_STATES == {"F", "FET", "FPE"}

\* A de-vigged book: fair probabilities and offered odds by outcome.  A book
\* that cannot be de-vigged prices nothing.
Book(b) ==
  /\ DOMAIN b.fair \subseteq Outcomes
  /\ \A o \in DOMAIN b.fair : b.fair[o] \in 0..100
  /\ DOMAIN b.offered = DOMAIN b.fair
  /\ \A o \in DOMAIN b.offered : b.offered[o] \in Nat \ 0..ODDS_MILLI_SCALE

OddsFrame(f) ==
  /\ f.kind = "odds" /\ f.fixture \in Fixtures /\ f.market \in Markets
  /\ f.marketKind \in {"1x2", "over-under", "other"}
  /\ f.period \in {"full-game", "first-half"}
  /\ f.line \in Nat \cup {Null} /\ f.inRunning \in BOOLEAN
  /\ f.ts \in Nat /\ Book(f.book)

ScoreFrame(f) ==
  /\ f.kind = "score" /\ f.fixture \in Fixtures /\ f.seq \in Nat /\ f.ts \in Nat
  /\ f.startTime \in Nat \cup {Null}
  /\ f.homeGoals \in Nat \cup {Null} /\ f.awayGoals \in Nat \cup {Null}

FixtureFrame(f) == f.kind = "fixture" /\ f.fixture \in Fixtures /\ f.ts \in Nat

ConfigFields ==
  {"steamHistoryLimit", "steamWindow", "minProbMove", "steamMinEdge",
   "divergenceMinEdge", "minProb", "maxProb", "startingBankroll",
   "steamBaseFraction", "steamStrengthScale", "steamMaxFraction",
   "kellyFraction", "maxFractionOfBankroll", "bankrollFloor",
   "maxStakePerOrder", "maxConcurrent", "totalExposureCap",
   "perFixtureExposureCap", "perMarketExposureCap", "staleFeedMs",
   "maxDailyDrawdown", "minLeadMs", "maxLeadMs", "minRefitMs"}

\* A feed hands over a score once: they are told apart by fixture and seq
\* (IdempotencyTracker).
ASSUME PipelineAssumption ==
  /\ Len(Frames) \in Nat /\ DOMAIN Frames = 1..Len(Frames)
  /\ \A i \in DOMAIN Frames :
       OddsFrame(Frames[i]) \/ ScoreFrame(Frames[i]) \/ FixtureFrame(Frames[i])
  /\ \A i, j \in DOMAIN Frames :
       /\ Frames[i].kind = "score" /\ Frames[j].kind = "score"
       /\ Frames[i].fixture = Frames[j].fixture /\ Frames[i].seq = Frames[j].seq
       => i = j
  /\ CrossMarket \in BOOLEAN /\ EloOverlay \in BOOLEAN
  /\ DOMAIN Config = ConfigFields
  /\ \A field \in ConfigFields : Config[field] \in Int
  /\ \A field \in ConfigFields \ {"steamMinEdge", "divergenceMinEdge"} :
       Config[field] \in Nat
  /\ Config.steamHistoryLimit > 0
  /\ ODDS_MILLI_SCALE \in Nat \ {0}
  /\ FitSignals \subseteq [outcome : Outcomes, fair : 0..100]
  /\ Multipliers \subseteq Nat
  /\ MaxSkew \in Nat /\ MaxTime \in Nat

VARIABLES
  now,            (* the clock of receivedAtMs                              *)
  delivered,      (* the frames handled so far                              *)
  history,        (* fair-probability history by market and outcome         *)
  surfaces,       (* per fixture: 1X2 frame, over-under lines, last fit     *)
  fixtureStartMs, (* kickoff by fixture, or Null                            *)
  scores,         (* the frame of the tracked score by fixture, or 0        *)
  fixtureTeams,   (* fixtures whose participants are known                  *)
  rated,          (* ratedFixtures, with the score frame each was rated on  *)
  risk,           (* RiskState                                              *)
  open,           (* every position committed, in index order from 0        *)
  acted,          (* actedMarkets, or actedFixtures in cross-market mode    *)
  settlements,    (* settled positions, by index                            *)
  pc,             (* "feed", "settle", "sweep" or "done"                    *)
  settling        (* the fixtures the current settlement loop covers        *)

odds_vars == <<history, surfaces, acted>>
score_vars == <<fixtureStartMs, scores, fixtureTeams, rated>>
vars == <<now, delivered, odds_vars, score_vars, risk, open, settlements,
          pc, settling>>
----------------------------------------------------------------------------
(***************************************************************************)
(* Signals (signal/detect.ts) and sizes (quant/sizing.ts, quant/kelly.ts). *)
(* A signal that may be null is a set with at most one element.            *)
(***************************************************************************)
expectedValue(fair, odds) == fair * odds - 100 * ODDS_MILLI_SCALE

Lower(a, b) == IF a < b THEN a ELSE b

\* The endpoints of the move are chosen by timestamp, arrival breaking ties.
detectSteam(observed, ts, offered) ==
  LET InWindow == {i \in DOMAIN observed :
                     /\ observed[i].ts <= ts
                     /\ ts - observed[i].ts <= Config.steamWindow}
      Before(i, j) == \/ observed[i].ts < observed[j].ts
                      \/ observed[i].ts = observed[j].ts /\ i <= j
      Moves == {m \in InWindow \X InWindow :
                  \A j \in InWindow : Before(m[1], j) /\ Before(j, m[2])}
      Rise(m) == observed[m[2]].fair - observed[m[1]].fair
  IN  {[kind |-> "steam", fair |-> observed[m[2]].fair, strength |-> Rise(m)] :
         m \in {n \in Moves :
                 /\ Cardinality(InWindow) >= 2
                 /\ Rise(n) >= Config.minProbMove
                 /\ expectedValue(observed[n[2]].fair, offered) >= Config.steamMinEdge}}

detectDivergence(fair, offered) ==
  {s \in {[kind |-> "divergence", fair |-> fair, strength |-> 0]} :
     /\ fair \in Config.minProb..Config.maxProb
     /\ expectedValue(fair, offered) >= Config.divergenceMinEdge}

steamStake(strength, bankroll) ==
  (Lower(Config.steamMaxFraction,
         Config.steamBaseFraction + Config.steamStrengthScale * strength)
     * bankroll) \div 100

kellyStake(fair, offered, bankroll, multiplier) ==
  IF fair \in 1..99 /\ expectedValue(fair, offered) > 0
  THEN Lower((Config.kellyFraction * multiplier * expectedValue(fair, offered) * bankroll)
               \div (1000000 * (offered - ODDS_MILLI_SCALE)),
             (Config.maxFractionOfBankroll * bankroll) \div 100)
  ELSE 0
----------------------------------------------------------------------------
(***************************************************************************)
(* The risk manager (risk/manager.ts).                                     *)
(***************************************************************************)
createRiskState ==
  [bankroll |-> Config.startingBankroll,
   dayStartBankroll |-> Config.startingBankroll,
   openCount |-> 0, totalExposure |-> 0,
   exposureByFixture |-> [f \in Fixtures |-> 0],
   exposureByMarket |-> [m \in Markets |-> 0]]

Saturating(n) == IF n < 0 THEN 0 ELSE n

EvaluateIgnoringFixture(proposed, fixture, market, feedTs) ==          \* mutant
  LET room == Lower(Config.totalExposureCap - risk.totalExposure,
                    Config.perMarketExposureCap - risk.exposureByMarket[market])
      allowed == /\ risk.bankroll > Config.bankrollFloor
                 /\ risk.dayStartBankroll - risk.bankroll <= Config.maxDailyDrawdown
                 /\ now - feedTs \in -Config.staleFeedMs..Config.staleFeedMs
                 /\ risk.openCount < Config.maxConcurrent
  IN  IF allowed
      THEN Saturating(Lower(room, Lower(proposed, Config.maxStakePerOrder)))
      ELSE 0

EvaluateIgnoringDrawdown(proposed, fixture, market, feedTs) ==         \* mutant
  LET room == Lower(Config.totalExposureCap - risk.totalExposure,
                Lower(Config.perFixtureExposureCap - risk.exposureByFixture[fixture],
                      Config.perMarketExposureCap - risk.exposureByMarket[market]))
      allowed == /\ risk.bankroll > Config.bankrollFloor
                 /\ now - feedTs \in -Config.staleFeedMs..Config.staleFeedMs
                 /\ risk.openCount < Config.maxConcurrent
  IN  IF allowed
      THEN Saturating(Lower(room, Lower(proposed, Config.maxStakePerOrder)))
      ELSE 0

\* The stake evaluate() allows, 0 when it blocks the order.
evaluate(proposed, fixture, market, feedTs) ==
  LET room == Lower(Config.totalExposureCap - risk.totalExposure,
                Lower(Config.perFixtureExposureCap - risk.exposureByFixture[fixture],
                      Config.perMarketExposureCap - risk.exposureByMarket[market]))
      allowed == /\ risk.bankroll > Config.bankrollFloor
                 /\ risk.dayStartBankroll - risk.bankroll <= Config.maxDailyDrawdown
                 /\ now - feedTs \in -Config.staleFeedMs..Config.staleFeedMs
                 /\ risk.openCount < Config.maxConcurrent
  IN  IF allowed
      THEN Saturating(Lower(room, Lower(proposed, Config.maxStakePerOrder)))
      ELSE 0

onCommit(stake, fixture, market) ==
  [risk EXCEPT !.openCount = @ + 1,
               !.totalExposure = @ + stake,
               !.exposureByFixture[fixture] = @ + stake,
               !.exposureByMarket[market] = @ + stake]

OnSettlementKeepsMarket(stake, pnl, fixture, market) ==                \* mutant
  [risk EXCEPT !.bankroll = Saturating(@ + pnl),
               !.openCount = Saturating(@ - 1),
               !.totalExposure = Saturating(@ - stake),
               !.exposureByFixture[fixture] = Saturating(@ - stake)]

onSettlement(stake, pnl, fixture, market) ==
  [risk EXCEPT !.bankroll = Saturating(@ + pnl),
               !.openCount = Saturating(@ - 1),
               !.totalExposure = Saturating(@ - stake),
               !.exposureByFixture[fixture] = Saturating(@ - stake),
               !.exposureByMarket[market] = Saturating(@ - stake)]

computePnl(won, stake, odds) ==
  IF won THEN (stake * (odds - ODDS_MILLI_SCALE)) \div ODDS_MILLI_SCALE ELSE -stake

\* The decision buildDecision makes of a signal, if any.
buildDecision(signal, fixture, market, outcome, offered, ts, multiplier) ==
  LET proposed == IF signal.kind = "steam"
                  THEN steamStake(signal.strength, risk.bankroll)
                  ELSE kellyStake(signal.fair, offered, risk.bankroll, multiplier)
      stake == IF proposed > 0 THEN evaluate(proposed, fixture, market, ts) ELSE 0
  IN  {d \in {[fixture |-> fixture, market |-> market, outcome |-> outcome,
               ts |-> ts, kind |-> signal.kind, fairProb |-> signal.fair,
               entryOdds |-> offered, stake |-> stake, committedAt |-> now]} :
         d.stake > 0}
----------------------------------------------------------------------------
(***************************************************************************)
(* Odds events.                                                            *)
(***************************************************************************)
Newest(s, n) == IF Len(s) <= n THEN s ELSE SubSeq(s, Len(s) - n + 1, Len(s))

\* history with the observations of one odds frame.
recordMarketObservation(f) ==
  [k \in DOMAIN history |->
     IF k[1] = f.market /\ k[2] \in DOMAIN f.book.fair
     THEN Newest(Append(history[k], [ts |-> f.ts, fair |-> f.book.fair[k[2]]]),
                 Config.steamHistoryLimit)
     ELSE history[k]]

CommitUnmarked(d, key) ==                                              \* mutant
  /\ risk' = onCommit(d.stake, d.fixture, d.market)
  /\ open' = Append(open, d)
  /\ UNCHANGED acted

commitDecision(d, key) ==
  /\ risk' = onCommit(d.stake, d.fixture, d.market)
  /\ open' = Append(open, d)
  /\ acted' = acted \cup {key}

\* The decision the loop over OUTCOMES_1X2 takes: the first outcome, in order,
\* whose signal gives one.
OddsDecisions(f, observed) ==
  LET offered(o) == f.book.offered[o]
      Steam(o) == detectSteam(observed[<<f.market, o>>], f.ts, offered(o))
      Signal(o) == IF Steam(o) # {} THEN Steam(o)
                   ELSE detectDivergence(f.book.fair[o], offered(o))
      Of(o) == UNION {buildDecision(s, f.fixture, f.market, o, offered(o), f.ts, 100) :
                        s \in Signal(o)}
      Taken == {i \in 1..3 : /\ OUTCOMES_1X2[i] \in DOMAIN f.book.fair
                             /\ Of(OUTCOMES_1X2[i]) # {}}
  IN  UNION {Of(OUTCOMES_1X2[i]) : i \in {j \in Taken : \A k \in Taken : j <= k}}

handleOdds(f) ==
  /\ history' = recordMarketObservation(f)
  /\ LET decisions == IF f.market \in acted THEN {} ELSE OddsDecisions(f, history')
     IN  \/ decisions = {} /\ UNCHANGED <<risk, open, acted>>
         \/ \E d \in decisions : commitDecision(d, f.market)
  /\ UNCHANGED surfaces

FitDueUntilFinal(f, surface) ==                                        \* mutant
  /\ f.fixture \notin acted
  /\ surface.match # 0 /\ surface.overUnder # {}
  /\ fixtureStartMs[f.fixture] # Null
  /\ fixtureStartMs[f.fixture] - now <= Config.maxLeadMs

\* The gates between a full-game odds update and a fit of the goals model.
FitDue(f, surface) ==
  LET lead == fixtureStartMs[f.fixture] - now IN
  /\ f.fixture \notin acted
  /\ surface.match # 0 /\ surface.overUnder # {}
  /\ fixtureStartMs[f.fixture] # Null
  /\ lead \in Config.minLeadMs..Config.maxLeadMs
  /\ \/ Config.minRefitMs = 0
     \/ surface.lastFit = Null
     \/ f.ts - surface.lastFit >= Config.minRefitMs

\* What the fit, the overlay and the risk manager may make of a surface: the
\* fit prices the latest 1X2 frame, the decision carries this frame's time.
FitDecisions(f, surface) ==
  LET match == Frames[surface.match] IN
  IF DOMAIN match.book.fair # Outcomes THEN {}
  ELSE UNION {buildDecision([kind |-> "cross-market", fair |-> s.fair, strength |-> 0],
                            f.fixture, match.market, s.outcome,
                            match.book.offered[s.outcome], f.ts, m) :
                s \in FitSignals,
                m \in IF EloOverlay /\ f.fixture \in fixtureTeams
                      THEN Multipliers ELSE {100}}

handleCrossMarketOdds(i) ==
  LET f == Frames[i]
      joined == CASE f.marketKind = "1x2" ->
                       [surfaces[f.fixture] EXCEPT !.match = i]
                  [] f.marketKind = "over-under" /\ f.line # Null ->
                       [surfaces[f.fixture] EXCEPT !.overUnder = @ \cup {f.line}]
                  [] OTHER -> surfaces[f.fixture]
      onSurface == /\ f.period = "full-game"
                   /\ \/ f.marketKind = "1x2"
                      \/ f.marketKind = "over-under" /\ f.line # Null
      due == onSurface /\ FitDue(f, joined)
  IN
  /\ history' = IF onSurface /\ f.marketKind = "1x2" /\ ~f.inRunning
                THEN recordMarketObservation(f) ELSE history
  /\ surfaces' = CASE due -> [surfaces EXCEPT ![f.fixture] =
                                [joined EXCEPT !.lastFit = f.ts]]
                   [] onSurface /\ ~due -> [surfaces EXCEPT ![f.fixture] = joined]
                   [] OTHER -> surfaces
  /\ \/ UNCHANGED <<risk, open, acted>>        \* no mispricing, or no fit
     \/ due /\ \E d \in FitDecisions(f, joined) : commitDecision(d, f.fixture)

HandleOdds(i) ==
  /\ Frames[i].kind = "odds"
  /\ IF CrossMarket THEN handleCrossMarketOdds(i) ELSE handleOdds(Frames[i])
  /\ UNCHANGED <<score_vars, settlements, pc, settling>>
----------------------------------------------------------------------------
(***************************************************************************)
(* Score and fixture events, and settlement.                               *)
(***************************************************************************)
isFinalGameState(i) == i # 0 /\ Frames[i].gameState \in FINAL_GAME_STATES

ReplaceByHigherSeq(existing, incoming) ==                              \* mutant
  Frames[incoming].seq > Frames[existing].seq

shouldReplaceScore(existing, incoming) ==
  IF isFinalGameState(existing) # isFinalGameState(incoming)
  THEN isFinalGameState(incoming)
  ELSE Frames[incoming].seq > Frames[existing].seq

HasGoals(f) == f.homeGoals # Null /\ f.awayGoals # Null

handleScore(i) ==
  LET f == Frames[i] IN
  /\ fixtureStartMs' = IF f.startTime = Null THEN fixtureStartMs
                       ELSE [fixtureStartMs EXCEPT ![f.fixture] = f.startTime]
  /\ scores' = IF /\ HasGoals(f)
                  /\ scores[f.fixture] # 0 => shouldReplaceScore(scores[f.fixture], i)
               THEN [scores EXCEPT ![f.fixture] = i]
               ELSE scores

updateRatingsForFinal(fixture) ==
  rated' = IF /\ EloOverlay /\ rated[fixture] = 0
              /\ fixture \in fixtureTeams /\ scores'[fixture] # 0
           THEN [rated EXCEPT ![fixture] = scores'[fixture]]
           ELSE rated

ReopenOnCorrection(i) ==                                               \* mutant
  LET f == Frames[i] IN
  /\ f.kind = "score"
  /\ handleScore(i)
  /\ IF isFinalGameState(i)
     THEN /\ updateRatingsForFinal(f.fixture)
          /\ settlements' = [p \in {q \in DOMAIN settlements :
                                     open[q + 1].fixture # f.fixture} |-> settlements[p]]
          /\ pc' = "settle" /\ settling' = {f.fixture}
     ELSE UNCHANGED <<rated, pc, settling, settlements>>
  /\ UNCHANGED <<odds_vars, fixtureTeams, risk, open>>

\* settleFinalFixture starts only when the tracked score is a final one.
HandleScore(i) ==
  LET f == Frames[i] IN
  /\ f.kind = "score"
  /\ handleScore(i)
  /\ IF isFinalGameState(i)
     THEN /\ updateRatingsForFinal(f.fixture)
          /\ IF isFinalGameState(scores'[f.fixture])
             THEN pc' = "settle" /\ settling' = {f.fixture}
             ELSE UNCHANGED <<pc, settling>>
     ELSE UNCHANGED <<rated, pc, settling>>
  /\ UNCHANGED <<odds_vars, fixtureTeams, risk, open, settlements>>

HandleFixture(i) ==
  /\ Frames[i].kind = "fixture"
  /\ fixtureTeams' = fixtureTeams \cup {Frames[i].fixture}
  /\ UNCHANGED <<odds_vars, fixtureStartMs, scores, rated, risk, open,
                 settlements, pc, settling>>

resultOf(home, away) ==
  CASE home > away -> "home" [] home = away -> "draw" [] OTHER -> "away"

\* The latest observation at or before entry, and the latest after entry that
\* is still before kickoff.  Observations are looked up by time; the first of
\* those that share a time wins.
LatestOf(observed, eligible) ==
  {observed[i].fair : i \in
     {j \in eligible :
        \A k \in eligible : \/ observed[k].ts < observed[j].ts
                            \/ observed[k].ts = observed[j].ts /\ j <= k}}

settlePosition(p, score) ==
  LET d == open[p + 1]
      result == resultOf(score.homeGoals, score.awayGoals)
      won == result = d.outcome
      pnl == computePnl(won, d.stake, d.entryOdds)
      observed == history[<<d.market, d.outcome>>]
      start == fixtureStartMs[d.fixture]
      AtEntry == {i \in DOMAIN observed : observed[i].ts <= d.ts}
      AtClose == {i \in DOMAIN observed \ AtEntry :
                    start = Null \/ observed[i].ts < start}
      entry == LatestOf(observed, AtEntry)
      entryProb == IF entry = {} THEN d.fairProb ELSE CHOOSE x \in entry : TRUE
      close == LatestOf(observed, AtClose)
  IN
  /\ risk' = onSettlement(d.stake, pnl, d.fixture, d.market)
  /\ settlements' = [j \in DOMAIN settlements \cup {p} |->
       IF j # p THEN settlements[j]
       ELSE [result |-> result, won |-> won, pnl |-> pnl,
             settledSeq |-> score.seq, entryConsensusProb |-> entryProb,
             closingFairProb |-> IF close = {} THEN entryProb
                                 ELSE CHOOSE x \in close : TRUE,
             closingFairProbKnown |-> close # {}]]

Indices == 0..Len(open) - 1
Unsettled == Indices \ DOMAIN settlements
TrackedAtAll(fixture) == scores[fixture] # 0                           \* mutant
Final(fixture) == isFinalGameState(scores[fixture])

\* The positions the current loop has still to settle.
Due == {p \in Unsettled :
          /\ open[p + 1].fixture \in settling
          /\ Final(open[p + 1].fixture)}

\* One turn of the loop of settleFinalFixture or of settleAll.
SettleNext ==
  /\ pc \in {"settle", "sweep"}
  /\ \E p \in Due :
       /\ \A q \in Due : p <= q
       /\ settlePosition(p, Frames[scores[open[p + 1].fixture]])
  /\ UNCHANGED <<now, delivered, odds_vars, score_vars, open, pc, settling>>

SettleEnd ==
  /\ pc \in {"settle", "sweep"}
  /\ Due = {}
  /\ pc' = IF pc = "settle" THEN "feed" ELSE "done"
  /\ settling' = {}
  /\ UNCHANGED <<now, delivered, odds_vars, score_vars, risk, open, settlements>>
----------------------------------------------------------------------------
\* The for-await loop hands over one more frame.
Deliver(i) ==
  /\ pc = "feed"
  /\ i \notin delivered
  /\ Frames[i].ts <= now + MaxSkew
  /\ delivered' = delivered \cup {i}
  /\ HandleOdds(i) \/ HandleScore(i) \/ HandleFixture(i)
  /\ UNCHANGED now

FeedEnds ==
  /\ pc = "feed"
  /\ pc' = "sweep" /\ settling' = Fixtures
  /\ UNCHANGED <<now, delivered, odds_vars, score_vars, risk, open, settlements>>

Tick ==
  /\ now < MaxTime /\ pc = "feed"
  /\ now' = now + 1
  /\ UNCHANGED <<delivered, odds_vars, score_vars, risk, open, settlements,
                 pc, settling>>

Init ==
  /\ now = 0 /\ delivered = {}
  /\ history = [k \in Markets \X Outcomes |-> <<>>]
  /\ surfaces = [f \in Fixtures |-> [match |-> 0, overUnder |-> {}, lastFit |-> Null]]
  /\ fixtureStartMs = [f \in Fixtures |-> Null]
  /\ scores = [f \in Fixtures |-> 0]
  /\ fixtureTeams = {} /\ rated = [f \in Fixtures |-> 0]
  /\ risk = createRiskState
  /\ open = <<>> /\ acted = {} /\ settlements = [p \in {} |-> 0]
  /\ pc = "feed" /\ settling = {}

Next ==
  \/ \E i \in DOMAIN Frames : Deliver(i)
  \/ SettleNext \/ SettleEnd \/ FeedEnds \/ Tick

Spec == Init /\ [][Next]_vars
----------------------------------------------------------------------------
Observation == [ts : Nat, fair : 0..100]

\* An open position: the decision that was committed.
Position ==
  [fixture : Fixtures, market : Markets, outcome : Outcomes, ts : Nat,
   kind : {"steam", "divergence", "cross-market"}, fairProb : 0..100,
   entryOdds : Nat \ 0..ODDS_MILLI_SCALE, stake : Nat \ {0}, committedAt : Nat]

\* Every variable holds values of its type: every exposure and the bankroll are
\* natural numbers, and no history outgrows steamHistoryLimit.
TypeOK ==
  /\ now \in Nat /\ delivered \subseteq DOMAIN Frames
  /\ history \in [Markets \X Outcomes -> Seq(Observation)]
  /\ \A k \in DOMAIN history : Len(history[k]) <= Config.steamHistoryLimit
  /\ surfaces \in [Fixtures -> [match : {0} \cup DOMAIN Frames,
                                overUnder : SUBSET Nat, lastFit : Nat \cup {Null}]]
  /\ fixtureStartMs \in [Fixtures -> Nat \cup {Null}]
  /\ scores \in [Fixtures -> {0} \cup delivered]
  /\ fixtureTeams \subseteq Fixtures
  /\ rated \in [Fixtures -> {0} \cup delivered]
  /\ risk \in [bankroll : Nat, dayStartBankroll : Nat, openCount : Nat,
               totalExposure : Nat, exposureByFixture : [Fixtures -> Nat],
               exposureByMarket : [Markets -> Nat]]
  /\ open \in Seq(Position)
  /\ acted \subseteq Markets \cup Fixtures
  /\ DOMAIN settlements \subseteq Indices
  /\ pc \in {"feed", "settle", "sweep", "done"}
  /\ settling \subseteq Fixtures

StakeOf(positions) == SumFunction([p \in positions |-> open[p + 1].stake])
UnsettledOn(fixture) == {p \in Unsettled : open[p + 1].fixture = fixture}
UnsettledIn(market)  == {p \in Unsettled : open[p + 1].market = market}

\* The risk manager's books, adjusted by one stake at a time at commit and at
\* settlement, always equal a recount of the positions still open: exposure is
\* released once and in full, whichever path settles the position, and stays a
\* natural number.
RiskBooksAgree ==
  /\ TypeOK
  /\ risk.openCount = Cardinality(Unsettled)
  /\ risk.totalExposure = StakeOf(Unsettled)
  /\ \A f \in Fixtures : risk.exposureByFixture[f] = StakeOf(UnsettledOn(f))
  /\ \A m \in Markets : risk.exposureByMarket[m] = StakeOf(UnsettledIn(m))

\* Whatever the order of events, the open positions never exceed the
\* concurrency limit or any of the three exposure caps of RiskConfig.
WithinLimits ==
  /\ Cardinality(Unsettled) <= Config.maxConcurrent
  /\ StakeOf(Unsettled) <= Config.totalExposureCap
  /\ \A f \in Fixtures : StakeOf(UnsettledOn(f)) <= Config.perFixtureExposureCap
  /\ \A m \in Markets : StakeOf(UnsettledIn(m)) <= Config.perMarketExposureCap

\* If every open position lost, the bankroll would be down by no more than
\* maxDailyDrawdown and totalExposureCap together: the drawdown breaker stops
\* new orders but not the losses of those already placed.
LossIsBounded ==
  risk.dayStartBankroll - risk.bankroll + StakeOf(Unsettled)
    <= Config.maxDailyDrawdown + Config.totalExposureCap

\* The pipeline takes at most one position per market (actedMarkets), or per
\* fixture on the cross-market path (actedFixtures), settled or not.
OnePositionPerKey ==
  \A j, k \in DOMAIN open :
    j # k => IF CrossMarket THEN open[j].fixture # open[k].fixture
                            ELSE open[j].market # open[k].market

ScoresOf(fixture) ==
  {i \in delivered : /\ Frames[i].kind = "score" /\ Frames[i].fixture = fixture
                     /\ HasGoals(Frames[i])}

\* The tracked score does not depend on the order of arrival: of the scores
\* handled so far that carry goals it is the final one of highest seq or, as
\* long as none is final, the one of highest seq (handleScore).
TrackedScoreIsBest ==
  \A f \in Fixtures :
    IF ScoresOf(f) = {} THEN scores[f] = 0
    ELSE /\ scores[f] \in ScoresOf(f)
         /\ \A i \in ScoresOf(f) \ {scores[f]} :
              IF isFinalGameState(i) = isFinalGameState(scores[f])
              THEN Frames[i].seq < Frames[scores[f]].seq
              ELSE isFinalGameState(scores[f])

\* What a settlement s of the position d owes to the score frame i.
PaysOn(s, d, i) ==
  /\ s.settledSeq = Frames[i].seq
  /\ s.result = resultOf(Frames[i].homeGoals, Frames[i].awayGoals)
  /\ s.won = (s.result = d.outcome)
  /\ s.pnl = computePnl(s.won, d.stake, d.entryOdds)

\* A position is settled only on a final frame of its own fixture.  It reports
\* that frame's seq, the score the on-chain proof will be fetched for
\* (settledSeq), and pays what that frame's goals make of its stake and its
\* entry odds, however many frames came between the bet and the whistle.
SettledOnFinal ==
  \A p \in DOMAIN settlements :
    \E i \in ScoresOf(open[p + 1].fixture) :
      isFinalGameState(i) /\ PaysOn(settlements[p], open[p + 1], i)

\* A settlement is locked on the first final whistle: no later frame, corrected
\* final or sweep settles the position again (test B1/B3 of pipeline.test.ts).
SettlementsLocked ==
  [][\A p \in DOMAIN settlements :
       p \in DOMAIN settlements' /\ settlements'[p] = settlements[p]]_settlements

\* A match ends well after it starts: no final whistle is stamped within the
\* skew of a kickoff announced for its fixture.
FinalsFollowKickoff ==
  \A i, j \in DOMAIN Frames :
    /\ Frames[i].kind = "score" /\ isFinalGameState(i)
    /\ Frames[j].kind = "score" /\ Frames[j].fixture = Frames[i].fixture
    /\ Frames[j].startTime # Null
    => Frames[i].ts >= Frames[j].startTime + MaxSkew

\* "A never-ending SSE feed settles when a match ends, not when the feed
\* completes" (settleFinalFixture): between two events no position is open on
\* a fixture whose tracked score is final.
SettledWhenIdle ==
  pc \in {"feed", "done"} => \A p \in Unsettled : ~Final(open[p + 1].fixture)
=============================================================================
