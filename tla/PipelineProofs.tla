--------------------------- MODULE PipelineProofs ---------------------------
(***************************************************************************)
(* What the decision pipeline keeps, proved for every feed, configuration  *)
(* and set of fits: the risk books, the limits, one position per key, the  *)
(* score it tracks and the settlements it makes.                           *)
(***************************************************************************)
EXTENDS Pipeline, SumTheorems

(***************************************************************************)
(* Numbers.                                                                *)
(***************************************************************************)

LEMMA ConfigTypes ==
  /\ Config.steamHistoryLimit \in Nat \ {0} /\ Config.steamWindow \in Nat
  /\ Config.minProbMove \in Nat /\ Config.minProb \in Nat /\ Config.maxProb \in Nat
  /\ Config.startingBankroll \in Nat /\ Config.steamBaseFraction \in Nat
  /\ Config.steamStrengthScale \in Nat /\ Config.steamMaxFraction \in Nat
  /\ Config.kellyFraction \in Nat /\ Config.maxFractionOfBankroll \in Nat
  /\ Config.bankrollFloor \in Nat /\ Config.maxStakePerOrder \in Nat
  /\ Config.maxConcurrent \in Nat /\ Config.totalExposureCap \in Nat
  /\ Config.perFixtureExposureCap \in Nat /\ Config.perMarketExposureCap \in Nat
  /\ Config.staleFeedMs \in Nat /\ Config.maxDailyDrawdown \in Nat
  /\ Config.minLeadMs \in Nat /\ Config.maxLeadMs \in Nat
<1>1. \A field \in ConfigFields \ {"steamMinEdge", "divergenceMinEdge"} :
        Config[field] \in Nat
  BY PipelineAssumption
<1>2. Config.steamHistoryLimit > 0
  BY PipelineAssumption
<1> QED
  BY <1>1, <1>2 DEF ConfigFields

LEMMA Division ==
  ASSUME NEW n \in Int, NEW d \in Nat \ {0}
  PROVE  n \div d \in Int /\ (n >= 0 => n \div d \in Nat)
OBVIOUS

LEMMA Product ==
  ASSUME NEW m \in Int, NEW n \in Int
  PROVE  m * n \in Int /\ (m >= 0 /\ n >= 0 => m * n \in Nat)
OBVIOUS

RiskState ==
  [bankroll : Nat, dayStartBankroll : Nat, openCount : Nat, totalExposure : Nat,
   exposureByFixture : [Fixtures -> Nat], exposureByMarket : [Markets -> Nat]]

\* What the risk manager lets through fits under every cap.
LEMMA EvaluateIsBounded ==
  ASSUME risk \in RiskState, now \in Nat, NEW proposed \in Int, NEW fixture \in Fixtures,
         NEW market \in Markets, NEW ts \in Nat, NEW stake,
         stake = evaluate(proposed, fixture, market, ts), stake > 0
  PROVE  /\ stake \in Nat \ {0}
         /\ risk.totalExposure + stake <= Config.totalExposureCap
         /\ risk.exposureByFixture[fixture] + stake <= Config.perFixtureExposureCap
         /\ risk.exposureByMarket[market] + stake <= Config.perMarketExposureCap
         /\ risk.openCount < Config.maxConcurrent
         /\ risk.dayStartBankroll - risk.bankroll <= Config.maxDailyDrawdown
<1>1. /\ risk.totalExposure \in Nat /\ risk.exposureByFixture[fixture] \in Nat
      /\ risk.exposureByMarket[market] \in Nat
  BY DEF RiskState
<1>2. /\ Config.totalExposureCap \in Nat /\ Config.perFixtureExposureCap \in Nat
      /\ Config.perMarketExposureCap \in Nat /\ Config.maxStakePerOrder \in Nat
  BY ConfigTypes
<1> DEFINE a == Config.totalExposureCap - risk.totalExposure
           b == Config.perFixtureExposureCap - risk.exposureByFixture[fixture]
           c == Config.perMarketExposureCap - risk.exposureByMarket[market]
           room == Lower(a, Lower(b, c))
           s == Lower(room, Lower(proposed, Config.maxStakePerOrder))
<1>3. /\ stake = Saturating(s) /\ s > 0
      /\ risk.openCount < Config.maxConcurrent
      /\ risk.dayStartBankroll - risk.bankroll <= Config.maxDailyDrawdown
  BY DEF evaluate, Saturating
<1>4. a \in Int /\ b \in Int /\ c \in Int
  BY <1>1, <1>2
<1> HIDE DEF a, b, c
<1>5. s \in Int /\ s <= a /\ s <= b /\ s <= c
  BY <1>2, <1>4 DEF Lower
<1> HIDE DEF s
<1>6. stake \in Nat \ {0} /\ stake <= a /\ stake <= b /\ stake <= c
  BY <1>3, <1>4, <1>5 DEF Saturating
<1> QED
  BY <1>1, <1>2, <1>3, <1>6 DEF a, b, c

LEMMA SteamStakeType ==
  ASSUME NEW strength \in Int, NEW bankroll \in Nat
  PROVE  steamStake(strength, bankroll) \in Int
<1>1. Config.steamBaseFraction + Config.steamStrengthScale * strength \in Int
  BY ConfigTypes, Product
<1> DEFINE a == Lower(Config.steamMaxFraction,
                      Config.steamBaseFraction + Config.steamStrengthScale * strength)
<1>2. a \in Int
  BY <1>1, ConfigTypes DEF Lower
<1> HIDE DEF a
<1>3. a * bankroll \in Int
  BY <1>2, Product
<1> QED
  BY <1>3, Division DEF steamStake, a

LEMMA KellyStakeType ==
  ASSUME NEW fair \in Int, NEW offered \in Nat \ 0..ODDS_MILLI_SCALE,
         NEW bankroll \in Nat, NEW multiplier \in Nat
  PROVE  kellyStake(fair, offered, bankroll, multiplier) \in Int
<1>1. ODDS_MILLI_SCALE \in Nat \ {0}
  BY PipelineAssumption
<1>2. expectedValue(fair, offered) \in Int
  BY <1>1, Product DEF expectedValue
<1> DEFINE e == expectedValue(fair, offered)
<1> HIDE DEF e
<1>3. Config.kellyFraction * multiplier * e * bankroll \in Int
  BY <1>2, ConfigTypes, Product DEF e
<1>4. 1000000 * (offered - ODDS_MILLI_SCALE) \in Nat \ {0}
  BY <1>1
<1>5. (Config.kellyFraction * multiplier * e * bankroll)
        \div (1000000 * (offered - ODDS_MILLI_SCALE)) \in Int
  BY <1>3, <1>4, Division
<1>6. (Config.maxFractionOfBankroll * bankroll) \div 100 \in Int
  BY ConfigTypes, Product, Division
<1> QED
  BY <1>5, <1>6 DEF kellyStake, Lower, e

\* A stake that wins pays, one that loses is lost.
LEMMA PnlBounds ==
  ASSUME NEW won \in BOOLEAN, NEW stake \in Nat, NEW odds \in Nat \ 0..ODDS_MILLI_SCALE
  PROVE  /\ computePnl(won, stake, odds) \in Int
         /\ computePnl(won, stake, odds) >= -stake
<1>1. ODDS_MILLI_SCALE \in Nat \ {0}
  BY PipelineAssumption
<1>2. odds - ODDS_MILLI_SCALE \in Nat
  BY <1>1
<1>3. stake * (odds - ODDS_MILLI_SCALE) \in Nat
  BY <1>2, Product
<1>4. (stake * (odds - ODDS_MILLI_SCALE)) \div ODDS_MILLI_SCALE \in Nat
  BY <1>1, <1>3, Division
<1> QED
  BY <1>4 DEF computePnl

(***************************************************************************)
(* Decisions.                                                              *)
(***************************************************************************)

Signal == [kind : {"steam", "divergence", "cross-market"}, fair : 0..100, strength : Int]

\* A decision that fits under every limit.
Fits(d) ==
  /\ d \in Position
  /\ risk.totalExposure + d.stake <= Config.totalExposureCap
  /\ risk.exposureByFixture[d.fixture] + d.stake <= Config.perFixtureExposureCap
  /\ risk.exposureByMarket[d.market] + d.stake <= Config.perMarketExposureCap
  /\ risk.openCount < Config.maxConcurrent
  /\ risk.dayStartBankroll - risk.bankroll <= Config.maxDailyDrawdown

LEMMA DecisionFits ==
  ASSUME risk \in RiskState, now \in Nat, NEW signal \in Signal, NEW fixture \in Fixtures,
         NEW market \in Markets, NEW outcome \in Outcomes,
         NEW offered \in Nat \ 0..ODDS_MILLI_SCALE, NEW ts \in Nat, NEW multiplier \in Nat,
         NEW d \in buildDecision(signal, fixture, market, outcome, offered, ts, multiplier)
  PROVE  Fits(d) /\ d.fixture = fixture /\ d.market = market
<1> DEFINE proposed == IF signal.kind = "steam"
                       THEN steamStake(signal.strength, risk.bankroll)
                       ELSE kellyStake(signal.fair, offered, risk.bankroll, multiplier)
           stake == evaluate(proposed, fixture, market, ts)
<1>1. /\ signal.kind \in {"steam", "divergence", "cross-market"}
      /\ signal.fair \in 0..100 /\ signal.strength \in Int
  BY DEF Signal
<1>2. risk.bankroll \in Nat
  BY DEF RiskState
<1>3. proposed \in Int
  <2>1. steamStake(signal.strength, risk.bankroll) \in Int
    BY <1>1, <1>2, SteamStakeType
  <2>2. kellyStake(signal.fair, offered, risk.bankroll, multiplier) \in Int
    <3>1. signal.fair \in Int
      BY <1>1
    <3> QED
      BY <1>2, <3>1, KellyStakeType
  <2> QED
    BY <2>1, <2>2, Zenon
<1> HIDE DEF proposed
<1>4. /\ d = [fixture |-> fixture, market |-> market, outcome |-> outcome, ts |-> ts,
              kind |-> signal.kind, fairProb |-> signal.fair, entryOdds |-> offered,
              stake |-> stake, committedAt |-> now]
      /\ stake > 0
  <2> DEFINE taken == IF proposed > 0 THEN stake ELSE 0
             record == [fixture |-> fixture, market |-> market, outcome |-> outcome,
                        ts |-> ts, kind |-> signal.kind, fairProb |-> signal.fair,
                        entryOdds |-> offered, stake |-> taken, committedAt |-> now]
  <2>1. d \in {r \in {record} : r.stake > 0}
    BY Zenon DEF buildDecision, proposed
  <2>2. d = record /\ taken > 0
    BY <2>1
  <2>3. taken = stake
    BY <2>2
  <2> QED
    BY <2>2, <2>3
<1> HIDE DEF stake
<1>5. /\ stake \in Nat \ {0}
      /\ risk.totalExposure + stake <= Config.totalExposureCap
      /\ risk.exposureByFixture[fixture] + stake <= Config.perFixtureExposureCap
      /\ risk.exposureByMarket[market] + stake <= Config.perMarketExposureCap
      /\ risk.openCount < Config.maxConcurrent
      /\ risk.dayStartBankroll - risk.bankroll <= Config.maxDailyDrawdown
  BY <1>3, <1>4, EvaluateIsBounded DEF stake
<1>6. d \in Position
  <2> DEFINE kind == signal.kind
             fair == signal.fair
  <2>1. /\ d = [fixture |-> fixture, market |-> market, outcome |-> outcome, ts |-> ts,
                kind |-> kind, fairProb |-> fair, entryOdds |-> offered,
                stake |-> stake, committedAt |-> now]
        /\ kind \in {"steam", "divergence", "cross-market"} /\ fair \in 0..100
    BY <1>1, <1>4
  <2> HIDE DEF kind, fair
  <2> QED
    BY <1>5, <2>1 DEF Position
<1> QED
  BY <1>4, <1>5, <1>6 DEF Fits

LEMMA SignalTypes ==
  /\ \A observed \in Seq(Observation) : \A ts, offered :
       detectSteam(observed, ts, offered) \subseteq Signal
  /\ \A fair \in 0..100 : \A offered : detectDivergence(fair, offered) \subseteq Signal
<1>1. ASSUME NEW observed \in Seq(Observation), NEW ts, NEW offered,
             NEW s \in detectSteam(observed, ts, offered)
      PROVE  s \in Signal
  <2> DEFINE InWindow == {i \in DOMAIN observed :
                            /\ observed[i].ts <= ts
                            /\ ts - observed[i].ts <= Config.steamWindow}
             Before(i, j) == \/ observed[i].ts < observed[j].ts
                             \/ observed[i].ts = observed[j].ts /\ i <= j
             Moves == {m \in InWindow \X InWindow :
                         \A j \in InWindow : Before(m[1], j) /\ Before(j, m[2])}
             Rise(m) == observed[m[2]].fair - observed[m[1]].fair
  <2>1. s \in {[kind |-> "steam", fair |-> observed[m[2]].fair, strength |-> Rise(m)] :
                 m \in {n \in Moves :
                         /\ Cardinality(InWindow) >= 2
                         /\ Rise(n) >= Config.minProbMove
                         /\ expectedValue(observed[n[2]].fair, offered)
                              >= Config.steamMinEdge}}
    BY <1>1, Zenon DEF detectSteam
  <2>2. PICK m \in Moves :
          s = [kind |-> "steam", fair |-> observed[m[2]].fair, strength |-> Rise(m)]
    BY <2>1, Zenon
  <2>3. m \in InWindow \X InWindow /\ InWindow \subseteq DOMAIN observed
    BY <2>2, Zenon
  <2> HIDE DEF InWindow
  <2>4. m[1] \in DOMAIN observed /\ m[2] \in DOMAIN observed
    BY <2>3
  <2>5. observed[m[1]] \in Observation /\ observed[m[2]] \in Observation
    BY <2>4
  <2>6. observed[m[1]].fair \in 0..100 /\ observed[m[2]].fair \in 0..100
    BY <2>5 DEF Observation
  <2>7. Rise(m) \in Int
    <3>1. \A last, first \in 0..100 : last - first \in Int
      OBVIOUS
    <3> QED
      BY <2>6, <3>1, Zenon
  <2> HIDE DEF Rise
  <2> QED
    BY <2>2, <2>6, <2>7 DEF Signal
<1>2. ASSUME NEW fair \in 0..100, NEW offered, NEW s \in detectDivergence(fair, offered)
      PROVE  s \in Signal
  BY <1>2 DEF detectDivergence, Signal
<1> QED
  BY <1>1, <1>2

LEMMA FrameTypes ==
  ASSUME NEW i \in DOMAIN Frames
  PROVE  /\ Frames[i].kind = "odds" => OddsFrame(Frames[i])
         /\ Frames[i].kind = "score" => ScoreFrame(Frames[i])
         /\ Frames[i].kind = "fixture" => FixtureFrame(Frames[i])
         /\ Frames[i].ts \in Nat /\ Frames[i].fixture \in Fixtures /\ i # 0
BY PipelineAssumption DEF OddsFrame, ScoreFrame, FixtureFrame

HistoryTypes ==
  /\ history \in [Markets \X Outcomes -> Seq(Observation)]
  /\ \A k \in DOMAIN history : Len(history[k]) <= Config.steamHistoryLimit

LEMMA NewestType ==
  ASSUME NEW s \in Seq(Observation), NEW n \in Nat \ {0}
  PROVE  Newest(s, n) \in Seq(Observation) /\ Len(Newest(s, n)) <= n
<1>1. CASE Len(s) <= n
  BY <1>1 DEF Newest
<1>2. CASE Len(s) > n
  <2>1. Newest(s, n) = SubSeq(s, Len(s) - n + 1, Len(s))
    BY <1>2 DEF Newest
  <2>2. Len(s) - n + 1 \in 1..Len(s) + 1
    BY <1>2
  <2> QED
    BY <1>2, <2>1, <2>2
<1> QED
  BY <1>1, <1>2

LEMMA ObservationRecorded ==
  ASSUME HistoryTypes, NEW f, OddsFrame(f), history' = recordMarketObservation(f)
  PROVE  HistoryTypes'
<1>1. DOMAIN history' = Markets \X Outcomes
  BY DEF recordMarketObservation, HistoryTypes
<1>2. ASSUME NEW k \in Markets \X Outcomes
      PROVE  history'[k] \in Seq(Observation) /\ Len(history'[k]) <= Config.steamHistoryLimit
  <2>1. CASE k[1] = f.market /\ k[2] \in DOMAIN f.book.fair
    <3> DEFINE o == [ts |-> f.ts, fair |-> f.book.fair[k[2]]]
    <3>1. o \in Observation
      BY <2>1 DEF OddsFrame, Book, Observation
    <3>2. Append(history[k], o) \in Seq(Observation)
      BY <3>1 DEF HistoryTypes
    <3>3. history'[k] = Newest(Append(history[k], o), Config.steamHistoryLimit)
      BY <2>1 DEF recordMarketObservation, HistoryTypes
    <3> HIDE DEF o
    <3> QED
      BY <3>2, <3>3, NewestType, ConfigTypes
  <2>2. CASE ~(k[1] = f.market /\ k[2] \in DOMAIN f.book.fair)
    <3>1. history'[k] = history[k]
      BY <2>2 DEF recordMarketObservation, HistoryTypes
    <3> QED
      BY <3>1 DEF HistoryTypes
  <2> QED
    BY <2>1, <2>2
<1>3. history' \in [Markets \X Outcomes -> Seq(Observation)]
  BY <1>1, <1>2 DEF recordMarketObservation, HistoryTypes
<1> QED
  BY <1>1, <1>2, <1>3 DEF HistoryTypes

LEMMA OddsDecisionFits ==
  ASSUME risk \in RiskState, now \in Nat, NEW f, OddsFrame(f),
         NEW observed \in [Markets \X Outcomes -> Seq(Observation)],
         NEW d \in OddsDecisions(f, observed)
  PROVE  Fits(d) /\ d.fixture = f.fixture /\ d.market = f.market
<1> DEFINE offered(o) == f.book.offered[o]
           Steam(o) == detectSteam(observed[<<f.market, o>>], f.ts, offered(o))
           Signalled(o) == IF Steam(o) # {} THEN Steam(o)
                           ELSE detectDivergence(f.book.fair[o], offered(o))
           Of(o) == UNION {buildDecision(x, f.fixture, f.market, o, offered(o), f.ts, 100) :
                             x \in Signalled(o)}
           Taken == {i \in 1..3 : /\ OUTCOMES_1X2[i] \in DOMAIN f.book.fair
                                  /\ Of(OUTCOMES_1X2[i]) # {}}
<1>1. d \in UNION {Of(OUTCOMES_1X2[i]) : i \in {j \in Taken : \A k \in Taken : j <= k}}
  BY Zenon DEF OddsDecisions
<1> HIDE DEF Of
<1>2. PICK i \in Taken : d \in Of(OUTCOMES_1X2[i])
  BY <1>1
<1> DEFINE o == OUTCOMES_1X2[i]
<1>3. o \in DOMAIN f.book.fair
  BY <1>2, Zenon
<1> HIDE DEF Signalled
<1>4. PICK x \in Signalled(o) :
        d \in buildDecision(x, f.fixture, f.market, o, offered(o), f.ts, 100)
  <2>1. d \in UNION {buildDecision(x, f.fixture, f.market, o, offered(o), f.ts, 100) :
                       x \in Signalled(o)}
    BY <1>2, Zenon DEF Of
  <2> QED
    BY <2>1
<1> HIDE DEF o
<1>5. /\ o \in Outcomes /\ f.book.fair[o] \in 0..100
      /\ offered(o) \in Nat \ 0..ODDS_MILLI_SCALE
      /\ f.fixture \in Fixtures /\ f.market \in Markets /\ f.ts \in Nat
  BY <1>3 DEF OddsFrame, Book
<1>6. observed[<<f.market, o>>] \in Seq(Observation)
  BY <1>5
<1>7. Steam(o) \subseteq Signal /\ detectDivergence(f.book.fair[o], offered(o)) \subseteq Signal
  BY <1>5, <1>6, SignalTypes, Zenon
<1>8. x \in Signal
  BY <1>4, <1>7, Zenon DEF Signalled
<1> HIDE DEF offered
<1>9. 100 \in Nat
  OBVIOUS
<1> QED
  BY <1>4, <1>5, <1>8, <1>9, DecisionFits

LEMMA FitDecisionFits ==
  ASSUME risk \in RiskState, now \in Nat, NEW f, OddsFrame(f), NEW surface,
         surface.match \in DOMAIN Frames, Frames[surface.match].kind = "odds",
         NEW d \in FitDecisions(f, surface)
  PROVE  Fits(d) /\ d.fixture = f.fixture
<1> DEFINE match == Frames[surface.match]
           ms == IF EloOverlay /\ f.fixture \in fixtureTeams THEN Multipliers ELSE {100}
           x(s) == [kind |-> "cross-market", fair |-> s.fair, strength |-> 0]
           Of(s, m) == buildDecision(x(s), f.fixture, match.market, s.outcome,
                                     match.book.offered[s.outcome], f.ts, m)
<1>1. OddsFrame(match)
  BY FrameTypes
<1> HIDE DEF match
<1>2. /\ DOMAIN match.book.fair = Outcomes
      /\ d \in UNION {Of(s, m) : s \in FitSignals, m \in ms}
  <2> DEFINE all == UNION {Of(s, m) : s \in FitSignals, m \in ms}
  <2>1. FitDecisions(f, surface) = IF DOMAIN match.book.fair # Outcomes THEN {} ELSE all
    BY DEF FitDecisions, match
  <2> HIDE DEF all
  <2>2. d \in IF DOMAIN match.book.fair # Outcomes THEN {} ELSE all
    BY <2>1, Zenon
  <2>3. DOMAIN match.book.fair = Outcomes /\ d \in all
    BY <2>2
  <2> HIDE DEF Of, ms
  <2> QED
    BY <2>3 DEF all
<1> HIDE DEF Of, ms
<1>3. PICK s \in FitSignals, m \in ms : d \in Of(s, m)
  BY <1>2
<1>4. s \in [outcome : Outcomes, fair : 0..100] /\ m \in Nat
  BY PipelineAssumption DEF ms
<1>5. s.outcome \in Outcomes /\ s.fair \in 0..100
  BY <1>4
<1>6. x(s) \in Signal
  BY <1>5 DEF Signal
<1> HIDE DEF x
<1>7. /\ match.book.offered[s.outcome] \in Nat \ 0..ODDS_MILLI_SCALE
      /\ match.market \in Markets /\ f.fixture \in Fixtures /\ f.ts \in Nat
  BY <1>1, <1>2, <1>5 DEF OddsFrame, Book
<1> QED
  BY <1>3, <1>4, <1>5, <1>6, <1>7, DecisionFits DEF Of

(***************************************************************************)
(* What an odds frame may do: a decision, if there is one, fits under the  *)
(* limits and takes a key nobody has acted on.                             *)
(***************************************************************************)

\* The market a position occupies or, on the cross-market path, the fixture.
Key(d) == IF CrossMarket THEN d.fixture ELSE d.market

SurfaceTypes ==
  /\ surfaces \in [Fixtures -> [match : {0} \cup DOMAIN Frames,
                                overUnder : SUBSET Nat, lastFit : Nat \cup {Null}]]
  /\ \A f \in Fixtures : surfaces[f].match # 0 => Frames[surfaces[f].match].kind = "odds"

\* A cross-market decision is taken well before the kickoff.
AheadOfKickoff(d) ==
  CrossMarket => /\ fixtureStartMs[d.fixture] # Null
                 /\ fixtureStartMs[d.fixture] - now >= Config.minLeadMs

Commits(d) ==
  Fits(d) /\ Key(d) \notin acted /\ AheadOfKickoff(d) /\ commitDecision(d, Key(d))

LEMMA SteamEffect ==
  ASSUME risk \in RiskState, now \in Nat, HistoryTypes, SurfaceTypes, ~CrossMarket,
         NEW f, OddsFrame(f), handleOdds(f)
  PROVE  /\ HistoryTypes' /\ SurfaceTypes'
         /\ UNCHANGED <<risk, open, acted>> \/ \E d : Commits(d)
<1>1. HistoryTypes'
  BY ObservationRecorded DEF handleOdds
<1>2. SurfaceTypes'
  BY DEF handleOdds, SurfaceTypes
<1>3. CASE UNCHANGED <<risk, open, acted>>
  BY <1>1, <1>2, <1>3
<1>4. CASE ~UNCHANGED <<risk, open, acted>>
  <2>1. /\ f.market \notin acted
        /\ \E d \in OddsDecisions(f, history') : commitDecision(d, f.market)
    BY <1>4, Zenon DEF handleOdds
  <2>2. PICK d \in OddsDecisions(f, history') : commitDecision(d, f.market)
    BY <2>1, Zenon
  <2>3. history' \in [Markets \X Outcomes -> Seq(Observation)]
    BY <1>1 DEF HistoryTypes
  <2> DEFINE h == history'
  <2>4. h \in [Markets \X Outcomes -> Seq(Observation)] /\ d \in OddsDecisions(f, h)
    BY <2>2, <2>3
  <2> HIDE DEF h
  <2>5. Fits(d) /\ d.market = f.market
    BY <2>4, OddsDecisionFits, Zenon
  <2>6. Commits(d)
    BY <2>1, <2>2, <2>5, Zenon DEF Commits, Key, AheadOfKickoff
  <2> QED
    BY <1>1, <1>2, <2>6
<1> QED
  BY <1>3, <1>4

LEMMA CrossMarketEffect ==
  ASSUME risk \in RiskState, now \in Nat, HistoryTypes, SurfaceTypes, CrossMarket,
         fixtureStartMs \in [Fixtures -> Nat \cup {Null}],
         NEW i \in DOMAIN Frames, Frames[i].kind = "odds", handleCrossMarketOdds(i)
  PROVE  /\ HistoryTypes' /\ SurfaceTypes'
         /\ UNCHANGED <<risk, open, acted>> \/ \E d : Commits(d)
<1> DEFINE f == Frames[i]
           old == surfaces[f.fixture]
           joined == CASE f.marketKind = "1x2" -> [surfaces[f.fixture] EXCEPT !.match = i]
                       [] f.marketKind = "over-under" /\ f.line # Null ->
                            [surfaces[f.fixture] EXCEPT !.overUnder = @ \cup {f.line}]
                       [] OTHER -> surfaces[f.fixture]
           onSurface == /\ f.period = "full-game"
                        /\ \/ f.marketKind = "1x2"
                           \/ f.marketKind = "over-under" /\ f.line # Null
           due == onSurface /\ FitDue(f, joined)
           Surface == [match : {0} \cup DOMAIN Frames,
                       overUnder : SUBSET Nat, lastFit : Nat \cup {Null}]
           Good(x) == x \in Surface /\ (x.match # 0 => Frames[x.match].kind = "odds")
<1>1. /\ history' = IF onSurface /\ f.marketKind = "1x2" /\ ~f.inRunning
                    THEN recordMarketObservation(f) ELSE history
      /\ surfaces' = CASE due -> [surfaces EXCEPT ![f.fixture] =
                                    [joined EXCEPT !.lastFit = f.ts]]
                       [] onSurface /\ ~due -> [surfaces EXCEPT ![f.fixture] = joined]
                       [] OTHER -> surfaces
      /\ \/ UNCHANGED <<risk, open, acted>>
         \/ due /\ \E d \in FitDecisions(f, joined) : commitDecision(d, f.fixture)
  BY Zenon DEF handleCrossMarketOdds
<1>2. OddsFrame(f) /\ f.fixture \in Fixtures /\ f.ts \in Nat /\ f.line \in Nat \cup {Null}
      /\ f.kind = "odds"
  BY FrameTypes DEF OddsFrame
<1>3. Good(old)
  BY <1>2 DEF SurfaceTypes
<1>4. Good(joined)
  <2>1. CASE f.marketKind = "1x2"
    <3>1. joined = [surfaces[f.fixture] EXCEPT !.match = i]
      BY <2>1
    <3> HIDE DEF f, joined
    <3> QED
      BY <1>2, <1>3, <3>1 DEF f
  <2>2. CASE f.marketKind # "1x2" /\ f.marketKind = "over-under" /\ f.line # Null
    <3>1. joined = [surfaces[f.fixture] EXCEPT !.overUnder = @ \cup {f.line}]
      BY <2>2
    <3> HIDE DEF f, joined
    <3> QED
      BY <1>2, <1>3, <2>2, <3>1
  <2>3. CASE ~(f.marketKind = "1x2") /\ ~(f.marketKind = "over-under" /\ f.line # Null)
    BY <1>3, <2>3
  <2> QED
    BY <2>1, <2>2, <2>3
<1> HIDE DEF joined
<1>5. HistoryTypes'
  <2>1. CASE history' = recordMarketObservation(f)
    BY <1>2, <2>1, ObservationRecorded
  <2>2. CASE history' = history
    BY <2>2 DEF HistoryTypes
  <2> QED
    BY <1>1, <2>1, <2>2, Zenon
<1>6. SurfaceTypes'
  <2>1. Good([joined EXCEPT !.lastFit = f.ts])
    BY <1>2, <1>4
  <2> DEFINE next == IF due THEN [joined EXCEPT !.lastFit = f.ts]
                     ELSE IF onSurface THEN joined ELSE old
  <2>2. Good(next)
    BY <1>3, <1>4, <2>1, Zenon
  <2>3. surfaces' = [surfaces EXCEPT ![f.fixture] = next]
    <3> HIDE DEF onSurface, due
    <3> QED
      BY <1>1, <1>2 DEF SurfaceTypes, due
  <2> HIDE DEF next, f
  <2> QED
    BY <1>2, <2>2, <2>3 DEF SurfaceTypes
<1>7. CASE UNCHANGED <<risk, open, acted>>
  BY <1>5, <1>6, <1>7
<1>8. CASE ~UNCHANGED <<risk, open, acted>>
  <2>1. PICK d \in FitDecisions(f, joined) : commitDecision(d, f.fixture)
    BY <1>1, <1>8, Zenon
  <2>2. FitDue(f, joined)
    BY <1>1, <1>8, Zenon
  <2>3. /\ f.fixture \notin acted /\ joined.match # 0
        /\ fixtureStartMs[f.fixture] # Null
        /\ fixtureStartMs[f.fixture] - now \in Config.minLeadMs..Config.maxLeadMs
    BY <2>2, Zenon DEF FitDue
  <2>4. joined.match \in DOMAIN Frames /\ Frames[joined.match].kind = "odds"
    BY <1>4, <2>3
  <2>5. Fits(d) /\ d.fixture = f.fixture
    BY <1>2, <2>1, <2>4, FitDecisionFits, Zenon
  <2>6. fixtureStartMs[f.fixture] - now >= Config.minLeadMs
    BY <2>3, ConfigTypes
  <2>7. Commits(d)
    BY <2>1, <2>3, <2>5, <2>6, Zenon DEF Commits, Key, AheadOfKickoff
  <2> QED
    BY <1>5, <1>6, <2>7
<1> QED
  BY <1>7, <1>8

LEMMA OddsEffect ==
  ASSUME TypeOK, SurfaceTypes, NEW i \in DOMAIN Frames, HandleOdds(i)
  PROVE  /\ HistoryTypes' /\ SurfaceTypes'
         /\ UNCHANGED <<risk, open, acted>> \/ \E d : Commits(d)
         /\ UNCHANGED <<score_vars, settlements, pc, settling>>
<1>1. /\ risk \in RiskState /\ now \in Nat /\ HistoryTypes
      /\ fixtureStartMs \in [Fixtures -> Nat \cup {Null}]
  BY DEF TypeOK, RiskState, HistoryTypes
<1>2. /\ Frames[i].kind = "odds" /\ OddsFrame(Frames[i])
      /\ UNCHANGED <<score_vars, settlements, pc, settling>>
  BY FrameTypes DEF HandleOdds
<1>3. CASE CrossMarket
  <2>1. handleCrossMarketOdds(i)
    BY <1>3, Zenon DEF HandleOdds
  <2> QED
    BY <1>1, <1>2, <1>3, <2>1, CrossMarketEffect, Zenon
<1>4. CASE ~CrossMarket
  <2>1. handleOdds(Frames[i])
    BY <1>4, Zenon DEF HandleOdds
  <2> QED
    BY <1>1, <1>2, <1>4, <2>1, SteamEffect, Zenon
<1> QED
  BY <1>3, <1>4

(***************************************************************************)
(* The books of the risk manager, one update at a time.                    *)
(***************************************************************************)

LEMMA CommitBooked ==
  ASSUME risk \in RiskState, NEW stake \in Nat, NEW fixture \in Fixtures, NEW market \in Markets,
         NEW r, r = onCommit(stake, fixture, market)
  PROVE  /\ r \in RiskState
         /\ r.bankroll = risk.bankroll /\ r.dayStartBankroll = risk.dayStartBankroll
         /\ r.openCount = risk.openCount + 1
         /\ r.totalExposure = risk.totalExposure + stake
         /\ \A f \in Fixtures : r.exposureByFixture[f] =
              IF f = fixture THEN risk.exposureByFixture[f] + stake ELSE risk.exposureByFixture[f]
         /\ \A m \in Markets : r.exposureByMarket[m] =
              IF m = market THEN risk.exposureByMarket[m] + stake ELSE risk.exposureByMarket[m]
<1> DEFINE byFixture == [risk.exposureByFixture EXCEPT ![fixture] = @ + stake]
           byMarket == [risk.exposureByMarket EXCEPT ![market] = @ + stake]
<1>1. r = [risk EXCEPT !.openCount = @ + 1, !.totalExposure = @ + stake,
                       !.exposureByFixture = byFixture, !.exposureByMarket = byMarket]
  BY DEF onCommit
<1>2. risk.exposureByFixture \in [Fixtures -> Nat] /\ risk.exposureByMarket \in [Markets -> Nat]
  BY DEF RiskState
<1>3. byFixture \in [Fixtures -> Nat] /\ byMarket \in [Markets -> Nat]
  BY <1>2
<1>4. /\ \A f \in Fixtures : byFixture[f] =
           IF f = fixture THEN risk.exposureByFixture[f] + stake ELSE risk.exposureByFixture[f]
      /\ \A m \in Markets : byMarket[m] =
           IF m = market THEN risk.exposureByMarket[m] + stake ELSE risk.exposureByMarket[m]
  BY <1>2
<1> DEFINE count == risk.openCount + 1
           total == risk.totalExposure + stake
<1>5. count \in Nat /\ total \in Nat
  BY DEF RiskState
<1> HIDE DEF byFixture, byMarket, count, total
<1>6. r = [risk EXCEPT !.openCount = count, !.totalExposure = total,
                       !.exposureByFixture = byFixture, !.exposureByMarket = byMarket]
  BY <1>1 DEF count, total
<1>7. /\ r \in RiskState
      /\ r.bankroll = risk.bankroll /\ r.dayStartBankroll = risk.dayStartBankroll
      /\ r.openCount = count /\ r.totalExposure = total
      /\ r.exposureByFixture = byFixture /\ r.exposureByMarket = byMarket
  BY <1>3, <1>5, <1>6 DEF RiskState
<1> QED
  BY <1>4, <1>7 DEF count, total

LEMMA SettlementBooked ==
  ASSUME risk \in RiskState, NEW stake \in Nat, NEW pnl \in Int, NEW fixture \in Fixtures,
         NEW market \in Markets, NEW r, r = onSettlement(stake, pnl, fixture, market)
  PROVE  /\ r \in RiskState
         /\ r.bankroll >= risk.bankroll + pnl /\ r.dayStartBankroll = risk.dayStartBankroll
         /\ r.openCount = Saturating(risk.openCount - 1)
         /\ r.totalExposure = Saturating(risk.totalExposure - stake)
         /\ \A f \in Fixtures : r.exposureByFixture[f] =
              IF f = fixture THEN Saturating(risk.exposureByFixture[f] - stake)
                             ELSE risk.exposureByFixture[f]
         /\ \A m \in Markets : r.exposureByMarket[m] =
              IF m = market THEN Saturating(risk.exposureByMarket[m] - stake)
                            ELSE risk.exposureByMarket[m]
<1>0. \A n \in Int : Saturating(n) \in Nat /\ Saturating(n) >= n
  BY DEF Saturating
<1> DEFINE byFixture == [risk.exposureByFixture EXCEPT ![fixture] = Saturating(@ - stake)]
           byMarket == [risk.exposureByMarket EXCEPT ![market] = Saturating(@ - stake)]
<1>1. r = [risk EXCEPT !.bankroll = Saturating(@ + pnl),
                       !.openCount = Saturating(@ - 1),
                       !.totalExposure = Saturating(@ - stake),
                       !.exposureByFixture = byFixture, !.exposureByMarket = byMarket]
  BY DEF onSettlement
<1>2. /\ risk.exposureByFixture \in [Fixtures -> Nat] /\ risk.exposureByMarket \in [Markets -> Nat]
      /\ risk.bankroll \in Nat /\ risk.openCount \in Nat /\ risk.totalExposure \in Nat
  BY DEF RiskState
<1>3. byFixture \in [Fixtures -> Nat] /\ byMarket \in [Markets -> Nat]
  BY <1>0, <1>2
<1>4. /\ \A f \in Fixtures : byFixture[f] =
           IF f = fixture THEN Saturating(risk.exposureByFixture[f] - stake)
                          ELSE risk.exposureByFixture[f]
      /\ \A m \in Markets : byMarket[m] =
           IF m = market THEN Saturating(risk.exposureByMarket[m] - stake)
                         ELSE risk.exposureByMarket[m]
  BY <1>2
<1> DEFINE bankroll == Saturating(risk.bankroll + pnl)
           count == Saturating(risk.openCount - 1)
           total == Saturating(risk.totalExposure - stake)
<1>5. /\ bankroll \in Nat /\ bankroll >= risk.bankroll + pnl /\ count \in Nat /\ total \in Nat
  BY <1>0, <1>2
<1> HIDE DEF byFixture, byMarket, bankroll, count, total
<1>6. r = [risk EXCEPT !.bankroll = bankroll, !.openCount = count, !.totalExposure = total,
                       !.exposureByFixture = byFixture, !.exposureByMarket = byMarket]
  BY <1>1 DEF bankroll, count, total
<1>7. /\ r \in RiskState
      /\ r.bankroll = bankroll /\ r.dayStartBankroll = risk.dayStartBankroll
      /\ r.openCount = count /\ r.totalExposure = total
      /\ r.exposureByFixture = byFixture /\ r.exposureByMarket = byMarket
  BY <1>3, <1>5, <1>6 DEF RiskState
<1> QED
  BY <1>4, <1>5, <1>7 DEF count, total

(***************************************************************************)
(* Settlement.                                                             *)
(***************************************************************************)

\* What one settlement does to the books and to the record of settlements.
Settles(p) ==
  \E pnl, settlement :
    LET d == open[p + 1]
        score == Frames[scores[d.fixture]] IN
    /\ pnl \in Int /\ pnl >= -d.stake
    /\ risk' = onSettlement(d.stake, pnl, d.fixture, d.market)
    /\ settlements' = [j \in DOMAIN settlements \cup {p} |->
                         IF j # p THEN settlements[j] ELSE settlement]
    /\ settlement.settledSeq = score.seq
    /\ settlement.result = resultOf(score.homeGoals, score.awayGoals)
    /\ settlement.won = (settlement.result = d.outcome)
    /\ settlement.pnl = computePnl(settlement.won, d.stake, d.entryOdds)

LEMMA OpenTypes ==
  ASSUME TypeOK, NEW p \in Indices
  PROVE  p + 1 \in DOMAIN open /\ open[p + 1] \in Position
<1>1. open \in Seq(Position)
  BY DEF TypeOK
<1> QED
  BY <1>1 DEF Indices

LEMMA PositionFields ==
  ASSUME NEW d \in Position
  PROVE  /\ d.fixture \in Fixtures /\ d.market \in Markets /\ d.outcome \in Outcomes
         /\ d.ts \in Nat /\ d.entryOdds \in Nat \ 0..ODDS_MILLI_SCALE
         /\ d.stake \in Nat \ {0}
BY DEF Position

LEMMA SettleEffect ==
  ASSUME TypeOK, NEW p \in Due, settlePosition(p, Frames[scores[open[p + 1].fixture]])
  PROVE  Settles(p)
<1> DEFINE d == open[p + 1]
           score == Frames[scores[open[p + 1].fixture]]
           result == resultOf(score.homeGoals, score.awayGoals)
           won == result = d.outcome
           pnl == computePnl(won, d.stake, d.entryOdds)
<1>1. p \in Indices
  BY Zenon DEF Due, Unsettled
<1>2. d \in Position
  BY <1>1, OpenTypes, Zenon
<1> HIDE DEF d, score, result
<1>3. d.stake \in Nat /\ d.entryOdds \in Nat \ 0..ODDS_MILLI_SCALE
  BY <1>2, PositionFields
<1>4. won \in BOOLEAN
  OBVIOUS
<1>5. pnl \in Int /\ pnl >= -d.stake
  <2> HIDE DEF won
  <2> QED
    BY <1>3, <1>4, PnlBounds
<1>6. risk' = onSettlement(d.stake, pnl, d.fixture, d.market)
  BY Zenon DEF settlePosition, d, score, result
<1> DEFINE observed == history[<<d.market, d.outcome>>]
           start == fixtureStartMs[d.fixture]
           AtEntry == {i \in DOMAIN observed : observed[i].ts <= d.ts}
           AtClose == {i \in DOMAIN observed \ AtEntry :
                         start = Null \/ observed[i].ts < start}
           entries == LatestOf(observed, AtEntry)
           entry == IF entries = {} THEN d.fairProb ELSE CHOOSE x \in entries : TRUE
           closes == LatestOf(observed, AtClose)
           close == IF closes = {} THEN entry ELSE CHOOSE x \in closes : TRUE
           known == closes # {}
<1>8. settlements' = [j \in DOMAIN settlements \cup {p} |->
          IF j # p THEN settlements[j]
          ELSE [result |-> result, won |-> won, pnl |-> pnl, settledSeq |-> score.seq,
                entryConsensusProb |-> entry, closingFairProb |-> close,
                closingFairProbKnown |-> known]]
  BY Zenon DEF settlePosition, d, score, result
<1> HIDE DEF entry, close, known
<1> DEFINE settlement == [result |-> result, won |-> won, pnl |-> pnl,
                          settledSeq |-> score.seq, entryConsensusProb |-> entry,
                          closingFairProb |-> close, closingFairProbKnown |-> known]
<1>9. /\ settlement.settledSeq = score.seq /\ settlement.result = result
      /\ settlement.won = (settlement.result = d.outcome)
      /\ settlement.pnl = computePnl(settlement.won, d.stake, d.entryOdds)
  OBVIOUS
<1>10. settlements' = [j \in DOMAIN settlements \cup {p} |->
                         IF j # p THEN settlements[j] ELSE settlement]
  BY <1>8, Zenon
<1> HIDE DEF settlement, pnl, won
<1> QED
  BY <1>4, <1>5, <1>6, <1>9, <1>10, Zenon DEF Settles, d, score, result

(***************************************************************************)
(* Types, and what a step may do to the positions.                         *)
(***************************************************************************)

ClockTypes == now \in Nat /\ delivered \subseteq DOMAIN Frames

ScoreTypes ==
  /\ fixtureStartMs \in [Fixtures -> Nat \cup {Null}]
  /\ scores \in [Fixtures -> {0} \cup delivered]
  /\ fixtureTeams \subseteq Fixtures
  /\ rated \in [Fixtures -> {0} \cup delivered]

BookTypes ==
  /\ risk \in RiskState /\ open \in Seq(Position)
  /\ acted \subseteq Markets \cup Fixtures
  /\ DOMAIN settlements \subseteq Indices

LoopTypes == pc \in {"feed", "settle", "sweep", "done"} /\ settling \subseteq Fixtures

\* The type invariant with the one fact it needs: a surface holds odds frames.
Typed ==
  ClockTypes /\ HistoryTypes /\ SurfaceTypes /\ ScoreTypes /\ BookTypes /\ LoopTypes

LEMMA TypedIsTypeOK == Typed <=> TypeOK /\ SurfaceTypes
BY DEF Typed, TypeOK, ClockTypes, HistoryTypes, SurfaceTypes, ScoreTypes, BookTypes,
       LoopTypes, RiskState

\* One step leaves the positions alone, commits one, or settles one.
StepKinds ==
  \/ UNCHANGED <<risk, open, acted, settlements>>
  \/ /\ UNCHANGED <<now, settlements, score_vars, pc, settling>>
     /\ pc = "feed" /\ \E d : Commits(d)
  \/ /\ UNCHANGED <<now, delivered, odds_vars, score_vars, open, pc, settling>>
     /\ \E p \in Due : (\A q \in Due : p <= q) /\ Settles(p)

LEMMA StepEffect ==
  ASSUME TypeOK, SurfaceTypes, [Next]_vars
  PROVE  StepKinds /\ HistoryTypes' /\ SurfaceTypes'
<1>0. HistoryTypes
  BY DEF TypeOK, HistoryTypes
<1>1. ASSUME NEW i \in DOMAIN Frames, Deliver(i), HandleOdds(i)
      PROVE  StepKinds /\ HistoryTypes' /\ SurfaceTypes'
  BY <1>1, OddsEffect, Zenon DEF StepKinds, Deliver, score_vars
<1>2. ASSUME NEW i \in DOMAIN Frames, Deliver(i), HandleScore(i) \/ HandleFixture(i)
      PROVE  StepKinds /\ UNCHANGED odds_vars
  BY <1>2, Zenon DEF StepKinds, HandleScore, HandleFixture, odds_vars
<1>3. ASSUME SettleNext
      PROVE  StepKinds /\ UNCHANGED odds_vars
  BY <1>3, SettleEffect, Zenon DEF StepKinds, SettleNext, odds_vars
<1>4. ASSUME SettleEnd \/ FeedEnds \/ Tick \/ UNCHANGED vars
      PROVE  StepKinds /\ UNCHANGED odds_vars
  BY <1>4, Zenon DEF StepKinds, SettleEnd, FeedEnds, Tick, vars, odds_vars
<1>5. ASSUME UNCHANGED odds_vars
      PROVE  HistoryTypes' /\ SurfaceTypes'
  <2>1. history' = history /\ surfaces' = surfaces
    BY <1>5 DEF odds_vars
  <2> QED
    BY <1>0, <2>1 DEF HistoryTypes, SurfaceTypes
<1> QED
  BY <1>1, <1>2, <1>3, <1>4, <1>5, Zenon DEF Next, Deliver

LEMMA ScoresTyped ==
  ASSUME Typed, [Next]_vars
  PROVE  ClockTypes' /\ ScoreTypes' /\ LoopTypes'
<1>1. ASSUME NEW i \in DOMAIN Frames, Deliver(i), HandleOdds(i)
      PROVE  ClockTypes' /\ ScoreTypes' /\ LoopTypes'
  <2>1. UNCHANGED <<now, score_vars, pc, settling>> /\ delivered' = delivered \cup {i}
    BY <1>1 DEF Deliver, HandleOdds
  <2> QED
    BY <2>1 DEF Typed, ClockTypes, ScoreTypes, LoopTypes, score_vars
<1>2. ASSUME NEW i \in DOMAIN Frames, Deliver(i), HandleScore(i)
      PROVE  ClockTypes' /\ ScoreTypes' /\ LoopTypes'
  <2> DEFINE f == Frames[i].fixture
  <2>1. /\ f \in Fixtures /\ Frames[i].startTime \in Nat \cup {Null}
    BY <1>2, FrameTypes DEF HandleScore, ScoreFrame
  <2>2. now' = now /\ delivered' = delivered \cup {i} /\ fixtureTeams' = fixtureTeams
    BY <1>2 DEF Deliver, HandleScore
  <2>3. fixtureStartMs' \in [Fixtures -> Nat \cup {Null}]
    <3>1. \/ fixtureStartMs' = fixtureStartMs
          \/ fixtureStartMs' = [fixtureStartMs EXCEPT ![f] = Frames[i].startTime]
      BY <1>2, Zenon DEF HandleScore, handleScore
    <3> QED
      BY <2>1, <3>1 DEF Typed, ScoreTypes
  <2>4. scores' \in [Fixtures -> {0} \cup delivered']
    <3>1. scores' = scores \/ scores' = [scores EXCEPT ![f] = i]
      BY <1>2, Zenon DEF HandleScore, handleScore
    <3> QED
      BY <2>1, <2>2, <3>1 DEF Typed, ScoreTypes
  <2>5. rated' \in [Fixtures -> {0} \cup delivered']
    <3>1. rated' = rated \/ rated' = [rated EXCEPT ![f] = scores'[f]]
      BY <1>2, Zenon DEF HandleScore, updateRatingsForFinal
    <3> QED
      BY <2>1, <2>2, <2>4, <3>1 DEF Typed, ScoreTypes
  <2>6. LoopTypes'
    <3>1. \/ pc' = pc /\ settling' = settling
          \/ pc' = "settle" /\ settling' = {f}
      <4>1. CASE isFinalGameState(i) /\ isFinalGameState(scores'[f])
        BY <1>2, <4>1, Zenon DEF HandleScore
      <4>2. CASE isFinalGameState(i) /\ ~isFinalGameState(scores'[f])
        BY <1>2, <4>2, Zenon DEF HandleScore
      <4>3. CASE ~isFinalGameState(i)
        BY <1>2, <4>3 DEF HandleScore
      <4> QED
        BY <4>1, <4>2, <4>3
    <3> QED
      BY <2>1, <3>1 DEF Typed, LoopTypes
  <2> QED
    BY <2>2, <2>3, <2>4, <2>5, <2>6 DEF Typed, ClockTypes, ScoreTypes
<1>3. ASSUME NEW i \in DOMAIN Frames, Deliver(i), HandleFixture(i)
      PROVE  ClockTypes' /\ ScoreTypes' /\ LoopTypes'
  <2>1. /\ UNCHANGED <<now, fixtureStartMs, scores, rated, pc, settling>>
        /\ delivered' = delivered \cup {i}
        /\ fixtureTeams' = fixtureTeams \cup {Frames[i].fixture}
    BY <1>3 DEF Deliver, HandleFixture
  <2>2. Frames[i].fixture \in Fixtures
    BY FrameTypes
  <2> QED
    BY <2>1, <2>2 DEF Typed, ClockTypes, ScoreTypes, LoopTypes
<1>4. ASSUME SettleNext \/ UNCHANGED vars
      PROVE  ClockTypes' /\ ScoreTypes' /\ LoopTypes'
  <2>1. UNCHANGED <<now, delivered, score_vars, pc, settling>>
    BY <1>4 DEF SettleNext, vars
  <2> QED
    BY <2>1 DEF Typed, ClockTypes, ScoreTypes, LoopTypes, score_vars
<1>5. ASSUME SettleEnd \/ FeedEnds
      PROVE  ClockTypes' /\ ScoreTypes' /\ LoopTypes'
  <2>1. /\ UNCHANGED <<now, delivered, score_vars>>
        /\ pc' \in {"feed", "sweep", "done"} /\ settling' \in {{}, Fixtures}
    BY <1>5 DEF SettleEnd, FeedEnds
  <2> QED
    BY <2>1 DEF Typed, ClockTypes, ScoreTypes, LoopTypes, score_vars
<1>6. ASSUME Tick
      PROVE  ClockTypes' /\ ScoreTypes' /\ LoopTypes'
  <2>1. UNCHANGED <<delivered, score_vars, pc, settling>> /\ now' = now + 1
    BY <1>6 DEF Tick
  <2> QED
    BY <2>1 DEF Typed, ClockTypes, ScoreTypes, LoopTypes, score_vars
<1> QED
  BY <1>1, <1>2, <1>3, <1>4, <1>5, <1>6, Zenon DEF Next, Deliver

LEMMA Committed ==
  ASSUME BookTypes, NEW d, Commits(d)
  PROVE  /\ d \in Position /\ d.fixture \in Fixtures /\ d.market \in Markets
         /\ d.stake \in Nat \ {0}
         /\ risk' = onCommit(d.stake, d.fixture, d.market)
         /\ open' = Append(open, d) /\ open' \in Seq(Position)
         /\ acted' = acted \cup {Key(d)} /\ Key(d) \in Markets \cup Fixtures
         /\ Len(open) \in Nat /\ Indices' = Indices \cup {Len(open)} /\ Len(open) \notin Indices
         /\ open'[Len(open) + 1] = d
         /\ \A p \in Indices : p + 1 \in DOMAIN open /\ open'[p + 1] = open[p + 1]
<1>1. /\ d \in Position /\ risk' = onCommit(d.stake, d.fixture, d.market)
      /\ open' = Append(open, d) /\ acted' = acted \cup {Key(d)}
  BY Zenon DEF Commits, Fits, commitDecision
<1>2. d.fixture \in Fixtures /\ d.market \in Markets /\ d.stake \in Nat \ {0}
  BY <1>1, PositionFields
<1>3. open \in Seq(Position)
  BY DEF BookTypes
<1>4. /\ open' \in Seq(Position) /\ Len(open) \in Nat /\ Len(open') = Len(open) + 1
      /\ open'[Len(open) + 1] = d
      /\ \A j \in 1..Len(open) : open'[j] = open[j]
      /\ DOMAIN open = 1..Len(open)
  BY <1>1, <1>3
<1>5. /\ Indices' = Indices \cup {Len(open)} /\ Len(open) \notin Indices
      /\ \A p \in Indices : p + 1 \in 1..Len(open)
  BY <1>4 DEF Indices
<1> QED
  BY <1>1, <1>2, <1>4, <1>5, Zenon DEF Key

LEMMA BooksTyped ==
  ASSUME Typed, [Next]_vars
  PROVE  BookTypes'
<1>1. StepKinds
  BY TypedIsTypeOK, StepEffect, Zenon
<1>2. BookTypes
  BY DEF Typed
<1>3. CASE UNCHANGED <<risk, open, acted, settlements>>
  BY <1>2, <1>3 DEF BookTypes, Indices
<1>4. ASSUME UNCHANGED settlements, NEW d, Commits(d)
      PROVE  BookTypes'
  <2>1. risk' \in RiskState
    <3>1. risk' = onCommit(d.stake, d.fixture, d.market)
          /\ d.fixture \in Fixtures /\ d.market \in Markets /\ d.stake \in Nat
      BY <1>2, <1>4, Committed
    <3> QED
      BY <1>2, <3>1, CommitBooked DEF BookTypes
  <2>2. open' \in Seq(Position) /\ acted' \subseteq Markets \cup Fixtures
    BY <1>2, <1>4, Committed DEF BookTypes
  <2>3. DOMAIN settlements' \subseteq Indices'
    <3>1. Indices \subseteq Indices'
      BY <1>2, <1>4, Committed
    <3> QED
      BY <1>2, <1>4, <3>1, Zenon DEF BookTypes
  <2> QED
    BY <2>1, <2>2, <2>3 DEF BookTypes
<1>5. ASSUME UNCHANGED <<open, acted>>, NEW p \in Due, Settles(p)
      PROVE  BookTypes'
  <2>1. p \in Indices
    BY DEF Due, Unsettled
  <2>2. open[p + 1] \in Position
    BY <2>1, OpenTypes, TypedIsTypeOK
  <2> DEFINE d == open[p + 1]
  <2>3. PICK pnl, settlement :
          /\ pnl \in Int
          /\ risk' = onSettlement(d.stake, pnl, d.fixture, d.market)
          /\ settlements' = [j \in DOMAIN settlements \cup {p} |->
                               IF j # p THEN settlements[j] ELSE settlement]
    BY <1>5, Zenon DEF Settles
  <2>4. d.stake \in Nat /\ d.fixture \in Fixtures /\ d.market \in Markets
    BY <2>2, PositionFields
  <2>5. DOMAIN settlements' = DOMAIN settlements \cup {p}
    BY <2>3
  <2> HIDE DEF d
  <2>6. risk' \in RiskState
    BY <1>2, <2>3, <2>4, SettlementBooked DEF BookTypes
  <2> QED
    BY <1>2, <1>5, <2>1, <2>5, <2>6 DEF BookTypes, Indices
<1> QED
  BY <1>1, <1>3, <1>4, <1>5 DEF StepKinds, odds_vars

LEMMA InitTyped == Init => Typed
<1> SUFFICES ASSUME Init PROVE Typed
  OBVIOUS
<1>1. ClockTypes /\ ScoreTypes /\ LoopTypes
  BY DEF Init, ClockTypes, ScoreTypes, LoopTypes
<1>2. HistoryTypes
  <2>1. /\ history \in [Markets \X Outcomes -> Seq(Observation)]
        /\ \A k \in DOMAIN history : history[k] = <<>>
    BY DEF Init
  <2>2. Len(<<>>) = 0
    OBVIOUS
  <2>3. \A k \in DOMAIN history : Len(history[k]) = 0
    BY <2>1, <2>2, Zenon
  <2>4. 0 <= Config.steamHistoryLimit
    BY ConfigTypes
  <2> QED
    BY <2>1, <2>3, <2>4, Zenon DEF HistoryTypes
<1>3. SurfaceTypes
  BY DEF Init, SurfaceTypes
<1>4. BookTypes
  <2>1. risk \in RiskState
    BY ConfigTypes DEF Init, createRiskState, RiskState
  <2>2. open \in Seq(Position) /\ acted = {} /\ DOMAIN settlements = {}
    BY DEF Init
  <2> QED
    BY <2>1, <2>2 DEF BookTypes
<1> QED
  BY <1>1, <1>2, <1>3, <1>4 DEF Typed

LEMMA StaysTyped == Typed /\ [Next]_vars => Typed'
BY TypedIsTypeOK, StepEffect, ScoresTyped, BooksTyped, Zenon DEF Typed

\* Every variable of the pipeline always holds a value of its type.
THEOREM TypeSafety == Spec => []TypeOK
<1>1. Init => Typed
  BY InitTyped
<1>2. Typed /\ [Next]_vars => Typed'
  BY StaysTyped
<1>3. Typed => TypeOK
  BY TypedIsTypeOK
<1> QED
  BY <1>1, <1>2, <1>3, PTL DEF Spec

(***************************************************************************)
(* Sums of stakes.                                                         *)
(***************************************************************************)

StakeIn(positions, P) == SumFunction([p \in P |-> positions[p + 1].stake])

LEMMA StakeOfIsStakeIn == \A P : StakeOf(P) = StakeIn(open, P)
BY Zenon DEF StakeOf, StakeIn

LEMMA IndicesFinite ==
  ASSUME NEW n \in Nat, NEW P \in SUBSET (0..n - 1)
  PROVE  IsFiniteSet(P)
<1>1. IsFiniteSet(0..n - 1)
  BY FS_Interval
<1> QED
  BY <1>1, FS_Subset

LEMMA StakesInPositions ==
  ASSUME NEW s \in Seq(Position), NEW p \in 0..Len(s) - 1
  PROVE  s[p + 1].stake \in Nat \ {0}
<1>1. p + 1 \in 1..Len(s)
  OBVIOUS
<1>2. s[p + 1] \in Position
  BY <1>1
<1> QED
  BY <1>2, PositionFields

LEMMA StakeInType ==
  ASSUME NEW s \in Seq(Position), NEW P \in SUBSET (0..Len(s) - 1)
  PROVE  StakeIn(s, P) \in Nat
<1> DEFINE f == [p \in P |-> s[p + 1].stake]
<1>0. Len(s) \in Nat /\ DOMAIN f = P
  OBVIOUS
<1>1. IsFiniteSet(DOMAIN f)
  BY <1>0, IndicesFinite, Zenon
<1>2. \A p \in DOMAIN f : f[p] \in Nat
  BY StakesInPositions
<1>3. \A p \in DOMAIN f : f[p] \in Int
  BY <1>2
<1> HIDE DEF f
<1>4. SumFunction(f) \in Nat
  BY <1>1, <1>2, <1>3, SumType
<1> QED
  BY <1>4 DEF f, StakeIn

LEMMA NoStakes == \A s : StakeIn(s, {}) = 0
<1>1. ASSUME NEW s PROVE StakeIn(s, {}) = 0
  <2>1. DOMAIN [p \in {} |-> s[p + 1].stake] = {}
    OBVIOUS
  <2> QED
    BY <2>1, SumEmpty DEF StakeIn
<1> QED
  BY <1>1

\* A position more, outside the set that is summed or in it.
LEMMA StakeAppended ==
  ASSUME NEW s \in Seq(Position), NEW d \in Position, NEW P \in SUBSET (0..Len(s) - 1)
  PROVE  /\ StakeIn(Append(s, d), P) = StakeIn(s, P)
         /\ StakeIn(Append(s, d), P \cup {Len(s)}) = StakeIn(s, P) + d.stake
<1> DEFINE t == Append(s, d)
           n == Len(s)
           f == [p \in P |-> s[p + 1].stake]
           g == [p \in P |-> t[p + 1].stake]
           h == [p \in P \cup {n} |-> t[p + 1].stake]
<1>0. Len(s) \in Nat
  OBVIOUS
<1>1. IsFiniteSet(P)
  BY <1>0, IndicesFinite, Zenon
<1>2. \A p \in P : t[p + 1] = s[p + 1]
  <2>1. \A p \in P : p + 1 \in 1..Len(s)
    OBVIOUS
  <2> QED
    BY <2>1
<1>3. t[n + 1] = d /\ n \notin P
  OBVIOUS
<1>4. d.stake \in Int /\ \A p \in P : s[p + 1].stake \in Int
  BY StakesInPositions, PositionFields
<1> HIDE DEF t, n
<1>5. /\ IsFiniteSet(DOMAIN f) /\ DOMAIN g = DOMAIN f /\ \A p \in DOMAIN f : g[p] = f[p]
  BY <1>1, <1>2
<1>6. /\ n \notin DOMAIN f /\ DOMAIN h = DOMAIN f \cup {n} /\ h[n] = d.stake /\ h[n] \in Int
      /\ \A p \in DOMAIN f : f[p] \in Int /\ h[p] = f[p]
  BY <1>1, <1>2, <1>3, <1>4
<1> HIDE DEF f, g, h
<1>7. SumFunction(g) = SumFunction(f)
  BY <1>5, SumSame
<1>8. SumFunction(h) = SumFunction(f) + h[n]
  BY <1>5, <1>6, SumAdd
<1>9. SumFunction(h) = SumFunction(f) + d.stake
  BY <1>6, <1>8, Zenon
<1> QED
  BY <1>7, <1>9, Zenon DEF StakeIn, f, g, h, t, n

\* A position less.
LEMMA StakeReleased ==
  ASSUME NEW s \in Seq(Position), NEW P \in SUBSET (0..Len(s) - 1), NEW p \in P
  PROVE  /\ StakeIn(s, P \ {p}) = StakeIn(s, P) - s[p + 1].stake
         /\ s[p + 1].stake <= StakeIn(s, P)
<1> DEFINE f == [q \in P |-> s[q + 1].stake]
           g == [q \in P \ {p} |-> s[q + 1].stake]
<1>0. Len(s) \in Nat
  OBVIOUS
<1>1. IsFiniteSet(P)
  BY <1>0, IndicesFinite, Zenon
<1>2. \A q \in P : s[q + 1].stake \in Int
  BY StakesInPositions
<1>3. /\ IsFiniteSet(DOMAIN f) /\ p \in DOMAIN f /\ DOMAIN g = DOMAIN f \ {p}
      /\ f[p] \in Int /\ f[p] = s[p + 1].stake
      /\ \A q \in DOMAIN g : f[q] \in Int /\ g[q] = f[q]
  BY <1>1, <1>2
<1> HIDE DEF f, g
<1>4. SumFunction(g) = SumFunction(f) - f[p]
  BY <1>3, SumDrop
<1>5. SumFunction(g) = SumFunction(f) - s[p + 1].stake
  BY <1>3, <1>4, Zenon
<1>6. StakeIn(s, P \ {p}) = StakeIn(s, P) - s[p + 1].stake
  BY <1>5, Zenon DEF StakeIn, f, g
<1>7. StakeIn(s, P \ {p}) \in Nat /\ StakeIn(s, P) \in Nat
  <2>1. P \ {p} \in SUBSET (0..Len(s) - 1)
    OBVIOUS
  <2> QED
    BY <2>1, StakeInType
<1>8. s[p + 1].stake \in Nat
  BY StakesInPositions
<1> QED
  BY <1>6, <1>7, <1>8

(***************************************************************************)
(* The books are the sums.                                                 *)
(***************************************************************************)

\* RiskBooksAgree without the types.
BooksAgree ==
  /\ risk.openCount = Cardinality(Unsettled)
  /\ risk.totalExposure = StakeIn(open, Unsettled)
  /\ \A f \in Fixtures : risk.exposureByFixture[f] = StakeIn(open, UnsettledOn(f))
  /\ \A m \in Markets : risk.exposureByMarket[m] = StakeIn(open, UnsettledIn(m))

LEMMA BooksAgreeIsSum == RiskBooksAgree <=> TypeOK /\ BooksAgree
BY StakeOfIsStakeIn, Zenon DEF BooksAgree, RiskBooksAgree

LEMMA SetsOfIndices ==
  ASSUME BookTypes
  PROVE  /\ open \in Seq(Position) /\ Len(open) \in Nat
         /\ Unsettled \subseteq 0..Len(open) - 1 /\ IsFiniteSet(Unsettled)
         /\ \A f : UnsettledOn(f) \subseteq 0..Len(open) - 1
         /\ \A m : UnsettledIn(m) \subseteq 0..Len(open) - 1
<1>1. open \in Seq(Position) /\ Len(open) \in Nat
  BY DEF BookTypes
<1>2. Unsettled \in SUBSET (0..Len(open) - 1)
  BY Zenon DEF Unsettled, Indices
<1>3. IsFiniteSet(Unsettled)
  BY <1>1, <1>2, IndicesFinite
<1> QED
  BY <1>1, <1>2, <1>3 DEF UnsettledOn, UnsettledIn

LEMMA CommitKeepsBooks ==
  ASSUME BookTypes, BooksAgree, NEW d, Commits(d), UNCHANGED settlements
  PROVE  BooksAgree'
<1> DEFINE n == Len(open)
<1>1. /\ d \in Position /\ d.fixture \in Fixtures /\ d.market \in Markets
      /\ d.stake \in Nat /\ d.stake \in Int
      /\ risk' = onCommit(d.stake, d.fixture, d.market)
      /\ open' = Append(open, d)
      /\ n \in Nat /\ Indices' = Indices \cup {n} /\ n \notin Indices
      /\ open'[n + 1] = d
      /\ \A p \in Indices : open'[p + 1] = open[p + 1]
  BY Committed
<1>2. risk \in RiskState /\ DOMAIN settlements \subseteq Indices
  BY DEF BookTypes
<1>3. /\ open \in Seq(Position)
      /\ Unsettled \subseteq 0..Len(open) - 1 /\ IsFiniteSet(Unsettled)
      /\ \A f : UnsettledOn(f) \subseteq 0..Len(open) - 1
      /\ \A m : UnsettledIn(m) \subseteq 0..Len(open) - 1
  BY SetsOfIndices
<1>4. Unsettled' = Unsettled \cup {n} /\ n \notin Unsettled
  BY <1>1, <1>2 DEF Unsettled
<1>5. Unsettled \subseteq Indices
  BY DEF Unsettled
<1>6. \A f : UnsettledOn(f)' = IF f = d.fixture THEN UnsettledOn(f) \cup {n} ELSE UnsettledOn(f)
  BY <1>1, <1>4, <1>5 DEF UnsettledOn
<1>7. \A m : UnsettledIn(m)' = IF m = d.market THEN UnsettledIn(m) \cup {n} ELSE UnsettledIn(m)
  BY <1>1, <1>4, <1>5 DEF UnsettledIn
<1>8. \A P \in SUBSET (0..Len(open) - 1) :
        /\ StakeIn(open', P) = StakeIn(open, P)
        /\ StakeIn(open', P \cup {n}) = StakeIn(open, P) + d.stake
  BY <1>1, <1>3, StakeAppended
<1> HIDE DEF n
<1>9. /\ risk'.openCount = risk.openCount + 1
      /\ risk'.totalExposure = risk.totalExposure + d.stake
      /\ \A f \in Fixtures : risk'.exposureByFixture[f] =
           IF f = d.fixture THEN risk.exposureByFixture[f] + d.stake
                            ELSE risk.exposureByFixture[f]
      /\ \A m \in Markets : risk'.exposureByMarket[m] =
           IF m = d.market THEN risk.exposureByMarket[m] + d.stake
                           ELSE risk.exposureByMarket[m]
  BY <1>1, <1>2, CommitBooked
<1>10. risk'.openCount = Cardinality(Unsettled')
  <2>1. Cardinality(Unsettled') = Cardinality(Unsettled) + 1
    BY <1>3, <1>4, FS_AddElement
  <2> QED
    BY <1>9, <2>1 DEF BooksAgree
<1>11. risk'.totalExposure = StakeIn(open', Unsettled')
  BY <1>3, <1>4, <1>8, <1>9 DEF BooksAgree
<1>12. ASSUME NEW f \in Fixtures
       PROVE  risk'.exposureByFixture[f] = StakeIn(open', UnsettledOn(f)')
  <2>1. risk.exposureByFixture[f] = StakeIn(open, UnsettledOn(f))
    BY DEF BooksAgree
  <2>2. UnsettledOn(f) \in SUBSET (0..Len(open) - 1)
    BY <1>3
  <2>3. CASE f = d.fixture
    BY <1>6, <1>8, <1>9, <2>1, <2>2, <2>3, ZenonT(60)
  <2>4. CASE f # d.fixture
    BY <1>6, <1>8, <1>9, <2>1, <2>2, <2>4, ZenonT(60)
  <2> QED
    BY <2>3, <2>4
<1>13. ASSUME NEW m \in Markets
       PROVE  risk'.exposureByMarket[m] = StakeIn(open', UnsettledIn(m)')
  <2>1. risk.exposureByMarket[m] = StakeIn(open, UnsettledIn(m))
    BY DEF BooksAgree
  <2>2. UnsettledIn(m) \in SUBSET (0..Len(open) - 1)
    BY <1>3
  <2>3. CASE m = d.market
    BY <1>7, <1>8, <1>9, <2>1, <2>2, <2>3, ZenonT(60)
  <2>4. CASE m # d.market
    BY <1>7, <1>8, <1>9, <2>1, <2>2, <2>4, ZenonT(60)
  <2> QED
    BY <2>3, <2>4
<1> QED
  BY <1>10, <1>11, <1>12, <1>13 DEF BooksAgree

\* What is known of the position a step settles.
LEMMA Settled ==
  ASSUME BookTypes, NEW p \in Due, Settles(p), open' = open
  PROVE  LET d == open[p + 1]
             score == Frames[scores[d.fixture]] IN
         /\ d \in Position /\ p \in Unsettled /\ p \in Indices
         /\ Indices' = Indices /\ Unsettled' = Unsettled \ {p}
         /\ DOMAIN settlements' = DOMAIN settlements \cup {p}
         /\ \A q \in DOMAIN settlements : settlements'[q] = settlements[q]
         /\ PaysOn(settlements'[p], d, scores[d.fixture])
         /\ \E pnl \in Int : /\ pnl >= -d.stake
                             /\ risk' = onSettlement(d.stake, pnl, d.fixture, d.market)
<1> DEFINE d == open[p + 1]
           score == Frames[scores[d.fixture]]
<1>1. PICK pnl, settlement :
        /\ pnl \in Int /\ pnl >= -d.stake
        /\ risk' = onSettlement(d.stake, pnl, d.fixture, d.market)
        /\ settlements' = [j \in DOMAIN settlements \cup {p} |->
                             IF j # p THEN settlements[j] ELSE settlement]
        /\ settlement.settledSeq = score.seq
        /\ settlement.result = resultOf(score.homeGoals, score.awayGoals)
        /\ settlement.won = (settlement.result = d.outcome)
        /\ settlement.pnl = computePnl(settlement.won, d.stake, d.entryOdds)
  BY Zenon DEF Settles
<1>2. p \in Unsettled /\ p \in Indices /\ p \notin DOMAIN settlements
  BY Zenon DEF Due, Unsettled
<1>3. /\ DOMAIN settlements' = DOMAIN settlements \cup {p}
      /\ \A q \in DOMAIN settlements : settlements'[q] = settlements[q]
      /\ settlements'[p] = settlement
  BY <1>1, <1>2
<1>4. Indices' = Indices
  BY DEF Indices
<1>5. Unsettled' = Unsettled \ {p}
  BY <1>3, <1>4 DEF Unsettled
<1>6. d \in Position
  <2>1. open \in Seq(Position)
    BY DEF BookTypes
  <2>2. p + 1 \in 1..Len(open)
    BY <1>2, <2>1 DEF Indices
  <2> QED
    BY <2>1, <2>2
<1>7. PaysOn(settlements'[p], d, scores[d.fixture])
  BY <1>1, <1>3, Zenon DEF PaysOn
<1> HIDE DEF d, score
<1> QED
  BY <1>1, <1>2, <1>3, <1>4, <1>5, <1>6, <1>7, Zenon DEF d, score

LEMMA SettleKeepsBooks ==
  ASSUME BookTypes, BooksAgree, NEW p \in Due, Settles(p), open' = open
  PROVE  BooksAgree'
<1> DEFINE d == open[p + 1]
<1>1. /\ d \in Position /\ p \in Unsettled /\ p \in Indices
      /\ Unsettled' = Unsettled \ {p}
      /\ \E pnl \in Int : risk' = onSettlement(d.stake, pnl, d.fixture, d.market)
  BY Settled, Zenon
<1>2. risk \in RiskState
  BY DEF BookTypes
<1>3. /\ open \in Seq(Position)
      /\ Unsettled \subseteq 0..Len(open) - 1 /\ IsFiniteSet(Unsettled)
      /\ \A f : UnsettledOn(f) \subseteq 0..Len(open) - 1
      /\ \A m : UnsettledIn(m) \subseteq 0..Len(open) - 1
  BY SetsOfIndices
<1>4. d.fixture \in Fixtures /\ d.market \in Markets /\ d.stake \in Nat
  BY <1>1, PositionFields
<1>5. \A f : UnsettledOn(f)' = IF f = d.fixture THEN UnsettledOn(f) \ {p} ELSE UnsettledOn(f)
  BY <1>1 DEF UnsettledOn
<1>6. \A m : UnsettledIn(m)' = IF m = d.market THEN UnsettledIn(m) \ {p} ELSE UnsettledIn(m)
  BY <1>1 DEF UnsettledIn
<1>7. p \in UnsettledOn(d.fixture) /\ p \in UnsettledIn(d.market)
  BY <1>1 DEF UnsettledOn, UnsettledIn
<1>8. \A P \in SUBSET (0..Len(open) - 1) :
        p \in P => /\ StakeIn(open, P \ {p}) = StakeIn(open, P) - d.stake
                   /\ d.stake <= StakeIn(open, P)
                   /\ StakeIn(open, P) \in Nat
  BY <1>3, StakeReleased, StakeInType
<1>9. PICK pnl \in Int : risk' = onSettlement(d.stake, pnl, d.fixture, d.market)
  BY <1>1
<1> HIDE DEF d
<1>10. /\ risk'.openCount = Saturating(risk.openCount - 1)
       /\ risk'.totalExposure = Saturating(risk.totalExposure - d.stake)
       /\ \A f \in Fixtures : risk'.exposureByFixture[f] =
            IF f = d.fixture THEN Saturating(risk.exposureByFixture[f] - d.stake)
                             ELSE risk.exposureByFixture[f]
       /\ \A m \in Markets : risk'.exposureByMarket[m] =
            IF m = d.market THEN Saturating(risk.exposureByMarket[m] - d.stake)
                            ELSE risk.exposureByMarket[m]
  BY <1>2, <1>4, <1>9, SettlementBooked
<1>11. \A n \in Int : n >= 0 => Saturating(n) = n
  BY DEF Saturating
<1>12. ASSUME NEW P \in SUBSET (0..Len(open) - 1), p \in P
       PROVE  Saturating(StakeIn(open, P) - d.stake) = StakeIn(open, P \ {p})
  <2> DEFINE a == StakeIn(open, P)
  <2>1. StakeIn(open, P \ {p}) = a - d.stake /\ d.stake <= a /\ a \in Nat
    BY <1>8, <1>12
  <2> HIDE DEF a
  <2>2. a - d.stake \in Int /\ a - d.stake >= 0
    BY <1>4, <2>1
  <2> QED
    BY <1>11, <2>1, <2>2 DEF a
<1>13. risk'.openCount = Cardinality(Unsettled')
  <2>1. Cardinality(Unsettled') = Cardinality(Unsettled) - 1
    BY <1>1, <1>3, FS_RemoveElement
  <2>2. Cardinality(Unsettled') \in Nat /\ Cardinality(Unsettled) \in Nat
    BY <1>1, <1>3, FS_Subset, FS_CardinalityType
  <2> QED
    BY <1>10, <1>11, <2>1, <2>2 DEF BooksAgree
<1>14. risk'.totalExposure = StakeIn(open', Unsettled')
  BY <1>1, <1>3, <1>10, <1>12, Zenon DEF BooksAgree
<1>15. ASSUME NEW f \in Fixtures
       PROVE  risk'.exposureByFixture[f] = StakeIn(open', UnsettledOn(f)')
  <2>1. risk.exposureByFixture[f] = StakeIn(open, UnsettledOn(f))
    BY DEF BooksAgree
  <2>2. UnsettledOn(f) \in SUBSET (0..Len(open) - 1)
    BY <1>3
  <2>3. CASE f = d.fixture
    BY <1>5, <1>7, <1>10, <1>12, <2>1, <2>2, <2>3, Zenon
  <2>4. CASE f # d.fixture
    BY <1>5, <1>10, <2>1, <2>4, Zenon
  <2> QED
    BY <2>3, <2>4
<1>16. ASSUME NEW m \in Markets
       PROVE  risk'.exposureByMarket[m] = StakeIn(open', UnsettledIn(m)')
  <2>1. risk.exposureByMarket[m] = StakeIn(open, UnsettledIn(m))
    BY DEF BooksAgree
  <2>2. UnsettledIn(m) \in SUBSET (0..Len(open) - 1)
    BY <1>3
  <2>3. CASE m = d.market
    BY <1>6, <1>7, <1>10, <1>12, <2>1, <2>2, <2>3, Zenon
  <2>4. CASE m # d.market
    BY <1>6, <1>10, <2>1, <2>4, Zenon
  <2> QED
    BY <2>3, <2>4
<1> QED
  BY <1>13, <1>14, <1>15, <1>16 DEF BooksAgree

LEMMA InitBooks == Init => BooksAgree
<1> SUFFICES ASSUME Init PROVE BooksAgree
  OBVIOUS
<1>1. open = <<>> /\ Len(open) = 0 /\ risk = createRiskState
  BY DEF Init
<1>2. Unsettled = {}
  BY <1>1 DEF Unsettled, Indices
<1>3. \A f : UnsettledOn(f) = {} /\ UnsettledIn(f) = {}
  BY <1>2 DEF UnsettledOn, UnsettledIn
<1>4. Cardinality(Unsettled) = 0
  BY <1>2, FS_EmptySet
<1>5. /\ risk.openCount = 0 /\ risk.totalExposure = 0
      /\ \A f \in Fixtures : risk.exposureByFixture[f] = 0
      /\ \A m \in Markets : risk.exposureByMarket[m] = 0
  BY <1>1 DEF createRiskState
<1> QED
  BY <1>2, <1>3, <1>4, <1>5, NoStakes, Zenon DEF BooksAgree

LEMMA BooksKept ==
  ASSUME Typed, BooksAgree, [Next]_vars
  PROVE  BooksAgree'
<1>1. StepKinds /\ BookTypes
  BY TypedIsTypeOK, StepEffect, Zenon DEF Typed
<1>2. CASE UNCHANGED <<risk, open, acted, settlements>>
  BY <1>2 DEF BooksAgree, Unsettled, UnsettledOn, UnsettledIn, Indices
<1>3. ASSUME UNCHANGED settlements, NEW d, Commits(d)
      PROVE  BooksAgree'
  BY <1>1, <1>3, CommitKeepsBooks
<1>4. ASSUME open' = open, NEW p \in Due, Settles(p)
      PROVE  BooksAgree'
  BY <1>1, <1>4, SettleKeepsBooks
<1> QED
  BY <1>1, <1>2, <1>3, <1>4 DEF StepKinds

\* The exposures and the count the risk manager keeps equal, in every state, a
\* recount of the positions still open: what a commit adds its settlement takes
\* back, once, in full.
THEOREM BooksSafety == Spec => []RiskBooksAgree
<1>1. Init => Typed /\ BooksAgree
  BY InitTyped, InitBooks
<1>2. (Typed /\ BooksAgree) /\ [Next]_vars => (Typed /\ BooksAgree)'
  BY StaysTyped, BooksKept
<1>3. Typed /\ BooksAgree => RiskBooksAgree
  BY TypedIsTypeOK, BooksAgreeIsSum
<1> QED
  BY <1>1, <1>2, <1>3, PTL DEF Spec

(***************************************************************************)
(* The limits.                                                             *)
(***************************************************************************)

\* The limits as the risk manager reads them, and what the bankroll may have
\* lost: inductive once the books agree.
LimitsHeld ==
  /\ risk.openCount <= Config.maxConcurrent
  /\ risk.totalExposure <= Config.totalExposureCap
  /\ \A f \in Fixtures : risk.exposureByFixture[f] <= Config.perFixtureExposureCap
  /\ \A m \in Markets : risk.exposureByMarket[m] <= Config.perMarketExposureCap
  /\ risk.dayStartBankroll - risk.bankroll + risk.totalExposure
       <= Config.maxDailyDrawdown + Config.totalExposureCap

LEMMA RiskFields ==
  ASSUME risk \in RiskState
  PROVE  /\ risk.bankroll \in Nat /\ risk.dayStartBankroll \in Nat
         /\ risk.openCount \in Nat /\ risk.totalExposure \in Nat
         /\ \A f \in Fixtures : risk.exposureByFixture[f] \in Nat
         /\ \A m \in Markets : risk.exposureByMarket[m] \in Nat
BY DEF RiskState

LEMMA LimitsAreSums == BooksAgree /\ LimitsHeld => WithinLimits /\ LossIsBounded
BY StakeOfIsStakeIn, Zenon DEF BooksAgree, LimitsHeld, WithinLimits, LossIsBounded

LEMMA CommitKeepsLimits ==
  ASSUME BookTypes, LimitsHeld, NEW d, Commits(d)
  PROVE  LimitsHeld'
<1>1. /\ d.fixture \in Fixtures /\ d.market \in Markets /\ d.stake \in Nat
      /\ risk' = onCommit(d.stake, d.fixture, d.market) /\ risk \in RiskState
  BY Committed DEF BookTypes
<1>2. /\ risk.totalExposure + d.stake <= Config.totalExposureCap
      /\ risk.exposureByFixture[d.fixture] + d.stake <= Config.perFixtureExposureCap
      /\ risk.exposureByMarket[d.market] + d.stake <= Config.perMarketExposureCap
      /\ risk.openCount < Config.maxConcurrent
      /\ risk.dayStartBankroll - risk.bankroll <= Config.maxDailyDrawdown
  BY Zenon DEF Commits, Fits
<1>3. /\ risk'.bankroll = risk.bankroll /\ risk'.dayStartBankroll = risk.dayStartBankroll
      /\ risk'.openCount = risk.openCount + 1
      /\ risk'.totalExposure = risk.totalExposure + d.stake
      /\ \A f \in Fixtures : risk'.exposureByFixture[f] =
           IF f = d.fixture THEN risk.exposureByFixture[f] + d.stake
                            ELSE risk.exposureByFixture[f]
      /\ \A m \in Markets : risk'.exposureByMarket[m] =
           IF m = d.market THEN risk.exposureByMarket[m] + d.stake
                           ELSE risk.exposureByMarket[m]
  BY <1>1, CommitBooked
<1>4. /\ risk'.openCount <= Config.maxConcurrent
      /\ risk'.totalExposure <= Config.totalExposureCap
      /\ risk'.dayStartBankroll - risk'.bankroll + risk'.totalExposure
           <= Config.maxDailyDrawdown + Config.totalExposureCap
  BY <1>1, <1>2, <1>3, RiskFields, ConfigTypes
<1>5. ASSUME NEW f \in Fixtures
      PROVE  risk'.exposureByFixture[f] <= Config.perFixtureExposureCap
  <2>1. CASE f = d.fixture
    BY <1>2, <1>3, <2>1, Zenon
  <2>2. CASE f # d.fixture
    BY <1>3, <2>2, Zenon DEF LimitsHeld
  <2> QED
    BY <2>1, <2>2
<1>6. ASSUME NEW m \in Markets
      PROVE  risk'.exposureByMarket[m] <= Config.perMarketExposureCap
  <2>1. CASE m = d.market
    BY <1>2, <1>3, <2>1, Zenon
  <2>2. CASE m # d.market
    BY <1>3, <2>2, Zenon DEF LimitsHeld
  <2> QED
    BY <2>1, <2>2
<1> QED
  BY <1>4, <1>5, <1>6 DEF LimitsHeld

LEMMA SettleKeepsLimits ==
  ASSUME BookTypes, BooksAgree, LimitsHeld, NEW p \in Due, Settles(p), open' = open
  PROVE  LimitsHeld'
<1> DEFINE d == open[p + 1]
<1>1. /\ d \in Position /\ p \in Unsettled /\ risk \in RiskState
      /\ \E pnl \in Int : /\ pnl >= -d.stake
                          /\ risk' = onSettlement(d.stake, pnl, d.fixture, d.market)
  BY Settled, Zenon DEF BookTypes
<1>2. d.fixture \in Fixtures /\ d.market \in Markets /\ d.stake \in Nat
  BY <1>1, PositionFields
<1>3. d.stake <= risk.totalExposure
  <2>1. open \in Seq(Position) /\ Unsettled \in SUBSET (0..Len(open) - 1)
    BY SetsOfIndices
  <2> QED
    BY <1>1, <2>1, StakeReleased, Zenon DEF BooksAgree
<1>4. PICK pnl \in Int : /\ pnl >= -d.stake
                         /\ risk' = onSettlement(d.stake, pnl, d.fixture, d.market)
  BY <1>1
<1> HIDE DEF d
<1>5. /\ risk'.bankroll \in Nat /\ risk'.bankroll >= risk.bankroll + pnl
      /\ risk'.dayStartBankroll = risk.dayStartBankroll
      /\ risk'.openCount = Saturating(risk.openCount - 1)
      /\ risk'.totalExposure = Saturating(risk.totalExposure - d.stake)
      /\ \A f \in Fixtures : risk'.exposureByFixture[f] =
           IF f = d.fixture THEN Saturating(risk.exposureByFixture[f] - d.stake)
                            ELSE risk.exposureByFixture[f]
      /\ \A m \in Markets : risk'.exposureByMarket[m] =
           IF m = d.market THEN Saturating(risk.exposureByMarket[m] - d.stake)
                           ELSE risk.exposureByMarket[m]
  <2>1. risk' \in RiskState
    BY <1>1, <1>2, <1>4, SettlementBooked
  <2>2. risk'.bankroll \in Nat
    BY <2>1 DEF RiskState
  <2> QED
    BY <1>1, <1>2, <1>4, <2>2, SettlementBooked
<1>7. risk'.totalExposure = risk.totalExposure - d.stake
  BY <1>1, <1>2, <1>3, <1>5, RiskFields DEF Saturating
<1>8. /\ risk'.totalExposure <= Config.totalExposureCap
      /\ risk'.dayStartBankroll - risk'.bankroll + risk'.totalExposure
           <= Config.maxDailyDrawdown + Config.totalExposureCap
  BY <1>1, <1>2, <1>4, <1>5, <1>7, RiskFields, ConfigTypes DEF LimitsHeld
<1>10. risk'.openCount <= Config.maxConcurrent
  <2>1. /\ risk.openCount \in Nat /\ 1 \in Nat /\ Config.maxConcurrent \in Nat
        /\ risk.openCount <= Config.maxConcurrent
    BY <1>1, RiskFields, ConfigTypes DEF LimitsHeld
  <2>2. risk'.openCount = Saturating(risk.openCount - 1)
    BY <1>5
  <2> QED
    BY <2>1, <2>2 DEF Saturating
<1>11. ASSUME NEW f \in Fixtures
       PROVE  risk'.exposureByFixture[f] <= Config.perFixtureExposureCap
  <2>1. /\ risk.exposureByFixture[f] \in Nat /\ Config.perFixtureExposureCap \in Nat
        /\ risk.exposureByFixture[f] <= Config.perFixtureExposureCap
    BY <1>1, RiskFields, ConfigTypes DEF LimitsHeld
  <2>2. CASE f = d.fixture
    <3>1. risk'.exposureByFixture[f] = Saturating(risk.exposureByFixture[f] - d.stake)
      BY <1>5, <2>2, Zenon
    <3> QED
      BY <1>2, <2>1, <3>1 DEF Saturating
  <2>3. CASE f # d.fixture
    BY <1>5, <2>1, <2>3, Zenon
  <2> QED
    BY <2>2, <2>3
<1>12. ASSUME NEW m \in Markets
       PROVE  risk'.exposureByMarket[m] <= Config.perMarketExposureCap
  <2>1. /\ risk.exposureByMarket[m] \in Nat /\ Config.perMarketExposureCap \in Nat
        /\ risk.exposureByMarket[m] <= Config.perMarketExposureCap
    BY <1>1, RiskFields, ConfigTypes DEF LimitsHeld
  <2>2. CASE m = d.market
    <3>1. risk'.exposureByMarket[m] = Saturating(risk.exposureByMarket[m] - d.stake)
      BY <1>5, <2>2, Zenon
    <3> QED
      BY <1>2, <2>1, <3>1 DEF Saturating
  <2>3. CASE m # d.market
    BY <1>5, <2>1, <2>3, Zenon
  <2> QED
    BY <2>2, <2>3
<1> QED
  BY <1>8, <1>10, <1>11, <1>12 DEF LimitsHeld

LEMMA InitLimits == Init => LimitsHeld
<1> SUFFICES ASSUME Init PROVE LimitsHeld
  OBVIOUS
<1>1. /\ risk.openCount = 0 /\ risk.totalExposure = 0
      /\ risk.bankroll = Config.startingBankroll
      /\ risk.dayStartBankroll = Config.startingBankroll
      /\ \A f \in Fixtures : risk.exposureByFixture[f] = 0
      /\ \A m \in Markets : risk.exposureByMarket[m] = 0
  BY DEF Init, createRiskState
<1> QED
  BY <1>1, ConfigTypes DEF LimitsHeld

LEMMA LimitsKept ==
  ASSUME Typed, BooksAgree, LimitsHeld, [Next]_vars
  PROVE  LimitsHeld'
<1>1. StepKinds /\ BookTypes
  BY TypedIsTypeOK, StepEffect, Zenon DEF Typed
<1>2. CASE risk' = risk
  BY <1>2 DEF LimitsHeld
<1>3. ASSUME NEW d, Commits(d)
      PROVE  LimitsHeld'
  BY <1>1, <1>3, CommitKeepsLimits
<1>4. ASSUME open' = open, NEW p \in Due, Settles(p)
      PROVE  LimitsHeld'
  BY <1>1, <1>4, SettleKeepsLimits
<1> QED
  BY <1>1, <1>2, <1>3, <1>4 DEF StepKinds

\* Whatever the feed and the fits, the positions still open never exceed
\* maxConcurrent or one of the three exposure caps.
THEOREM LimitsSafety == Spec => []WithinLimits
<1>1. Init => Typed /\ BooksAgree /\ LimitsHeld
  BY InitTyped, InitBooks, InitLimits
<1>2. (Typed /\ BooksAgree /\ LimitsHeld) /\ [Next]_vars
        => (Typed /\ BooksAgree /\ LimitsHeld)'
  BY StaysTyped, BooksKept, LimitsKept
<1>3. BooksAgree /\ LimitsHeld => WithinLimits
  BY LimitsAreSums
<1> QED
  BY <1>1, <1>2, <1>3, PTL DEF Spec

\* The bankroll and everything at stake never lose more, together, than
\* maxDailyDrawdown and totalExposureCap.
THEOREM LossSafety == Spec => []LossIsBounded
<1>1. Init => Typed /\ BooksAgree /\ LimitsHeld
  BY InitTyped, InitBooks, InitLimits
<1>2. (Typed /\ BooksAgree /\ LimitsHeld) /\ [Next]_vars
        => (Typed /\ BooksAgree /\ LimitsHeld)'
  BY StaysTyped, BooksKept, LimitsKept
<1>3. BooksAgree /\ LimitsHeld => LossIsBounded
  BY LimitsAreSums
<1> QED
  BY <1>1, <1>2, <1>3, PTL DEF Spec

(***************************************************************************)
(* One position per key, settled once.                                     *)
(***************************************************************************)

\* Every position has marked its key, and no two share one.
KeysMarked ==
  /\ \A j \in DOMAIN open : Key(open[j]) \in acted
  /\ \A j, k \in DOMAIN open : j # k => Key(open[j]) # Key(open[k])

LEMMA KeysKept ==
  ASSUME Typed, KeysMarked, [Next]_vars
  PROVE  KeysMarked'
<1>1. StepKinds /\ BookTypes
  BY TypedIsTypeOK, StepEffect, Zenon DEF Typed
<1>2. CASE open' = open /\ acted' = acted
  BY <1>2 DEF KeysMarked, Key
<1>3. ASSUME NEW d, Commits(d)
      PROVE  KeysMarked'
  <2>1. open' = Append(open, d) /\ acted' = acted \cup {Key(d)} /\ Key(d) \notin acted
    BY <1>1, <1>3, Committed, Zenon DEF Commits
  <2>2. open \in Seq(Position)
    BY <1>1 DEF BookTypes
  <2>3. /\ DOMAIN open' = DOMAIN open \cup {Len(open) + 1} /\ open'[Len(open) + 1] = d
        /\ \A j \in DOMAIN open : open'[j] = open[j]
    BY <2>1, <2>2
  <2>4. \A j \in DOMAIN open' : Key(open'[j]) =
          IF j \in DOMAIN open THEN Key(open[j]) ELSE Key(d)
    <3>1. Len(open) + 1 \notin DOMAIN open
      BY <2>2
    <3> QED
      BY <2>3, <3>1, Zenon
  <2>5. \A j, k \in DOMAIN open' : j \notin DOMAIN open /\ k \notin DOMAIN open => j = k
    BY <2>3
  <2>6. \A j \in DOMAIN open' : Key(open'[j]) \in acted'
    BY <2>1, <2>4 DEF KeysMarked
  <2>7. \A j, k \in DOMAIN open' : j # k => Key(open'[j]) # Key(open'[k])
    BY <2>1, <2>4, <2>5 DEF KeysMarked
  <2> QED
    BY <2>6, <2>7, Zenon DEF KeysMarked, Key
<1> QED
  BY <1>1, <1>2, <1>3 DEF StepKinds, odds_vars

\* The pipeline takes a market or, on the cross-market path, a fixture once.
THEOREM KeySafety == Spec => []OnePositionPerKey
<1>1. Init => Typed /\ KeysMarked
  BY InitTyped DEF Init, KeysMarked
<1>2. (Typed /\ KeysMarked) /\ [Next]_vars => (Typed /\ KeysMarked)'
  BY StaysTyped, KeysKept
<1>3. KeysMarked => OnePositionPerKey
  BY DEF KeysMarked, OnePositionPerKey, Key
<1> QED
  BY <1>1, <1>2, <1>3, PTL DEF Spec

\* A settlement, once made, is never changed or withdrawn.
THEOREM SettlementSafety == Spec => SettlementsLocked
<1>1. Init => Typed
  BY InitTyped
<1>2. Typed /\ [Next]_vars => Typed'
  BY StaysTyped
<1>3. Typed /\ [Next]_vars =>
        [\A p \in DOMAIN settlements :
           p \in DOMAIN settlements' /\ settlements'[p] = settlements[p]]_settlements
  <2> SUFFICES ASSUME Typed, [Next]_vars
               PROVE  \A p \in DOMAIN settlements :
                        p \in DOMAIN settlements' /\ settlements'[p] = settlements[p]
    OBVIOUS
  <2>1. StepKinds /\ BookTypes
    BY TypedIsTypeOK, StepEffect, Zenon DEF Typed
  <2>2. CASE settlements' = settlements
    BY <2>2
  <2>3. ASSUME open' = open, NEW p \in Due, Settles(p)
        PROVE  \A q \in DOMAIN settlements :
                 q \in DOMAIN settlements' /\ settlements'[q] = settlements[q]
    BY <2>1, <2>3, Settled
  <2> QED
    BY <2>1, <2>2, <2>3 DEF StepKinds
<1> QED
  BY <1>1, <1>2, <1>3, PTL DEF Spec, SettlementsLocked

(***************************************************************************)
(* The tracked score.                                                      *)
(***************************************************************************)

\* The order in which scores of a fixture are preferred.
Beats(e, j) ==
  IF isFinalGameState(j) <=> isFinalGameState(e)
  THEN Frames[j].seq < Frames[e].seq ELSE isFinalGameState(e)

LEMMA FinalIsBoolean == \A i : isFinalGameState(i) \in BOOLEAN
BY DEF isFinalGameState

LEMMA BeatsTransitive ==
  ASSUME NEW i, NEW e, NEW j, Frames[i].seq \in Nat, Frames[e].seq \in Nat,
         Frames[j].seq \in Nat, Beats(i, e), Beats(e, j)
  PROVE  Beats(i, j)
<1>1. CASE isFinalGameState(i)
  BY <1>1 DEF Beats
<1>2. CASE ~isFinalGameState(i)
  BY <1>2 DEF Beats
<1> QED
  BY <1>1, <1>2

\* shouldReplaceScore picks the one of two scores that beats the other.
LEMMA ReplacedByBetter ==
  ASSUME NEW i, NEW e, Frames[i].seq \in Nat, Frames[e].seq \in Nat,
         Frames[i].seq # Frames[e].seq
  PROVE  IF shouldReplaceScore(e, i) THEN Beats(i, e) ELSE Beats(e, i)
<1> DEFINE a == isFinalGameState(i)
           b == isFinalGameState(e)
<1>1. a \in BOOLEAN /\ b \in BOOLEAN
  BY FinalIsBoolean
<1>2. shouldReplaceScore(e, i) <=> IF b # a THEN a ELSE Frames[i].seq > Frames[e].seq
  BY DEF shouldReplaceScore
<1>3. /\ Beats(i, e) <=> IF b <=> a THEN Frames[e].seq < Frames[i].seq ELSE a
      /\ Beats(e, i) <=> IF a <=> b THEN Frames[i].seq < Frames[e].seq ELSE b
  BY DEF Beats
<1> HIDE DEF a, b
<1>4. CASE a /\ b
  BY <1>1, <1>2, <1>3, <1>4
<1>5. CASE a /\ ~b
  BY <1>1, <1>2, <1>3, <1>5
<1>6. CASE ~a /\ b
  BY <1>1, <1>2, <1>3, <1>6
<1>7. CASE ~a /\ ~b
  BY <1>1, <1>2, <1>3, <1>7
<1> QED
  BY <1>4, <1>5, <1>6, <1>7

BestOf(S, e) ==
  IF S = {} THEN e = 0 ELSE e \in S /\ \A i \in S \ {e} : Beats(e, i)

LEMMA BestIsTracked == (\A f \in Fixtures : BestOf(ScoresOf(f), scores[f])) <=> TrackedScoreIsBest
BY FinalIsBoolean DEF BestOf, TrackedScoreIsBest, Beats

BestTracked == \A f \in Fixtures : BestOf(ScoresOf(f), scores[f])

LEMMA TrackedKept ==
  ASSUME Typed, BestTracked, [Next]_vars
  PROVE  BestTracked'
<1>1. ASSUME UNCHANGED scores, \A f \in Fixtures : ScoresOf(f)' = ScoresOf(f)
      PROVE  BestTracked'
  BY <1>1, Zenon DEF BestTracked
<1>2. ASSUME NEW i \in DOMAIN Frames, Deliver(i), ~HandleScore(i)
      PROVE  BestTracked'
  <2>1. scores' = scores /\ delivered' = delivered \cup {i} /\ Frames[i].kind # "score"
    BY <1>2 DEF Deliver, HandleOdds, HandleFixture, score_vars
  <2>2. \A f : ScoresOf(f)' = ScoresOf(f)
    BY <2>1 DEF ScoresOf
  <2> QED
    BY <1>1, <2>1, <2>2
<1>3. ASSUME NEW i \in DOMAIN Frames, Deliver(i), HandleScore(i), NEW f \in Fixtures
      PROVE  BestOf(ScoresOf(f)', scores'[f])
  <2> DEFINE e == scores[f]
             S == ScoresOf(f)
             taken == /\ HasGoals(Frames[i])
                      /\ scores[Frames[i].fixture] # 0 =>
                           shouldReplaceScore(scores[Frames[i].fixture], i)
  <2>1. /\ Frames[i].kind = "score" /\ Frames[i].fixture \in Fixtures /\ i # 0
        /\ i \notin delivered /\ delivered' = delivered \cup {i}
        /\ scores' = IF taken THEN [scores EXCEPT ![Frames[i].fixture] = i] ELSE scores
        /\ scores \in [Fixtures -> {0} \cup delivered] /\ delivered \subseteq DOMAIN Frames
    BY <1>3, FrameTypes, Zenon
       DEF Deliver, HandleScore, handleScore, Typed, ScoreTypes, ClockTypes
  <2>2. BestOf(S, e)
    BY Zenon DEF BestTracked
  <2>3. \A j \in S \cup {i} : Frames[j].seq \in Nat
    BY <2>1, FrameTypes DEF ScoresOf, ScoreFrame
  <2>4. CASE f # Frames[i].fixture \/ ~HasGoals(Frames[i])
    <3>1. ScoresOf(f)' = S
      BY <2>1, <2>4 DEF ScoresOf
    <3>2. scores'[f] = e
      BY <2>1, <2>4
    <3> QED
      BY <2>2, <3>1, <3>2, Zenon
  <2>5. CASE f = Frames[i].fixture /\ HasGoals(Frames[i])
    <3>1. ScoresOf(f)' = S \cup {i} /\ i \notin S
      BY <2>1, <2>5 DEF ScoresOf
    <3>2. scores'[f] = IF e = 0 \/ shouldReplaceScore(e, i) THEN i ELSE e
      <4>1. taken <=> e = 0 \/ shouldReplaceScore(e, i)
        BY <2>5, Zenon
      <4> HIDE DEF taken
      <4> QED
        BY <2>1, <2>5, <4>1
    <3>3. CASE e = 0
      <4>1. S = {}
        BY <2>1, <2>2, <3>3, FrameTypes DEF BestOf, ScoresOf
      <4> QED
        BY <3>1, <3>2, <3>3, <4>1 DEF BestOf
    <3>4. CASE e # 0
      <4>1. e \in S /\ \A j \in S \ {e} : Beats(e, j)
        BY <2>2, <3>4 DEF BestOf
      <4>2. Frames[i].seq # Frames[e].seq
        <5>1. /\ e \in DOMAIN Frames /\ Frames[e].kind = "score" /\ Frames[e].fixture = f
              /\ e # i
          BY <2>1, <3>1, <4>1 DEF ScoresOf
        <5> QED
          BY <2>1, <2>5, <5>1, PipelineAssumption, Zenon
      <4>3. Frames[e].seq \in Nat /\ Frames[i].seq \in Nat
        BY <2>3, <4>1
      <4> HIDE DEF e, S
      <4>4. CASE shouldReplaceScore(e, i)
        <5>1. Beats(i, e)
          BY <4>2, <4>3, <4>4, ReplacedByBetter, Zenon
        <5>2. \A j \in S \ {e} : Beats(i, j)
          BY <2>3, <4>1, <4>3, <5>1, BeatsTransitive
        <5> QED
          BY <3>1, <3>2, <4>1, <4>4, <5>1, <5>2 DEF BestOf
      <4>5. CASE ~shouldReplaceScore(e, i)
        <5>1. Beats(e, i)
          BY <4>2, <4>3, <4>5, ReplacedByBetter, Zenon
        <5> QED
          BY <3>1, <3>2, <3>4, <4>1, <4>5, <5>1 DEF BestOf
      <4> QED
        BY <4>4, <4>5
    <3> QED
      BY <3>3, <3>4
  <2> QED
    BY <2>4, <2>5
<1>4. ASSUME SettleNext \/ SettleEnd \/ FeedEnds \/ Tick \/ UNCHANGED vars
      PROVE  BestTracked'
  <2>1. scores' = scores /\ delivered' = delivered
    BY <1>4 DEF SettleNext, SettleEnd, FeedEnds, Tick, vars, score_vars
  <2>2. \A f : ScoresOf(f)' = ScoresOf(f)
    BY <2>1 DEF ScoresOf
  <2> QED
    BY <1>1, <2>1, <2>2
<1>5. ASSUME NEW i \in DOMAIN Frames, Deliver(i), HandleScore(i)
      PROVE  BestTracked'
  BY <1>3, <1>5, Zenon DEF BestTracked
<1> QED
  BY <1>2, <1>4, <1>5, Zenon DEF Next

LEMMA InitTracked == Init => BestTracked
<1> SUFFICES ASSUME Init PROVE BestTracked
  OBVIOUS
<1>1. \A f \in Fixtures : ScoresOf(f) = {} /\ scores[f] = 0
  BY DEF Init, ScoresOf
<1> QED
  BY <1>1 DEF BestTracked, BestOf

\* In whatever order scores arrive, the one tracked is the best of those handled.
THEOREM TrackingSafety == Spec => []TrackedScoreIsBest
<1>1. Init => Typed /\ BestTracked
  BY InitTyped, InitTracked
<1>2. (Typed /\ BestTracked) /\ [Next]_vars => (Typed /\ BestTracked)'
  BY StaysTyped, TrackedKept
<1>3. BestTracked => TrackedScoreIsBest
  BY BestIsTracked DEF BestTracked
<1> QED
  BY <1>1, <1>2, <1>3, PTL DEF Spec

(***************************************************************************)
(* What a settlement rests on.                                             *)
(***************************************************************************)

LEMMA ScoresOnlyGrow ==
  ASSUME Typed, [Next]_vars
  PROVE  \A f : ScoresOf(f) \subseteq ScoresOf(f)'
<1>1. delivered \subseteq delivered'
  BY Zenon DEF Next, Deliver, SettleNext, SettleEnd, FeedEnds, Tick, vars
<1> QED
  BY <1>1 DEF ScoresOf

\* A settlement pays on a final frame of the position's fixture.
FinalBehind(p) ==
  \E i \in ScoresOf(open[p + 1].fixture) :
    isFinalGameState(i) /\ PaysOn(settlements[p], open[p + 1], i)

LEMMA SettledOnFinalKept ==
  ASSUME Typed, BestTracked, SettledOnFinal, [Next]_vars
  PROVE  SettledOnFinal'
<1>1. StepKinds /\ BookTypes
  BY TypedIsTypeOK, StepEffect, Zenon DEF Typed
<1>2. \A f : ScoresOf(f) \subseteq ScoresOf(f)'
  BY ScoresOnlyGrow
<1>3. \A p \in DOMAIN settlements : FinalBehind(p) /\ p \in Indices
  BY <1>1 DEF SettledOnFinal, FinalBehind, BookTypes
<1>4. ASSUME NEW p \in DOMAIN settlements, open'[p + 1] = open[p + 1],
             settlements'[p] = settlements[p]
      PROVE  FinalBehind(p)'
  <2>1. PICK i \in ScoresOf(open[p + 1].fixture) :
          isFinalGameState(i) /\ PaysOn(settlements[p], open[p + 1], i)
    BY <1>3, Zenon DEF FinalBehind
  <2>2. i \in ScoresOf(open[p + 1].fixture)'
    BY <1>2, <1>4, <2>1, Zenon DEF ScoresOf
  <2> QED
    BY <1>4, <2>1, <2>2, Zenon DEF FinalBehind, PaysOn
<1>5. CASE UNCHANGED <<open, settlements>>
  <2>1. \A p \in DOMAIN settlements' : FinalBehind(p)'
    BY <1>4, <1>5
  <2> QED
    BY <2>1 DEF SettledOnFinal, FinalBehind
<1>6. ASSUME settlements' = settlements, NEW d, Commits(d)
      PROVE  SettledOnFinal'
  <2>1. \A p \in Indices : open'[p + 1] = open[p + 1]
    BY <1>1, <1>6, Committed, Zenon
  <2>2. \A p \in DOMAIN settlements' : FinalBehind(p)'
    BY <1>3, <1>4, <1>6, <2>1
  <2> QED
    BY <2>2 DEF SettledOnFinal, FinalBehind
<1>7. ASSUME open' = open, NEW p \in Due, Settles(p)
      PROVE  SettledOnFinal'
  <2> DEFINE f == open[p + 1].fixture
  <2>1. /\ DOMAIN settlements' = DOMAIN settlements \cup {p}
        /\ \A q \in DOMAIN settlements : settlements'[q] = settlements[q]
        /\ PaysOn(settlements'[p], open[p + 1], scores[f])
        /\ open[p + 1] \in Position
    BY <1>1, <1>7, Settled, Zenon
  <2>2. Final(f) /\ f \in Fixtures
    BY <2>1, PositionFields, Zenon DEF Due
  <2>3. isFinalGameState(scores[f]) /\ scores[f] # 0
    BY <2>2 DEF Final, isFinalGameState
  <2>4. scores[f] \in ScoresOf(f)
    BY <2>2, <2>3 DEF BestTracked, BestOf
  <2>5. FinalBehind(p)'
    <3>1. scores[f] \in ScoresOf(open[p + 1].fixture)'
      BY <1>2, <1>7, <2>4, Zenon DEF ScoresOf
    <3> QED
      BY <1>7, <2>1, <2>3, <3>1, Zenon DEF FinalBehind, PaysOn
  <2>6. \A q \in DOMAIN settlements' : FinalBehind(q)'
    BY <1>4, <1>7, <2>1, <2>5
  <2> QED
    BY <2>6 DEF SettledOnFinal, FinalBehind
<1> QED
  BY <1>1, <1>5, <1>6, <1>7 DEF StepKinds

\* Nothing is settled but on a final frame of its fixture: a settlement has that
\* frame's seq, the one the on-chain proof is fetched for, and pays what the
\* frame's goals make of the position.
THEOREM FinalSafety == Spec => []SettledOnFinal
<1>1. Init => Typed /\ BestTracked /\ SettledOnFinal
  BY InitTyped, InitTracked DEF Init, SettledOnFinal
<1>2. (Typed /\ BestTracked /\ SettledOnFinal) /\ [Next]_vars
        => (Typed /\ BestTracked /\ SettledOnFinal)'
  BY StaysTyped, TrackedKept, SettledOnFinalKept
<1> QED
  BY <1>1, <1>2, PTL DEF Spec

(***************************************************************************)
(* Between two events nothing is left to settle.                           *)
(***************************************************************************)

\* A final whistle handled lies in the past, but for the skew, and a kickoff
\* kept is one that a score of the fixture announced.
TimesKept ==
  /\ \A i \in delivered : Frames[i].ts <= now + MaxSkew
  /\ \A f \in Fixtures : fixtureStartMs[f] # Null =>
       \E j \in DOMAIN Frames : /\ Frames[j].kind = "score" /\ Frames[j].fixture = f
                                /\ Frames[j].startTime = fixtureStartMs[f]

\* A position left on a final fixture is one the running loop still covers.
FinalsCovered ==
  \A p \in Unsettled :
    Final(open[p + 1].fixture) => /\ pc \in {"settle", "sweep"}
                                  /\ open[p + 1].fixture \in settling

LEMMA TimesStayKept ==
  ASSUME Typed, TimesKept, [Next]_vars
  PROVE  TimesKept'
<1>1. now \in Nat /\ MaxSkew \in Nat /\ delivered \subseteq DOMAIN Frames
      /\ fixtureStartMs \in [Fixtures -> Nat \cup {Null}]
  BY PipelineAssumption DEF Typed, ClockTypes, ScoreTypes
<1>2. \A i \in DOMAIN Frames : Frames[i].ts \in Nat /\ Frames[i].fixture \in Fixtures
  BY FrameTypes
<1>3. ASSUME NEW i \in DOMAIN Frames, Deliver(i)
      PROVE  TimesKept'
  <2>1. /\ now' = now /\ delivered' = delivered \cup {i} /\ Frames[i].ts <= now + MaxSkew
    BY <1>3 DEF Deliver
  <2>2. \/ fixtureStartMs' = fixtureStartMs
        \/ /\ Frames[i].kind = "score"
           /\ fixtureStartMs' = [fixtureStartMs EXCEPT ![Frames[i].fixture] = Frames[i].startTime]
    <3>1. CASE HandleScore(i)
      BY <3>1, Zenon DEF HandleScore, handleScore
    <3>2. CASE HandleOdds(i) \/ HandleFixture(i)
      BY <3>2 DEF HandleOdds, HandleFixture, score_vars
    <3> QED
      BY <1>3, <3>1, <3>2 DEF Deliver
  <2>3. ASSUME NEW f \in Fixtures, fixtureStartMs'[f] # Null
        PROVE  \E j \in DOMAIN Frames : /\ Frames[j].kind = "score" /\ Frames[j].fixture = f
                                        /\ Frames[j].startTime = fixtureStartMs'[f]
    <3>1. CASE fixtureStartMs'[f] = fixtureStartMs[f]
      BY <2>3, <3>1, ZenonT(60) DEF TimesKept
    <3>2. CASE fixtureStartMs'[f] # fixtureStartMs[f]
      <4>1. /\ Frames[i].kind = "score" /\ Frames[i].fixture = f
            /\ Frames[i].startTime = fixtureStartMs'[f]
        BY <1>1, <1>2, <2>2, <3>2
      <4> QED
        BY <4>1
    <3> QED
      BY <3>1, <3>2
  <2>4. \A j \in delivered' : Frames[j].ts <= now' + MaxSkew
    BY <2>1 DEF TimesKept
  <2> QED
    BY <2>3, <2>4, Zenon DEF TimesKept
<1>4. ASSUME now' = now \/ now' = now + 1, UNCHANGED <<delivered, fixtureStartMs>>
      PROVE  TimesKept'
  <2>1. \A i \in delivered' : Frames[i].ts <= now' + MaxSkew
    BY <1>1, <1>2, <1>4 DEF TimesKept
  <2> QED
    BY <1>4, <2>1 DEF TimesKept
<1>5. ASSUME SettleNext \/ SettleEnd \/ FeedEnds \/ Tick \/ UNCHANGED vars
      PROVE  TimesKept'
  <2>1. (now' = now \/ now' = now + 1) /\ delivered' = delivered
        /\ fixtureStartMs' = fixtureStartMs
    BY <1>5 DEF SettleNext, SettleEnd, FeedEnds, Tick, vars, score_vars
  <2> QED
    BY <1>4, <2>1
<1> QED
  BY <1>3, <1>5, Zenon DEF Next

\* The kickoff gate: no decision is taken on a fixture that has ended.
LEMMA GateBeforeFinal ==
  ASSUME Typed, BestTracked, TimesKept, FinalsFollowKickoff, CrossMarket,
         Config.minLeadMs > 0, NEW d, Commits(d)
  PROVE  ~Final(d.fixture)
<1> SUFFICES ASSUME Final(d.fixture) PROVE FALSE
  OBVIOUS
<1> DEFINE f == d.fixture
           i == scores[f]
<1>1. /\ f \in Fixtures /\ fixtureStartMs[f] # Null
      /\ fixtureStartMs[f] - now >= Config.minLeadMs
  BY Committed DEF Typed, Commits, AheadOfKickoff
<1>2. now \in Nat /\ fixtureStartMs[f] \in Nat /\ MaxSkew \in Nat /\ Config.minLeadMs \in Nat
  BY <1>1, PipelineAssumption, ConfigTypes DEF Typed, ClockTypes, ScoreTypes
<1>3. isFinalGameState(i) /\ i # 0
  BY DEF Final, isFinalGameState
<1>4. i \in ScoresOf(f)
  BY <1>1, <1>3 DEF BestTracked, BestOf
<1>5. /\ i \in delivered /\ i \in DOMAIN Frames
      /\ Frames[i].kind = "score" /\ Frames[i].fixture = f
  BY <1>4 DEF ScoresOf, Typed, ClockTypes
<1>6. PICK j \in DOMAIN Frames : /\ Frames[j].kind = "score" /\ Frames[j].fixture = f
                                 /\ Frames[j].startTime = fixtureStartMs[f]
  BY <1>1, Zenon DEF TimesKept
<1>7. Frames[i].ts >= fixtureStartMs[f] + MaxSkew
  BY <1>1, <1>3, <1>5, <1>6, Zenon DEF FinalsFollowKickoff
<1>8. Frames[i].ts <= now + MaxSkew /\ Frames[i].ts \in Nat
  BY <1>5, FrameTypes DEF TimesKept
<1> HIDE DEF i, f
<1> QED
  BY <1>1, <1>2, <1>7, <1>8

LEMMA CoverKept ==
  ASSUME Typed, BestTracked, TimesKept, FinalsCovered, FinalsFollowKickoff, CrossMarket,
         Config.minLeadMs > 0, [Next]_vars
  PROVE  FinalsCovered'
<1>1. StepKinds /\ BookTypes
  BY TypedIsTypeOK, StepEffect, Zenon DEF Typed
<1>2. ASSUME UNCHANGED <<open, settlements, scores>>, pc \in {"feed", "done"}
      PROVE  FinalsCovered'
  <2>1. Unsettled' = Unsettled
    BY <1>2 DEF Unsettled, Indices
  <2>2. \A p \in Unsettled : ~Final(open[p + 1].fixture)
    BY <1>2 DEF FinalsCovered
  <2> QED
    BY <1>2, <2>1, <2>2 DEF FinalsCovered, Final
<1>3. ASSUME UNCHANGED <<settlements, scores, pc>>, pc = "feed", NEW d, Commits(d)
      PROVE  FinalsCovered'
  <2>1. /\ Indices' = Indices \cup {Len(open)} /\ open'[Len(open) + 1] = d
        /\ \A p \in Indices : open'[p + 1] = open[p + 1]
    BY <1>1, <1>3, Committed
  <2>2. ~Final(d.fixture)
    BY <1>3, GateBeforeFinal
  <2>3. \A p \in Unsettled : ~Final(open[p + 1].fixture)
    BY <1>3 DEF FinalsCovered
  <2>4. \A p \in Unsettled' : ~Final(open'[p + 1].fixture)
    BY <1>3, <2>1, <2>2, <2>3 DEF Unsettled
  <2> QED
    BY <1>3, <2>4 DEF FinalsCovered, Final
<1>4. ASSUME NEW i \in DOMAIN Frames, Deliver(i), HandleOdds(i)
      PROVE  FinalsCovered'
  <2>1. scores' = scores /\ pc = "feed" /\ pc' = pc /\ settlements' = settlements
    BY <1>4 DEF Deliver, HandleOdds, score_vars
  <2>2. open' = open \/ \E d : Commits(d)
    BY <1>4, OddsEffect, TypedIsTypeOK
  <2> QED
    BY <1>2, <1>3, <2>1, <2>2
<1>5. ASSUME NEW i \in DOMAIN Frames, Deliver(i), HandleFixture(i)
      PROVE  FinalsCovered'
  <2>1. UNCHANGED <<open, settlements, scores>> /\ pc = "feed"
    BY <1>5 DEF Deliver, HandleFixture
  <2> QED
    BY <1>2, <2>1
<1>6. ASSUME NEW i \in DOMAIN Frames, Deliver(i), HandleScore(i)
      PROVE  FinalsCovered'
  <2> DEFINE f == Frames[i].fixture
  <2>1. pc = "feed" /\ open' = open /\ settlements' = settlements /\ f \in Fixtures
    BY <1>6, FrameTypes DEF Deliver, HandleScore
  <2>2. Unsettled' = Unsettled
    BY <2>1 DEF Unsettled, Indices
  <2>3. \A p \in Unsettled : ~Final(open[p + 1].fixture)
    BY <2>1 DEF FinalsCovered
  <2>4. /\ scores \in [Fixtures -> {0} \cup delivered]
        /\ \/ scores' = scores
           \/ /\ scores' = [scores EXCEPT ![f] = i]
              /\ scores[f] # 0 => shouldReplaceScore(scores[f], i)
    BY <1>6, Zenon DEF HandleScore, handleScore, Typed, ScoreTypes
  <2>5. CASE isFinalGameState(i) /\ isFinalGameState(scores'[f])
    <3>1. pc' = "settle" /\ settling' = {f}
      BY <1>6, <2>5, Zenon DEF HandleScore
    <3>2. ASSUME NEW p \in Unsettled, Final(open[p + 1].fixture)'
          PROVE  open[p + 1].fixture = f
      <4>1. p \in Indices /\ open[p + 1] \in Position
        BY OpenTypes, TypedIsTypeOK DEF Unsettled
      <4>2. open[p + 1].fixture \in Fixtures
        BY <4>1, PositionFields
      <4>3. ~Final(open[p + 1].fixture) /\ isFinalGameState(scores'[open[p + 1].fixture])
        BY <2>1, <2>3, <3>2 DEF Final
      <4>4. scores'[open[p + 1].fixture] # scores[open[p + 1].fixture]
        BY <4>3 DEF Final
      <4> QED
        BY <2>1, <2>4, <4>2, <4>4
    <3>3. \A p \in Unsettled' : Final(open[p + 1].fixture)' =>
            pc' \in {"settle", "sweep"} /\ open[p + 1].fixture \in settling'
      BY <2>2, <3>1, <3>2
    <3> QED
      BY <2>1, <3>3 DEF FinalsCovered, Final
  <2>6. CASE ~(isFinalGameState(i) /\ isFinalGameState(scores'[f]))
    <3>1. ASSUME NEW p \in Unsettled
          PROVE  ~isFinalGameState(scores'[open[p + 1].fixture])
      <4>1. p \in Indices /\ open[p + 1] \in Position
        BY OpenTypes, TypedIsTypeOK DEF Unsettled
      <4> DEFINE g == open[p + 1].fixture
      <4>2. g \in Fixtures /\ ~isFinalGameState(scores[g])
        BY <2>3, <4>1, PositionFields DEF Final
      <4> HIDE DEF g
      <4>3. CASE scores'[g] = scores[g]
        BY <4>2, <4>3, Zenon DEF g
      <4>4. CASE scores'[g] # scores[g]
        <5>1. g = f /\ scores'[f] = i
          BY <2>1, <2>4, <4>2, <4>4
        <5> QED
          BY <2>6, <5>1, Zenon DEF g
      <4> QED
        BY <4>3, <4>4
    <3> QED
      BY <2>1, <2>2, <3>1 DEF FinalsCovered, Final
  <2> QED
    BY <2>5, <2>6
<1>7. ASSUME SettleNext
      PROVE  FinalsCovered'
  <2>1. /\ open' = open /\ scores' = scores /\ pc' = pc /\ settling' = settling
        /\ \E p \in Due : Settles(p)
    BY <1>7, SettleEffect, TypedIsTypeOK DEF SettleNext, score_vars
  <2>2. Unsettled' \subseteq Unsettled
    BY <1>1, <2>1, Settled
  <2> QED
    BY <2>1, <2>2 DEF FinalsCovered, Final
<1>8. ASSUME SettleEnd
      PROVE  FinalsCovered'
  <2>1. UNCHANGED <<open, settlements, scores>> /\ Due = {}
    BY <1>8 DEF SettleEnd, score_vars
  <2>2. \A p \in Unsettled : ~Final(open[p + 1].fixture)
    BY <2>1 DEF FinalsCovered, Due
  <2>3. Unsettled' = Unsettled
    BY <2>1 DEF Unsettled, Indices
  <2> QED
    BY <2>1, <2>2, <2>3 DEF FinalsCovered, Final
<1>9. ASSUME FeedEnds \/ Tick
      PROVE  FinalsCovered'
  <2>1. UNCHANGED <<open, settlements, scores>> /\ pc = "feed"
    BY <1>9 DEF FeedEnds, Tick, score_vars
  <2> QED
    BY <1>2, <2>1
<1>10. CASE UNCHANGED vars
  BY <1>10 DEF vars, score_vars, FinalsCovered, Final, Unsettled, Indices
<1> QED
  BY <1>4, <1>5, <1>6, <1>7, <1>8, <1>9, <1>10, Zenon DEF Next, Deliver

\* On the cross-market path, with a lead to the kickoff and no final whistle
\* within the skew of it, no position is left open on a fixture whose final is
\* tracked, except while the loop that settles it runs.
THEOREM IdleSafety ==
  ASSUME CrossMarket, Config.minLeadMs > 0, FinalsFollowKickoff
  PROVE  Spec => []SettledWhenIdle
<1> DEFINE Good == Typed /\ BestTracked /\ TimesKept /\ FinalsCovered
<1>1. Init => Good
  <2> SUFFICES ASSUME Init PROVE Good
    OBVIOUS
  <2>1. TimesKept /\ Unsettled = {}
    BY DEF Init, TimesKept, Unsettled, Indices
  <2> QED
    BY <2>1, InitTyped, InitTracked DEF FinalsCovered
<1>2. Good /\ [Next]_vars => Good'
  BY StaysTyped, TrackedKept, TimesStayKept, CoverKept
<1>3. Good => SettledWhenIdle
  BY DEF FinalsCovered, SettledWhenIdle
<1> QED
  BY <1>1, <1>2, <1>3, PTL DEF Spec
=============================================================================
