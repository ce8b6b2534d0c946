----------------------------- MODULE MCPipeline -----------------------------
(***************************************************************************)
(* Instances of Pipeline for TLC.                                          *)
(***************************************************************************)
EXTENDS Pipeline, TLC

\* Four books: the consensus, the consensus after a move to the home side, an
\* underround one (its own odds beat its fair prices) and one that cannot be
\* de-vigged.
BookOf(home, draw, away) ==
  [fair |-> "home" :> home @@ "draw" :> draw @@ "away" :> away,
   offered |-> "home" :> 1000 \div home @@ "draw" :> 1000 \div draw
               @@ "away" :> 1000 \div away]
Calm  == BookOf(50, 30, 20)
Moved == BookOf(60, 25, 15)
Generous == [fair |-> Calm.fair, offered |-> "home" :> 25 @@ "draw" :> 40 @@ "away" :> 60]
NoBook == [fair |-> <<>>, offered |-> <<>>]

Odds(fixture, market, ts, book) ==
  [kind |-> "odds", fixture |-> fixture, market |-> market, marketKind |-> "1x2",
   period |-> "full-game", line |-> Null, inRunning |-> FALSE, ts |-> ts, book |-> book]

OverUnder(fixture, market, ts, line) ==
  [Odds(fixture, market, ts, NoBook) EXCEPT !.marketKind = "over-under", !.line = line]

Score(fixture, seq, ts, state, start, home, away) ==
  [kind |-> "score", fixture |-> fixture, seq |-> seq, ts |-> ts, gameState |-> state,
   startTime |-> start, homeGoals |-> home, awayGoals |-> away]

Teams(fixture) == [kind |-> "fixture", fixture |-> fixture, ts |-> 0]

BaseConfig ==
  [steamHistoryLimit |-> 2, steamWindow |-> 3, minProbMove |-> 5,
   steamMinEdge |-> -1000, divergenceMinEdge |-> 200, minProb |-> 5,
   maxProb |-> 95, startingBankroll |-> 100, steamBaseFraction |-> 5,
   steamStrengthScale |-> 1, steamMaxFraction |-> 20, kellyFraction |-> 25,
   maxFractionOfBankroll |-> 20, bankrollFloor |-> 0, maxStakePerOrder |-> 14,
   maxConcurrent |-> 2, totalExposureCap |-> 14, perFixtureExposureCap |-> 13,
   perMarketExposureCap |-> 12, staleFeedMs |-> 1, maxDailyDrawdown |-> 3,
   minLeadMs |-> 1, maxLeadMs |-> 3, minRefitMs |-> 1]
----------------------------------------------------------------------------
\* Steam: one market of f1 moves, one of f1 and one of f2 are underround; f1 gets
\* an in-running score, a final and a corrected final; f2 a final without goals.
SteamFrames ==
  << Odds("f1", "m1", 0, Calm), Odds("f1", "m1", 1, Moved), Odds("f1", "m1", 2, Calm),
     Odds("f1", "n1", 1, Generous), Odds("f2", "m2", 1, Generous),
     Score("f1", 3, 1, "H2", Null, 1, 0),
     Score("f1", 2, 2, "F", Null, 1, 2), Score("f1", 4, 2, "F", Null, 2, 1),
     Score("f2", 5, 2, "F", Null, Null, Null) >>

\* Cross-market: f1 and f2 are joined surfaces with kickoffs at 2.
CrossFrames ==
  << Odds("f1", "m1", 0, Calm), OverUnder("f1", "o1", 1, 2), OverUnder("f1", "o1", 1, 3),
     Odds("f2", "m2", 0, Calm),
     OverUnder("f2", "o2", 1, 2),
     Score("f1", 1, 0, "NS", 2, Null, Null), Score("f1", 2, 3, "F", 2, 1, 0),
     Score("f1", 3, 3, "F", 2, 0, 1),
     Score("f2", 1, 0, "NS", 2, Null, Null), Score("f2", 2, 3, "FET", 2, 1, 1),
     Teams("f1") >>

Fits == {[outcome |-> "home", fair |-> 65], [outcome |-> "away", fair |-> 30]}

\* The hypotheses of the theorem on SettledWhenIdle hold of the cross-market feed.
ASSUME CrossFeedHasKickoffs ==
  CrossMarket => Config.minLeadMs > 0 /\ FinalsFollowKickoff
=============================================================================
