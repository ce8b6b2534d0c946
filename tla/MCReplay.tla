------------------------------ MODULE MCReplay ------------------------------
(***************************************************************************)
(* An instance of ReplayFeed, over TxlineClient, for TLC.                  *)
(***************************************************************************)
EXTENDS ReplayFeed

Odds(id, ts, type, names, prices, pct) ==
  [FixtureId |-> 7, MessageId |-> id, Ts |-> ts, SuperOddsType |-> type, MarketPeriod |-> None,
   MarketParameters |-> IF type = SUPER_ODDS_TYPE_1X2 THEN None ELSE Some(25),
   PriceNames |-> names, Prices |-> prices, Pct |-> pct]

Score(seq, ts, status, stats) ==
  [FixtureId |-> 7, Seq |-> seq, Ts |-> ts, StatusId |-> status, GameState |-> "scheduled",
   Participant1IsHome |-> FALSE, StartTime |-> Some(3), Stats |-> stats]

Match(id, ts) == Odds(id, ts, SUPER_ODDS_TYPE_1X2, <<"Part1", "draw", "PART2">>, <<2100, 3400, 3600>>,
                      <<Some(47619), None, Some(27778)>>)
Totals(id, ts) == Odds(id, ts, SUPER_ODDS_TYPE_OVER_UNDER, <<"Over", "under">>, <<1833, 2200>>, <<>>)
AtEvens(id, ts) == Odds(id, ts, SUPER_ODDS_TYPE_1X2, <<"Part1", "draw">>, <<1000, 3400>>, <<>>)
Uneven(id, ts) == Odds(id, ts, SUPER_ODDS_TYPE_1X2, <<"Part1">>, <<1833, 2200>>, <<>>)

\* Ties across and within channels, a record out of time order, a duplicate in
\* the next interval, one whose first copy cannot be mapped.
Window == [source |-> "recorded",
           odds |-> << <<Match("m1", 4), Totals("m2", 2), AtEvens("m3", 3)>>,
                       <<Match("m2", 2), Match("m3", 5), Match("m4", 4)>> >>,
           scores |-> << <<Score(1, 4, Some(2), <<0, 1>>)>>,
                         <<Score(1, 4, Some(2), <<0, 1>>), Score(2, 6, Some(5), <<1, 1>>)>> >>]
Fetchable == [source |-> "client",
              odds |-> << <<Match("m1", 4), Uneven("m2", 4), Match("m1", 5)>>,
                          <<Match("m1", 6), Match("m3", 1)>> >>,
              scores |-> << <<Score(1, 1, None, <<>>)>>, <<>> >>]
Both == {Window, Fetchable}

SentOn(channel) ==
  UNION {UNION {{window[channel][b][i] : i \in DOMAIN window[channel][b]} :
                b \in DOMAIN window[channel]} : window \in Both}
OddsSent == SentOn("odds")
ScoresSent == SentOn("scores")
=============================================================================
