--------------------------- MODULE MCOnChainSink ---------------------------
(***************************************************************************)
(* Instances of OnChainSink for TLC.  f1 is 1-0 in running and ends 1-2.   *)
(***************************************************************************)
EXTENDS OnChainSink, TLC

Goals(home, away) ==
  (<<1, 0>> :> home) @@ (<<2, 0>> :> away) @@ (<<1, 1>> :> 0) @@ (<<2, 1>> :> 0)

Score(fixture, ts, final, stat) ==
  [fixture_id |-> fixture, ts |-> ts, final |-> final, stat |-> stat]

Quote(fixture, ts, prices) ==
  [fixture_id |-> fixture, ts |-> ts, super_odds_type |-> SUPER_ODDS_TYPE_1X2,
   price_names |-> <<"1", "x", "2">>, prices |-> prices]

Back(fixture, side, odds) ==
  [fixture_id |-> fixture, side |-> side, entry_odds_milli |-> odds, stake |-> 2]

TwoDecisions == << Back("f1", SIDE_AWAY, 2500), Back("f1", SIDE_HOME, 3000) >>

Scores ==
  "oracle" :> << Score("f1", 0, FALSE, Goals(1, 0)), Score("f1", 0, TRUE, Goals(1, 2)) >>
Quotes == "oracle" :> << Quote("f1", 0, <<2000, 3000, 2500>>) >>

\* The second holder of the wallet seals nonce 0.
Stranger == buildRevealFromDecision(Back("f1", SIDE_DRAW, 3000), 0, 0)
Seals ==
  {Stranger} \cup
  {buildRevealFromDecision(Decisions[p], i, n) :
     p \in DOMAIN Decisions, i \in 0..MaxDecisions - 1, n \in 1..MaxNonce}
=============================================================================
