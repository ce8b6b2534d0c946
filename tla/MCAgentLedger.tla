--------------------------- MODULE MCAgentLedger ---------------------------
(***************************************************************************)
(* Instances of AgentLedger for TLC.                                       *)
(*                                                                         *)
(* One match, f1, is 1-0 at half time (in running) and ends 1-2; the other *)
(* ends 0-0.  A second program posts a different result for f1.            *)
(***************************************************************************)
EXTENDS AgentLedger, TLC

Stat(full1, full2, half1, half2) ==
  (<<1, 0>> :> full1) @@ (<<2, 0>> :> full2) @@
  (<<1, 1>> :> half1) @@ (<<2, 1>> :> half2)

Score(fixture, ts, final, stat) ==
  [fixture_id |-> fixture, ts |-> ts, final |-> final, stat |-> stat]

Snapshot(fixture, ts, type, names, prices) ==
  [fixture_id |-> fixture, ts |-> ts, super_odds_type |-> type,
   price_names |-> names, prices |-> prices]

Reveal(s, index, fixture, market, side, odds, stake, nonce) ==
  [strategy |-> s, index |-> index, fixture_id |-> fixture, market |-> market,
   side |-> side, entry_odds_milli |-> odds, stake |-> stake, nonce |-> nonce]


----------------------------------------------------------------------------
\* Common to every instance.
MCScoreFeed ==
  "oracle" :> << Score("f1", 1, FALSE, Stat(1, 0, 1, 0)),
                 Score("f2", 1, TRUE,  Stat(0, 0, 0, 0)),
                 Score("f1", 3, TRUE,  Stat(1, 2, 1, 0)) >> @@
  "other"  :> << Score("f1", 3, TRUE,  Stat(3, 0, 2, 0)) >>

OneSnapshot ==
  "oracle" :> << Snapshot("f1", 1, SUPER_ODDS_TYPE_1X2,
                          <<"1", "x", "2">>, <<2500, 3000, 4000>>),
                 Snapshot("f1", 1, "OVERUNDER",
                          <<"1", "2">>, <<4000, 2500>>) >> @@
  "other"  :> <<>>

EarlyScores ==
  "oracle" :> << Score("f1", 1, TRUE,  Stat(1, 2, 1, 0)) >> @@
  "other"  :> << Score("f1", 1, TRUE,  Stat(3, 0, 2, 0)) >>

NoOdds == [p \in Programs |-> <<>>]

S1 == <<"alice", 1>>
S2 == <<"bob", 1>>

\* Settlement: one strategy, every kind of seal.  A home and an away backing of
\* f1, a stake whose winnings overflow, and a side that is no 1X2 side.
SettlementReveals ==
  { Reveal(S1, 0, "f1", 0, SIDE_HOME, 2500, 2, 1),
    Reveal(S1, 1, "f1", 0, SIDE_AWAY, 4000, 3, 2),
    Reveal(S1, 0, "f2", 0, SIDE_DRAW, 3000, 6, 3),
    Reveal(S1, 0, "f1", 0, 3, 2500, 1, 4) }

\* Seals: two owners, whose seals differ in the owner and the side;
\* a seal can be committed under either market.
SealReveals ==
  { Reveal(S1, 0, "f1", 0, SIDE_HOME, 2500, 2, 1),
    Reveal(S1, 0, "f1", 0, SIDE_AWAY, 2500, 2, 1),
    Reveal(S2, 0, "f1", 0, SIDE_HOME, 2500, 2, 1) }
=============================================================================
