----------------------------- MODULE MCLiveFeed -----------------------------
(***************************************************************************)
(* Instances of LiveFeed for TLC.                                          *)
(***************************************************************************)
EXTENDS LiveFeed

UpTo(odds, scores) == [c \in SseChannel |-> IF c = "odds" THEN odds ELSE scores]
One == UpTo(1, 1)
MoreOdds == UpTo(3, 2)

OddsFrameMalformed == {<<"odds", 1>>}
ScoreUnmappable == {<<"scores", 2>>}
Nothing == {}
=============================================================================
