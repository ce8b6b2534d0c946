---------------------------- MODULE WireMapping ----------------------------
(***************************************************************************)
(* packages/txline/src/map: from a record as the TxLINE API sends it to    *)
(* the event the feeds emit.  Prices are integers, percentages are in      *)
(* thousandths ("52.632" is 52632) or None for "NA", market parameters are *)
(* None, the line they spell, or a text that spells none, and a label is   *)
(* one of a few spellings.                                                 *)
(***************************************************************************)
EXTENDS Integers, Sequences

None == <<>>
Some(value) == <<value>>
Error(kind) == [ok |-> FALSE, kind |-> kind]
Ok(value) == [ok |-> TRUE, value |-> value]
----------------------------------------------------------------------------
\* label.trim().toLowerCase(), on the spellings used here.
Spelling == [Part1 |-> "part1", PART2 |-> "part2", X |-> "x", Over |-> "over"]
normalized(label) == IF label \in DOMAIN Spelling THEN Spelling[label] ELSE label

OUTCOME_BY_LABEL ==
  [part1 |-> "home", part2 |-> "away", x |-> "draw", home |-> "home", draw |-> "draw",
   away |-> "away", h |-> "home", d |-> "draw", a |-> "away"]

mapOutcomeLabel(label) ==
  IF normalized(label) \in DOMAIN OUTCOME_BY_LABEL THEN OUTCOME_BY_LABEL[normalized(label)]
  ELSE "other"

SUPER_ODDS_TYPE_1X2 == "1X2_PARTICIPANT_RESULT"
SUPER_ODDS_TYPE_OVER_UNDER == "OVERUNDER_PARTICIPANT_GOALS"
SUPER_ODDS_TYPE_ASIAN_HANDICAP == "ASIANHANDICAP_PARTICIPANT_GOALS"

classifyMarketKind(type) ==
  CASE type = SUPER_ODDS_TYPE_1X2 -> "1x2"
    [] type = SUPER_ODDS_TYPE_OVER_UNDER -> "over-under"
    [] type = SUPER_ODDS_TYPE_ASIAN_HANDICAP -> "asian-handicap"
    [] OTHER -> "other"

classifyMarketPeriod(period) ==
  CASE period \in {None, Some("")} -> "full-game"
    [] period = Some("half=1") -> "first-half"
    [] OTHER -> "other"

SpellsNoLine == <<"no", "line">>
parseMarketLine(parameters) == IF parameters = SpellsNoLine THEN None ELSE parameters

\* decimalOddsMilli: decimal odds exceed 1.000.
decimalOddsMilli(price) == IF price <= 1000 THEN Error("out-of-range") ELSE Ok(price)

\* pctStringToProb: a probability is at most 1.  The schema of the response
\* has refused whatever is neither "NA" nor a number.
pctStringToProb(pct) ==
  IF pct # None /\ pct[1] > 100000 THEN Error("out-of-range") ELSE Ok(pct)
----------------------------------------------------------------------------
\* The three parallel arrays of an odds record, by index; Pct may be shorter.
PctAt(raw, i) == IF i \in DOMAIN raw.Pct THEN pctStringToProb(raw.Pct[i]) ELSE Ok(None)

OddsLine(raw, i) ==
  [outcome |-> IF raw.SuperOddsType = SUPER_ODDS_TYPE_1X2 THEN mapOutcomeLabel(raw.PriceNames[i])
               ELSE "other",
   label |-> normalized(raw.PriceNames[i]),
   decimalOddsMilli |-> raw.Prices[i],
   impliedPct |-> PctAt(raw, i).value]

\* One bad price or percentage fails the whole update.
mapOddsPayload(raw) ==
  CASE Len(raw.PriceNames) # Len(raw.Prices) -> Error("odds-array-mismatch")
    [] Len(raw.PriceNames) = Len(raw.Prices)
         /\ \E i \in DOMAIN raw.Prices : ~decimalOddsMilli(raw.Prices[i]).ok \/ ~PctAt(raw, i).ok
         -> Error("invalid-line")
    [] OTHER ->
         Ok([fixtureId |-> raw.FixtureId, messageId |-> raw.MessageId, tsMs |-> raw.Ts,
             marketKey |-> <<raw.FixtureId, raw.SuperOddsType, raw.MarketPeriod, raw.MarketParameters>>,
             marketKind |-> classifyMarketKind(raw.SuperOddsType),
             line |-> parseMarketLine(raw.MarketParameters),
             period |-> classifyMarketPeriod(raw.MarketPeriod),
             lines |-> [i \in DOMAIN raw.Prices |-> OddsLine(raw, i)]])
----------------------------------------------------------------------------
\* The phase is the one of StatusId; the textual GameState stays "scheduled"
\* on the replay feed.
GAME_STATE_BY_STATUS_ID ==
  <<"NS", "H1", "HT", "H2", "F", "WET", "ET1", "HTET", "ET2", "FET", "WPE", "PE", "FPE",
    "I", "A", "C", "TXCC", "TXCS", "P">>

gameStateFromStatusId(id, fallback) ==
  IF id # None /\ id[1] \in DOMAIN GAME_STATE_BY_STATUS_ID THEN GAME_STATE_BY_STATUS_ID[id[1]]
  ELSE fallback

\* Stats is a function from stat keys; a key that is no decimal number is not
\* among them, and 1 and 2 are the full-game goals of participants 1 and 2.
GoalsOf(raw, key) == IF key \in DOMAIN raw.Stats THEN Some(raw.Stats[key]) ELSE None

mapScorePayload(raw) ==
  Ok([fixtureId |-> raw.FixtureId, seq |-> raw.Seq, tsMs |-> raw.Ts,
      gameState |-> gameStateFromStatusId(raw.StatusId, raw.GameState),
      participant1IsHome |-> raw.Participant1IsHome,
      startTimeMs |-> raw.StartTime,
      homeGoals |-> GoalsOf(raw, 1), awayGoals |-> GoalsOf(raw, 2)])
=============================================================================
