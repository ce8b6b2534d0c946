------------------------------- MODULE MCWire -------------------------------
(* Wire with bytes of two bits, hashes of two bytes and days of four units: one *)
(* input of every kind, and each with one field at or over a boundary.          *)
EXTENDS Wire

Around(kind) == {Lowest(kind) - 1, Lowest(kind), -1, 0, MaxSafe, MaxSafe + 1,
                 Lowest(kind) + Capacity[Width[kind]] - 1, Lowest(kind) + Capacity[Width[kind]]}
Legal(kind) == {n \in Around(kind) : InRange(n, kind)}
Hash(a) == [i \in 1..HashLen |-> a]
Hashes == {Hash(2), <<>>, <<1>>, <<0, B>>}
Node(h) == [hash |-> h, isRightSibling |-> TRUE]
Proofs == {None, Some(<<>>), Some(<<Node(Hash(1)), Node(Hash(3))>>), Some(<<Node(<<1>>)>>)}

Vary(base, kinds, values(_)) ==
  {base} \cup UNION {{[base EXCEPT ![f] = x] : x \in values(kinds[f])} : f \in DOMAIN kinds}
Values(kind) ==
  CASE kind \in IntegerKinds -> Around(kind)
    [] kind = "side" -> {-1, 0, 2, 3}
    [] kind = "bytes" -> Hashes
    [] kind = "proof" -> Proofs
    [] kind = "str" -> {<<>>, <<0>>, <<1, 1, 1, 1>>}
    [] kind = "optionStr" -> {None, Some(<<>>), Some(<<1, 2>>)}
    [] kind = "bool" -> BOOLEAN
    [] kind = "strs" -> {None, Some(<<<<>>, <<1>>>>)}
    [] kind = "i32s" -> {None} \cup {Some(<<1, x>>) : x \in Around("i32")}
    [] kind = "second" -> {"statToProve2", "statProof2"}
\* A Uint8Array has bytes only, if not always 32 of them; an account has 32.
InArrays(kind) == IF kind = "bytes" THEN {Hash(2), <<>>, <<1>>} ELSE Values(kind)
Inside(kind) == CASE kind \in IntegerKinds -> Legal(kind)
                  [] kind = "bytes" -> {Hash(0), Hash(B - 1)}
                  [] kind = "bool" -> BOOLEAN
Kinds(layout) == [f \in Fields(layout) |-> (CHOOSE p \in Range(layout) : p[1] = f)[2]]

MCStrategies == Vary([strategyId |-> 7, txlineProgram |-> Hash(1), startingBankroll |-> 50],
                     Kinds(InitializeWrites), InArrays)
MCReveals ==
  Vary([strategy |-> Hash(1), index |-> 5, fixtureId |-> 9, market |-> 3, side |-> 1,
        fairProbBps |-> 7, entryOddsMilli |-> 33, stake |-> 77, signalHash |-> Hash(0),
        nonce |-> Hash(3)], [Kinds(RevealWrites) EXCEPT !.side = "side"], InArrays)
MCScores ==
  LET base == [claimedResult |-> 1, ts |-> 13, summaryFixtureId |-> 9, updateCount |-> 2,
               minTimestamp |-> 11, maxTimestamp |-> 14, subTreeRoot |-> Hash(1),
               subTreeProof |-> Some(<<Node(Hash(2))>>), mainTreeProof |-> None,
               homeKey |-> 1, homeValue |-> 2, homePeriod |-> 0, homeProof |-> None,
               awayKey |-> 2, awayValue |-> 1, awayPeriod |-> 0,
               awayProof |-> Some(<<Node(Hash(0))>>), eventStatRoot |-> Hash(3),
               second |-> "both"]
  IN  Vary(base, [f \in DOMAIN base |->
                    CASE f = "eventStatRoot" -> "bytes"
                      [] f = "second" -> "second"
                      [] f = "claimedResult" -> "side"
                      [] OTHER -> Kinds(SettleWrites)[f]], Values)
MCQuotes ==
  LET base == [ts |-> 13, oddsFixtureId |-> 9, messageId |-> <<1>>, bookmaker |-> <<>>,
               bookmakerId |-> 3, superOddsType |-> <<2, 2>>, gameState |-> None,
               inRunning |-> FALSE, marketParameters |-> Some(<<3>>), marketPeriod |-> None,
               priceNames |-> Some(<<<<1>>, <<2>>, <<3>>>>), prices |-> Some(<<5, 6, 7>>),
               summaryFixtureId |-> 9, updateCount |-> 2, minTimestamp |-> 11,
               maxTimestamp |-> 14, subTreeRoot |-> Hash(1), subTreeProof |-> None,
               mainTreeProof |-> Some(<<Node(Hash(2))>>), sideIndex |-> 1]
  IN  Vary(base, [f \in DOMAIN base |-> Kinds(ProveOddsWrites)[f]], Values)
MCReasons == Around("u8")
MCLedgers ==
  Vary([authority |-> Hash(1), strategyId |-> 1, txlineProgram |-> Hash(2),
        startingBankroll |-> 50, bankroll |-> 60, realizedPnl |-> -10, decisionsCount |-> 4,
        openCount |-> 1, settledCount |-> 2, wins |-> 1, losses |-> 1, pushes |-> 1,
        commitLogRoot |-> Hash(3), bump |-> 2], Kinds(Strategy), Inside)
MCCommits ==
  Vary([strategy |-> Hash(1), index |-> 3, commitHash |-> Hash(2), fixtureId |-> 9,
        market |-> 3, commitSlot |-> 20, commitUnixTs |-> 21, status |-> 1, outcomeSide |-> 2,
        pnl |-> -5, settleSlot |-> 30, entryOddsProven |-> TRUE, bump |-> 1],
       Kinds(DecisionCommit), Inside)
=============================================================================
