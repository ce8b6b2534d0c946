--------------------------------- MODULE Wire ---------------------------------
(* The bytes between the TypeScript client (packages/onchain-client) and the    *)
(* agent_ledger program: instruction data and account lists on the way in,      *)
(* account state on the way out.                                                *)
(*                                                                              *)
(* Both sides describe every structure by hand: the client as a sequence of     *)
(* range checks and a sequence of writes, the program as a Rust struct.  Both   *)
(* are kept here as the sequences they are, of pairs <<field, kind>>, and       *)
(* nothing in the module makes them agree.  A field has one name for the two.   *)
(*                                                                              *)
(* A byte is a digit below B, an array of 32 bytes has HashLen of them, and an   *)
(* integer of w bytes is written modulo B^w, as the DataView setters do.  The     *)
(* program is B = 256, HashLen = 32 and 2, 4, 8 bytes.  A discriminator is one    *)
(* tag, keccak256 an injection.                                                  *)
EXTENDS Integers, Sequences, SequencesExt

CONSTANTS B,            \* how many values a byte has
          Bytes16, Bytes32, Bytes64,   \* bytes of the wider integers
          HashLen, MaxSafe, DayMs,
          StrategyId,   \* the ledger the port was configured with
          Strategies,   \* the arguments initialize_strategy is called with
          Reveals,      \* the decisions that are sealed
          Scores,       \* stat-validation responses, with the result claimed on them
          Quotes,       \* odds-validation responses, with the side index
          Reasons,      \* void reasons
          Ledgers, Commits   \* what Strategy and DecisionCommit accounts hold

ASSUME WidthAssumption ==
  /\ B \in Nat /\ B > 2 /\ HashLen \in Nat
  /\ Bytes16 \in 1..Bytes32 /\ Bytes32 \in 1..Bytes64 /\ Bytes64 \in Nat

VARIABLES sealed,   \* the decision on the chain: its strategy, reveal and commit_hash
          call,     \* the client's call under way and what it built or read
          landed    \* what the program made of it

vars == <<sealed, call, landed>>

None == <<>>
Some(x) == <<x>>
Error(field) == [ok |-> FALSE, field |-> field]
Ok(x) == [ok |-> TRUE, value |-> x]

(* ------------------------------- Borsh --------------------------------------- *)
Width == [u8 |-> 1, u16 |-> Bytes16, u32 |-> Bytes32, i32 |-> Bytes32,
          u64 |-> Bytes64, i64 |-> Bytes64]
IntegerKinds == DOMAIN Width

\* How many values so many bytes have.
Capacity ==
  LET capacity[w \in 0..Bytes64] == IF w = 0 THEN 1 ELSE B * capacity[w - 1] IN capacity

Lowest(kind) == IF kind \in {"i32", "i64"} THEN -(Capacity[Width[kind]] \div 2) ELSE 0
Beyond(kind) == Lowest(kind) + Capacity[Width[kind]]
InRange(n, kind) == Lowest(kind) <= n /\ n < Beyond(kind)

\* The kind of a vector's elements: proof nodes, strings, prices.
Element == [proof |-> "node", strs |-> "str", i32s |-> "i32"]
VectorKinds == DOMAIN Element

\* \div rounds down, so that a negative number comes out in two's complement.
LeBytes(n, kind) == [i \in 1..Width[kind] |-> (n \div Capacity[i - 1]) % B]
BoolBytes(v) == <<IF v THEN 1 ELSE 0>>
StrBytes(v) == LeBytes(Len(v), "u32") \o v

WriteItem(v, kind) ==
  CASE kind \in IntegerKinds -> LeBytes(v, kind)
    [] kind = "bytes" -> v
    [] kind = "bool" -> BoolBytes(v)
    [] kind = "str" -> StrBytes(v)
    [] kind = "optionStr" -> IF v = None THEN <<0>> ELSE <<1>> \o StrBytes(v[1])
    [] kind = "node" -> v.hash \o BoolBytes(v.isRightSibling)
Write(v, kind) ==
  IF kind \notin VectorKinds THEN WriteItem(v, kind)
  ELSE LeBytes(Len(v), "u32") \o FlattenSeq([i \in DOMAIN v |-> WriteItem(v[i], Element[kind])])

finish(args, layout) ==
  FlattenSeq([i \in DOMAIN layout |-> Write(args[layout[i][1]], layout[i][2])])

\* A value is read after a position.  It ends at another, or Failed where
\* deserialization fails.
Failed == -1
Within(data, end) == IF end <= Len(data) THEN end ELSE Failed

Integer(data, at, kind) ==
  LET value[i \in 0..Width[kind]] ==
        IF i = 0 THEN 0 ELSE value[i - 1] + Capacity[i - 1] * data[at + i]
      n == value[Width[kind]]
  IN  IF n >= Beyond(kind) THEN n - Capacity[Width[kind]] ELSE n
BoolEnd(data, at) == IF at < Len(data) /\ data[at + 1] \in {0, 1} THEN at + 1 ELSE Failed
StrEnd(data, at) ==
  IF at + Bytes32 > Len(data) THEN Failed
  ELSE Within(data, at + Bytes32 + Integer(data, at, "u32"))
Str(data, at) == SubSeq(data, at + Bytes32 + 1, StrEnd(data, at))

ItemEnd(data, at, kind) ==
  CASE kind \in IntegerKinds -> Within(data, at + Width[kind])
    [] kind = "bytes" -> Within(data, at + HashLen)
    [] kind = "bool" -> BoolEnd(data, at)
    [] kind = "str" -> StrEnd(data, at)
    [] kind = "optionStr" -> IF BoolEnd(data, at) # Failed /\ data[at + 1] = 1
                             THEN StrEnd(data, at + 1) ELSE BoolEnd(data, at)
    [] kind = "node" -> IF at + HashLen > Len(data) THEN Failed ELSE BoolEnd(data, at + HashLen)
Item(data, at, kind) ==
  CASE kind \in IntegerKinds -> Integer(data, at, kind)
    [] kind = "bytes" -> SubSeq(data, at + 1, at + HashLen)
    [] kind = "bool" -> data[at + 1] = 1
    [] kind = "str" -> Str(data, at)
    [] kind = "optionStr" -> IF data[at + 1] = 1 THEN Some(Str(data, at + 1)) ELSE None
    [] kind = "node" -> [hash |-> SubSeq(data, at + 1, at + HashLen),
                         isRightSibling |-> data[at + HashLen + 1] = 1]

\* Where the elements of a vector end, each begun where the one before it ends.
ElementEnds(data, at, kind) ==
  LET end[i \in 0..Integer(data, at, "u32")] ==
        IF i = 0 THEN at + Bytes32
        ELSE LET before == end[i - 1]
             IN  IF before = Failed THEN Failed ELSE ItemEnd(data, before, Element[kind])
  IN  end
FieldEnd(data, at, kind) ==
  IF kind \notin VectorKinds THEN ItemEnd(data, at, kind)
  ELSE IF at + Bytes32 > Len(data) THEN Failed
  ELSE ElementEnds(data, at, kind)[Integer(data, at, "u32")]
Field(data, at, kind) ==
  IF kind \notin VectorKinds THEN Item(data, at, kind)
  ELSE LET ends == ElementEnds(data, at, kind)
       IN  [i \in 1..Integer(data, at, "u32") |-> Item(data, ends[i - 1], Element[kind])]

\* The fields of a struct, after the tag; and their values by name.
FieldEnds(data, struct) ==
  LET end[i \in 0..Len(struct)] ==
        IF i = 0 THEN 1
        ELSE LET before == end[i - 1]
             IN  IF before = Failed THEN Failed ELSE FieldEnd(data, before, struct[i][2])
  IN  end
Fields(struct) == {p[1] : p \in Range(struct)}
Named(data, struct) ==
  LET ends == FieldEnds(data, struct)
      Value(i) == Field(data, ends[i - 1], struct[i][2])
  IN  [f \in Fields(struct) |-> Value(CHOOSE i \in DOMAIN struct : struct[i][1] = f)]
Deserialize(data, struct) ==
  IF FieldEnds(data, struct)[Len(struct)] = Failed THEN None ELSE Some(Named(data, struct))

(* ---------------------------- The client's writes ----------------------------- *)
\* A check passes when the value keeps its meaning in the width it is written in;
\* strings, flags and options have none.
Passes(v, check) ==
  CASE check \in IntegerKinds -> InRange(v, check)
    [] check = "side" -> v \in {0, 1, 2}
    [] check = "bytes" -> Len(v) = HashLen
    [] check = "proof" -> \A i \in DOMAIN v : Len(v[i].hash) = HashLen
    [] check = "i32s" -> \A i \in DOMAIN v : InRange(v[i], "i32")
    [] OTHER -> TRUE

\* The checks run in order and the first that fails is the error.
Failing(args, checks) == {i \in DOMAIN checks : ~Passes(args[checks[i][1]], checks[i][2])}
Encode(args, checks, layout) ==
  IF Failing(args, checks) = {} THEN Ok(finish(args, layout))
  ELSE Error(checks[Min(Failing(args, checks))][1])

RevealWrites ==
  << <<"strategy", "bytes">>, <<"index", "u64">>, <<"fixtureId", "i64">>, <<"market", "u16">>,
     <<"side", "u8">>, <<"fairProbBps", "u16">>, <<"entryOddsMilli", "u32">>,
     <<"stake", "u64">>, <<"signalHash", "bytes">>, <<"nonce", "bytes">> >>
RevealChecks ==
  << <<"strategy", "bytes">>, <<"signalHash", "bytes">>, <<"nonce", "bytes">>,
     <<"index", "u64">>, <<"fixtureId", "i64">>, <<"market", "u16">>, <<"side", "side">>,
     <<"fairProbBps", "u16">>, <<"entryOddsMilli", "u32">>, <<"stake", "u64">> >>
encodeRevealArgs(reveal) == Encode(reveal, RevealChecks, RevealWrites)

SettleChecks ==
  << <<"claimedResult", "side">>, <<"ts", "i64">>, <<"summaryFixtureId", "i64">>,
     <<"updateCount", "i32">>, <<"minTimestamp", "i64">>, <<"maxTimestamp", "i64">>,
     <<"subTreeRoot", "bytes">>, <<"subTreeProof", "proof">>, <<"mainTreeProof", "proof">>,
     <<"homeKey", "u32">>, <<"homeValue", "i32">>, <<"homePeriod", "i32">>,
     <<"homeRoot", "bytes">>, <<"homeProof", "proof">>,
     <<"awayKey", "u32">>, <<"awayValue", "i32">>, <<"awayPeriod", "i32">>,
     <<"awayRoot", "bytes">>, <<"awayProof", "proof">> >>
SettleWrites ==
  << <<"claimedResult", "u8">>, <<"ts", "i64">>, <<"summaryFixtureId", "i64">>,
     <<"updateCount", "i32">>, <<"minTimestamp", "i64">>, <<"maxTimestamp", "i64">>,
     <<"subTreeRoot", "bytes">>, <<"subTreeProof", "proof">>, <<"mainTreeProof", "proof">>,
     <<"homeKey", "u32">>, <<"homeValue", "i32">>, <<"homePeriod", "i32">>,
     <<"homeRoot", "bytes">>, <<"homeProof", "proof">>,
     <<"awayKey", "u32">>, <<"awayValue", "i32">>, <<"awayPeriod", "i32">>,
     <<"awayRoot", "bytes">>, <<"awayProof", "proof">> >>
encodeSettleArgs(args) == Encode(args, RevealChecks \o SettleChecks, RevealWrites \o SettleWrites)

ProveOddsChecks ==
  << <<"ts", "i64">>, <<"oddsFixtureId", "i64">>, <<"oddsTs", "i64">>,
     <<"bookmakerId", "i32">>, <<"prices", "i32s">>, <<"summaryFixtureId", "i64">>,
     <<"updateCount", "u32">>, <<"minTimestamp", "i64">>, <<"maxTimestamp", "i64">>,
     <<"subTreeRoot", "bytes">>, <<"subTreeProof", "proof">>, <<"mainTreeProof", "proof">>,
     <<"sideIndex", "u8">> >>
ProveOddsWrites ==
  << <<"ts", "i64">>, <<"oddsFixtureId", "i64">>, <<"messageId", "str">>, <<"oddsTs", "i64">>,
     <<"bookmaker", "str">>, <<"bookmakerId", "i32">>, <<"superOddsType", "str">>,
     <<"gameState", "optionStr">>, <<"inRunning", "bool">>,
     <<"marketParameters", "optionStr">>, <<"marketPeriod", "optionStr">>,
     <<"priceNames", "strs">>, <<"prices", "i32s">>,
     <<"summaryFixtureId", "i64">>, <<"updateCount", "u32">>,
     <<"minTimestamp", "i64">>, <<"maxTimestamp", "i64">>, <<"subTreeRoot", "bytes">>,
     <<"subTreeProof", "proof">>, <<"mainTreeProof", "proof">>, <<"sideIndex", "u8">> >>
\* Mutant: the range checks a reader could think the JSON parser already made.
UncheckedPrices(args) ==
  Encode(args, RevealChecks \o SelectSeq(ProveOddsChecks, LAMBDA c : c[1] # "prices"),
         RevealWrites \o ProveOddsWrites)
encodeProveOddsArgs(args) ==
  Encode(args, RevealChecks \o ProveOddsChecks, RevealWrites \o ProveOddsWrites)

(* --------------------- From TxLINE's responses to arguments -------------------- *)
\* JavaScript numbers that become a bigint are refused unless they are safe integers.
isSafeInteger(n) == -MaxSafe <= n /\ n <= MaxSafe
bytesFromByteArray(value) ==
  IF Len(value) = HashLen /\ \A i \in DOMAIN value : value[i] \in 0..(B - 1)
  THEN Some(value) ELSE None
\* A null branch is an empty one.  The nodes' hashes are byte arrays too.
convertProof(nodes) == IF nodes = None THEN <<>> ELSE nodes[1]
ProofIsBytes(nodes) ==
  \A i \in DOMAIN convertProof(nodes) : bytesFromByteArray(convertProof(nodes)[i].hash) # None

\* What is wrong with a response: the first of its integers, then of its hashes.
checkSafeIntegers(v, fields) == SelectInSeq(fields, LAMBDA f : ~isSafeInteger(v[f]))
checkHashes(v, fields) == SelectInSeq(fields, LAMBDA f : bytesFromByteArray(v[f]) = None)
checkProofs(v, fields) == SelectInSeq(fields, LAMBDA f : ~ProofIsBytes(v[f]))
Failure(v, integers, hashes, proofs) ==
  CASE checkSafeIntegers(v, integers) # 0 -> Some(integers[checkSafeIntegers(v, integers)])
    [] checkHashes(v, hashes) # 0 -> Some(hashes[checkHashes(v, hashes)])
    [] checkProofs(v, proofs) # 0 -> Some(proofs[checkProofs(v, proofs)])
    [] OTHER -> None

\* Both goal stats hang off one event root.
buildSettleArgs(v) ==
  LET bad == Failure(v,
               <<"ts", "summaryFixtureId", "updateCount", "minTimestamp", "maxTimestamp",
                 "homeKey", "homeValue", "homePeriod", "awayKey", "awayValue", "awayPeriod">>,
               <<"eventStatRoot", "subTreeRoot">>,
               <<"subTreeProof", "mainTreeProof", "homeProof", "awayProof">>)
  IN  CASE v.second # "both" -> Error(v.second)
        [] v.second = "both" /\ bad # None -> Error(bad[1])
        [] OTHER -> Ok([f \in Fields(SettleWrites) |->
             CASE f \in {"homeRoot", "awayRoot"} -> v.eventStatRoot
               [] f \in {"subTreeProof", "mainTreeProof", "homeProof", "awayProof"} ->
                    convertProof(v[f])
               [] OTHER -> v[f]])

\* The prices are one more list of integers to check; the snapshot's own time is ts.
buildProveOddsArgs(v) ==
  LET bad == Failure(v,
               <<"oddsFixtureId", "ts", "bookmakerId", "summaryFixtureId", "updateCount",
                 "minTimestamp", "maxTimestamp">>,
               <<>>, <<>>)
      badPrice == \E i \in DOMAIN convertProof(v.prices) : ~isSafeInteger(convertProof(v.prices)[i])
      badHash == Failure(v, <<>>, <<"subTreeRoot">>, <<"subTreeProof", "mainTreeProof">>)
  IN  CASE bad # None -> Error(bad[1])
        [] bad = None /\ badPrice -> Error("prices")
        [] bad = None /\ ~badPrice /\ badHash # None -> Error(badHash[1])
        [] OTHER -> Ok([f \in Fields(ProveOddsWrites) |->
             CASE f \in {"subTreeProof", "mainTreeProof", "priceNames", "prices"} ->
                    convertProof(v[f])
               [] f = "oddsTs" -> v.ts
               [] OTHER -> v[f]])

(* -------------------------- Addresses and instructions ------------------------- *)
Authority == <<"authority">>
Txline == <<"txline_program">>
System == <<"system_program">>
deriveStrategyPda(id) == <<"strategy", Authority, LeBytes(id, "u64")>>
\* Mutant: the commit's address under the authority, as the strategy's is.
UnderAuthority(strategy, index) == <<"commit", Authority, LeBytes(index, "u64")>>
deriveCommitPda(strategy, index) == <<"commit", strategy, LeBytes(index, "u64")>>
\* BigInt division drops the fraction towards zero.
DayOf(ts) == IF ts >= 0 THEN ts \div DayMs ELSE -((-ts) \div DayMs)
\* Mutant: the day's root seed in the byte order of a u16 read from the network.
BigEndianRoots(seed, ts) == <<seed, Reverse(LeBytes(DayOf(ts), "u16"))>>
deriveDailyRootsPda(seed, ts) == <<seed, LeBytes(DayOf(ts), "u16")>>

withDiscriminator(tag, body) == <<tag>> \o body
Instruction(tag, body, accounts) ==
  IF body.ok THEN Ok([data |-> withDiscriminator(tag, body.value), accounts |-> accounts])
  ELSE body

InitializeWrites ==
  << <<"strategyId", "u64">>, <<"txlineProgram", "bytes">>, <<"startingBankroll", "u64">> >>
InitializeChecks ==
  << <<"txlineProgram", "bytes">>, <<"strategyId", "u64">>, <<"startingBankroll", "u64">> >>
buildInitializeStrategyInstruction(in) ==
  Instruction("initialize_strategy", Encode(in, InitializeChecks, InitializeWrites),
    << <<Authority, "ws">>, <<deriveStrategyPda(in.strategyId), "w">>, <<System, "r">> >>)

CommitChecks == << <<"commitHash", "bytes">>, <<"fixtureId", "i64">>, <<"market", "u16">> >>
CommitWrites == << <<"commitHash", "bytes">>, <<"fixtureId", "i64">>, <<"market", "u16">> >>
buildCommitDecisionInstruction(in) ==
  Instruction("commit_decision", Encode(in, CommitChecks, CommitWrites),
    << <<Authority, "ws">>, <<in.strategy, "w">>, <<deriveCommitPda(in.strategy, in.index), "w">>,
       <<System, "r">> >>)

buildSettleDecisionInstruction(strategy, index, args) ==
  Instruction("settle_decision", encodeSettleArgs(args),
    << <<Authority, "rs">>, <<strategy, "w">>, <<deriveCommitPda(strategy, index), "w">>,
       <<Txline, "r">>, <<deriveDailyRootsPda("daily_scores_roots", args.ts), "r">> >>)

buildProveEntryOddsInstruction(strategy, index, args) ==
  Instruction("prove_entry_odds", encodeProveOddsArgs(args),
    << <<Authority, "rs">>, <<strategy, "r">>, <<deriveCommitPda(strategy, index), "w">>,
       <<Txline, "r">>, <<deriveDailyRootsPda("daily_batch_roots", args.ts), "r">> >>)

VoidWrites == << <<"reason", "u8">> >>
encodeVoidDecisionData(in) == Encode(in, RevealChecks \o VoidWrites, RevealWrites \o VoidWrites)

\* The reveal is the first of the arguments that settle, prove and void take.
WithReveal(args, reveal) ==
  [f \in DOMAIN args \cup DOMAIN reveal |-> IF f \in DOMAIN args THEN args[f] ELSE reveal[f]]

Keccak(bytes) == [i \in 1..HashLen |-> bytes]
computeCommitHash(reveal) ==
  LET encoded == encodeRevealArgs(reveal)
  IN  IF encoded.ok THEN Ok(Keccak(encoded.value)) ELSE encoded

(* ------------------------------ The program's side ------------------------------ *)
RevealArgs ==
  << <<"strategy", "bytes">>, <<"index", "u64">>, <<"fixtureId", "i64">>, <<"market", "u16">>,
     <<"side", "u8">>, <<"fairProbBps", "u16">>, <<"entryOddsMilli", "u32">>,
     <<"stake", "u64">>, <<"signalHash", "bytes">>, <<"nonce", "bytes">> >>
ScoresBatchSummary ==
  << <<"summaryFixtureId", "i64">>, <<"updateCount", "i32">>, <<"minTimestamp", "i64">>,
     <<"maxTimestamp", "i64">>, <<"subTreeRoot", "bytes">> >>
SettleArgs ==
  RevealArgs \o << <<"claimedResult", "u8">>, <<"ts", "i64">> >> \o ScoresBatchSummary \o
  << <<"subTreeProof", "proof">>, <<"mainTreeProof", "proof">>,
     <<"homeKey", "u32">>, <<"homeValue", "i32">>, <<"homePeriod", "i32">>,
     <<"homeRoot", "bytes">>, <<"homeProof", "proof">>,
     <<"awayKey", "u32">>, <<"awayValue", "i32">>, <<"awayPeriod", "i32">>,
     <<"awayRoot", "bytes">>, <<"awayProof", "proof">> >>
OddsBatchSummary ==
  << <<"summaryFixtureId", "i64">>, <<"updateCount", "u32">>, <<"minTimestamp", "i64">>,
     <<"maxTimestamp", "i64">>, <<"subTreeRoot", "bytes">> >>
Odds ==
  << <<"oddsFixtureId", "i64">>, <<"messageId", "str">>, <<"oddsTs", "i64">>,
     <<"bookmaker", "str">>, <<"bookmakerId", "i32">>, <<"superOddsType", "str">>,
     <<"gameState", "optionStr">>, <<"inRunning", "bool">>,
     <<"marketParameters", "optionStr">>, <<"marketPeriod", "optionStr">>,
     <<"priceNames", "strs">>, <<"prices", "i32s">> >>
ProveOddsArgs ==
  RevealArgs \o << <<"ts", "i64">> >> \o Odds \o OddsBatchSummary \o
  << <<"subTreeProof", "proof">>, <<"mainTreeProof", "proof">>, <<"sideIndex", "u8">> >>

\* The arguments of each handler, in the order of its signature.
Arguments ==
  [initialize_strategy |->
     << <<"strategyId", "u64">>, <<"txlineProgram", "bytes">>, <<"startingBankroll", "u64">> >>,
   commit_decision |-> << <<"commitHash", "bytes">>, <<"fixtureId", "i64">>, <<"market", "u16">> >>,
   settle_decision |-> SettleArgs,
   prove_entry_odds |-> ProveOddsArgs,
   void_decision |-> RevealArgs \o << <<"reason", "u8">> >>]

epoch_day_le(ts) ==
  IF ts < 0 \/ ~InRange(ts \div DayMs, "u16") THEN None ELSE Some(LeBytes(ts \div DayMs, "u16"))
\* The accounts of each context in order: must it sign, is it written.
Context(tag) ==
  CASE tag = "initialize_strategy" -> << <<TRUE, TRUE>>, <<FALSE, TRUE>>, <<FALSE, FALSE>> >>
    [] tag = "commit_decision" ->
         << <<TRUE, TRUE>>, <<FALSE, TRUE>>, <<FALSE, TRUE>>, <<FALSE, FALSE>> >>
    [] tag = "settle_decision" ->
         << <<TRUE, FALSE>>, <<FALSE, TRUE>>, <<FALSE, TRUE>>, <<FALSE, FALSE>>, <<FALSE, FALSE>> >>
    [] tag = "prove_entry_odds" ->
         << <<TRUE, FALSE>>, <<FALSE, FALSE>>, <<FALSE, TRUE>>, <<FALSE, FALSE>>, <<FALSE, FALSE>> >>
RolesFit(tag, accounts) ==
  LET context == Context(tag)
  IN  /\ Len(accounts) = Len(context)
      /\ \A i \in DOMAIN context :
           /\ context[i][1] => accounts[i][2] \in {"ws", "rs"}
           /\ context[i][2] => accounts[i][2] \in {"ws", "w"}

\* The seeds the program derives, from what it reads and what its accounts hold: a
\* commit is under the strategy account it is sent with, and after that under the
\* strategy and at the index that the decision account keeps.
SeedsFit(tag, accounts, args, strategy, index) ==
  CASE tag = "initialize_strategy" ->
         accounts[2][1] = <<"strategy", Authority, LeBytes(args.strategyId, "u64")>>
    [] tag = "commit_decision" ->
         /\ accounts[2][1] = <<"strategy", Authority, LeBytes(StrategyId, "u64")>>
         /\ accounts[3][1] = <<"commit", accounts[2][1], LeBytes(index, "u64")>>
    [] tag \in {"settle_decision", "prove_entry_odds"} ->
         /\ accounts[2][1] = strategy
         /\ accounts[3][1] = <<"commit", accounts[2][1], LeBytes(index, "u64")>>

\* What the program makes of an instruction: its arguments, or None.
Receive(data) == Deserialize(data, Arguments[data[1]])

(* -------------------------------- Reading accounts ------------------------------ *)
Strategy ==
  << <<"authority", "bytes">>, <<"strategyId", "u64">>, <<"txlineProgram", "bytes">>,
     <<"startingBankroll", "u64">>, <<"bankroll", "u64">>, <<"realizedPnl", "i64">>,
     <<"decisionsCount", "u64">>, <<"openCount", "u64">>, <<"settledCount", "u64">>,
     <<"wins", "u32">>, <<"losses", "u32">>, <<"pushes", "u32">>,
     <<"commitLogRoot", "bytes">>, <<"bump", "u8">> >>
DecisionCommit ==
  << <<"strategy", "bytes">>, <<"index", "u64">>, <<"commitHash", "bytes">>,
     <<"fixtureId", "i64">>, <<"market", "u16">>, <<"commitSlot", "u64">>,
     <<"commitUnixTs", "i64">>, <<"status", "u8">>, <<"outcomeSide", "u8">>,
     <<"pnl", "i64">>, <<"settleSlot", "u64">>, <<"entryOddsProven", "bool">>, <<"bump", "u8">> >>
Stored(name, account) ==
  withDiscriminator(name, finish(account, IF name = "Strategy" THEN Strategy ELSE DecisionCommit))

StrategyReads ==
  << <<"authority", "bytes">>, <<"strategyId", "u64">>, <<"txlineProgram", "bytes">>,
     <<"startingBankroll", "u64">>, <<"bankroll", "u64">>, <<"realizedPnl", "i64">>,
     <<"decisionsCount", "u64">>, <<"openCount", "u64">>, <<"settledCount", "u64">>,
     <<"wins", "u32">>, <<"losses", "u32">>, <<"pushes", "u32">>,
     <<"commitLogRoot", "bytes">>, <<"bump", "u8">> >>
DecisionReads ==
  << <<"strategy", "bytes">>, <<"index", "u64">>, <<"commitHash", "bytes">>,
     <<"fixtureId", "i64">>, <<"market", "u16">>, <<"commitSlot", "u64">>,
     <<"commitUnixTs", "i64">>, <<"status", "u8">>, <<"outcomeSide", "u8">>,
     <<"pnl", "i64">>, <<"settleSlot", "u64">>, <<"entryOddsProven", "u8">>, <<"bump", "u8">> >>
STRATEGY_BODY_SIZE == 3 * HashLen + 7 * Bytes64 + 3 * Bytes32 + 1
DECISION_COMMIT_BODY_SIZE == 2 * HashLen + 6 * Bytes64 + Bytes16 + 4

\* Mutant: only the size is checked.
CheckSizeAlone(data, name, bodySize) ==
  IF Len(data) < 1 + bodySize THEN Some("too-short") ELSE None
checkAccount(data, name, bodySize) ==
  CASE Len(data) < 1 + bodySize -> Some("too-short")
    [] Len(data) >= 1 + bodySize /\ data[1] # name -> Some("wrong-discriminator")
    [] OTHER -> None
Decoded(data, name, bodySize, reads) ==
  LET bad == checkAccount(data, name, bodySize)
  IN  IF bad # None THEN Error(bad[1])
      ELSE Ok(Some(Named(data, reads)))
decodeStrategyAccount(data) == Decoded(data, "Strategy", STRATEGY_BODY_SIZE, StrategyReads)
\* entryOddsProven is the byte 1.
decodeDecisionCommitAccount(data) ==
  LET d == Decoded(data, "DecisionCommit", DECISION_COMMIT_BODY_SIZE, DecisionReads)
  IN  IF ~d.ok THEN d ELSE Ok(Some([d.value[1] EXCEPT !.entryOddsProven = @ = 1]))

(* ------------------------------ What calls are given ---------------------------- *)
\* The types of the arguments, of the responses once the schemas have let them
\* through, and of the accounts.  No string or array is as long as a u32 can say.
IsSequence(v) == v \in Seq(Range(v))
IsText(v) == IsSequence(v) /\ Len(v) < Capacity[Bytes32]
IsItem(v, kind) ==
  CASE kind \in IntegerKinds -> v \in Int
    [] kind = "bytes" -> IsSequence(v)
    [] kind = "bool" -> v \in BOOLEAN
    [] kind = "str" -> IsText(v)
    [] kind = "optionStr" -> v = None \/ (v = Some(v[1]) /\ IsText(v[1]))
    [] kind = "node" -> /\ v = [hash |-> v.hash, isRightSibling |-> v.isRightSibling]
                        /\ IsSequence(v.hash) /\ v.isRightSibling \in BOOLEAN
IsOf(v, kind) ==
  IF kind \notin VectorKinds THEN IsItem(v, kind)
  ELSE IsText(v) /\ \A i \in DOMAIN v : IsItem(v[i], Element[kind])

IsRecordOf(r, struct) ==
  /\ r = [f \in Fields(struct) |-> r[f]]
  /\ \A p \in Range(struct) : IsOf(r[p[1]], p[2])
IsAccountOf(r, struct) ==
  IsRecordOf(r, struct) /\ \A p \in Range(struct) : Passes(r[p[1]], p[2])

\* A branch that a response leaves out is empty.
Listed == {"subTreeProof", "mainTreeProof", "homeProof", "awayProof", "priceNames", "prices"}
Plain(v, f) == IF f \in Listed THEN convertProof(v[f]) ELSE v[f]
\* A response has the fields of a structure but those the client computes.
IsResponseFor(v, struct, computed) ==
  /\ DOMAIN v \cap (Fields(RevealWrites) \cup computed) = {}
  /\ \A p \in Range(struct) : p[1] \notin computed => IsOf(Plain(v, p[1]), p[2])

ASSUME InputAssumption ==
  /\ \A in \in Strategies : IsRecordOf(in, InitializeWrites)
  /\ \A reveal \in Reveals : IsRecordOf(reveal, RevealWrites)
  /\ \A v \in Scores : /\ IsResponseFor(v, SettleWrites, {"homeRoot", "awayRoot"})
                       /\ IsSequence(v.eventStatRoot)
  /\ \A v \in Quotes : IsResponseFor(v, ProveOddsWrites, {"oddsTs"})
  /\ Reasons \subseteq Int
  /\ \A a \in Ledgers : IsAccountOf(a, Strategy)
  /\ \A a \in Commits : IsAccountOf(a, DecisionCommit)

(* ---------------------------------- The machine --------------------------------- *)
Idle == [op |-> "idle"]
Init == sealed = None /\ call = Idle /\ landed = None

\* The client's side of one operation: what it was asked to say and what it built.
Call(op, meant, built) ==
  /\ call = Idle
  /\ call' = [op |-> op, meant |-> meant, built |-> built]
  /\ UNCHANGED <<sealed, landed>>

StrategyAddress == deriveStrategyPda(StrategyId)

initializeStrategy == \E in \in Strategies :
  Call("initialize_strategy", in, buildInitializeStrategyInstruction(in))

\* The reveal names the index the decision account is created at; the port compares
\* it with decisions_count before it sends (OnChainSink has the races of that).
commit == \E reveal \in Reveals :
  LET hash == computeCommitHash(reveal)
  IN  /\ sealed = None
      /\ IF hash.ok
         THEN LET in == [commitHash |-> hash.value, fixtureId |-> reveal.fixtureId,
                         market |-> reveal.market, index |-> reveal.index,
                         strategy |-> StrategyAddress, reveal |-> reveal]
              IN  Call("commit_decision", in, buildCommitDecisionInstruction(in))
         ELSE Call("commit_decision", reveal, hash)

settle == \E v \in Scores :
  /\ sealed # None
  /\ LET args == buildSettleArgs(v)
         reveal == sealed[1].reveal
     IN  Call("settle_decision", v,
              IF args.ok THEN buildSettleDecisionInstruction(StrategyAddress, reveal.index,
                                                             WithReveal(args.value, reveal))
              ELSE args)

proveEntryOdds == \E v \in Quotes :
  /\ sealed # None
  /\ LET args == buildProveOddsArgs(v)
         reveal == sealed[1].reveal
     IN  Call("prove_entry_odds", v,
              IF args.ok THEN buildProveEntryOddsInstruction(StrategyAddress, reveal.index,
                                                             WithReveal(args.value, reveal))
              ELSE args)

\* The client encodes a void but builds no account list for it.
voidDecision == \E reason \in Reasons :
  /\ sealed # None
  /\ LET in == WithReveal([reason |-> reason], sealed[1].reveal)
     IN  Call("void_decision", in, Instruction("void_decision", encodeVoidDecisionData(in), <<>>))

\* The transaction reaches the program.
Land ==
  /\ call.op \in DOMAIN Arguments /\ call.built.ok /\ landed = None
  /\ landed' = Some(Receive(call.built.value.data))
  /\ sealed' = IF call.op = "commit_decision" /\ landed'[1] # None
               THEN Some([strategy |-> call.built.value.accounts[2][1],
                          reveal |-> call.meant.reveal, hash |-> landed'[1][1].commitHash])
               ELSE sealed
  /\ UNCHANGED call

\* getAccountInfo answers with the account at the address, whatever wrote it, or null.
Accounts == {<<>>} \cup {<<"Strategy", a>> : a \in Ledgers} \cup {<<"DecisionCommit", a>> : a \in Commits}
readStrategy == \E held \in Accounts :
  Call("readStrategy", held,
       IF held = <<>> THEN Ok(None) ELSE decodeStrategyAccount(Stored(held[1], held[2])))
readDecision == \E held \in Accounts :
  Call("readDecision", held,
       IF held = <<>> THEN Ok(None) ELSE decodeDecisionCommitAccount(Stored(held[1], held[2])))

Return ==
  /\ call # Idle
  /\ call.op \in DOMAIN Arguments /\ call.built.ok => landed # None
  /\ call' = Idle /\ landed' = None /\ UNCHANGED sealed

Next == \/ initializeStrategy \/ commit \/ settle \/ proveEntryOdds \/ voidDecision
        \/ Land \/ readStrategy \/ readDecision \/ Return

Spec == Init /\ [][Next]_vars

(* ---------------------------------- Properties ----------------------------------- *)
\* The values a call speaks of, by name.
Said(f) == Plain(call.meant, f)

\* Every instruction the client builds says to the program what it was asked to say:
\* the program can read it, every number, string, proof node and option it reads is
\* the one the response or the decision held (none has wrapped or moved to a
\* neighbouring field), its accounts are in the places and roles the context wants
\* and at the addresses its seeds give, and a reveal sent to settle, prove or void
\* hashes to the commit_hash the same reveal was sealed under.
Understood ==
  landed # None =>
    LET args == landed[1][1]
        tag == call.op
    IN  /\ landed[1] # None
        /\ \A f \in DOMAIN call.meant \cap DOMAIN args : args[f] = Said(f)
        /\ tag = "settle_decision" =>
             args.homeRoot = call.meant.eventStatRoot /\ args.awayRoot = call.meant.eventStatRoot
        /\ tag = "prove_entry_odds" => args.oddsTs = call.meant.ts
        /\ tag # "void_decision" =>
             /\ RolesFit(tag, call.built.value.accounts)
             /\ SeedsFit(tag, call.built.value.accounts, args,
                         sealed[1].strategy, sealed[1].reveal.index)
        /\ tag \in {"settle_decision", "prove_entry_odds", "void_decision"} =>
             Keccak(finish(args, RevealArgs)) = sealed[1].hash

\* When the program can name the day of a settlement or an entry price, the client
\* has passed the roots account of that very day, although the client wraps the day
\* into two bytes and the program refuses one that does not fit.
RootAgrees ==
  landed # None /\ landed[1] # None /\ call.op \in {"settle_decision", "prove_entry_odds"} =>
    LET day == epoch_day_le(landed[1][1].ts)
        seed == IF call.op = "settle_decision" THEN "daily_scores_roots" ELSE "daily_batch_roots"
    IN  day # None => call.built.value.accounts[5][1] = <<seed, day[1]>>

\* What the client reads is what the chain holds: the account it asked for field by
\* field, nothing where there is none, and an error for an account of the other type.
ReadsTellTheChain ==
  call.op \in {"readStrategy", "readDecision"} =>
    LET name == IF call.op = "readStrategy" THEN "Strategy" ELSE "DecisionCommit"
    IN  CASE call.meant = <<>> -> call.built = Ok(None)
          [] call.meant # <<>> /\ call.meant[1] = name -> call.built = Ok(Some(call.meant[2]))
          [] OTHER -> ~call.built.ok
=============================================================================
