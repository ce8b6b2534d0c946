----------------------------- MODULE SealedBets -----------------------------
(***************************************************************************)
(* What the ledger promises, whatever its accounts look like: a bet is     *)
(* sealed once, under the oracle its owner named; it then ends at most     *)
(* once, either void or settled with a result that oracle attested and the *)
(* payout its seal fixes for that result; the price it was struck at can   *)
(* be confirmed afterwards, and nothing else ever changes.                 *)
(***************************************************************************)
EXTENDS Integers

CONSTANTS
  BetIds,      (* names of bets                                            *)
  Oracles,
  Fixtures,
  Seals,       (* the hidden content of bets                               *)
  Results,
  NoResult,    (* the result of a bet that is not settled                  *)
  Payout       (* Payout[<<seal, result>>]: what a seal pays for a result      *)

VARIABLES
  bets,        (* the bets sealed so far, by name                          *)
  attested     (* <<oracle, fixture, result>> triples attested so far      *)

NewBet(oracle, fixture, seal) ==
  [oracle |-> oracle, fixture |-> fixture, seal |-> seal, state |-> "open",
   result |-> NoResult, paid |-> 0, priceConfirmed |-> FALSE]

SettledBet(bet, result) ==
  [bet EXCEPT !.state = "settled", !.result = result,
              !.paid = Payout[<<bet.seal, result>>]]

CancelledBet(bet) == [bet EXCEPT !.state = "void"]

ConfirmedBet(bet) == [bet EXCEPT !.priceConfirmed = TRUE]

Seal(id, oracle, fixture, seal) ==
  /\ id \notin DOMAIN bets
  /\ bets' = [b \in DOMAIN bets \cup {id} |->
                IF b = id THEN NewBet(oracle, fixture, seal) ELSE bets[b]]
  /\ UNCHANGED attested

Settle(id, result) ==
  /\ bets[id].state = "open"
  /\ <<bets[id].oracle, bets[id].fixture, result>> \in attested
  /\ bets' = [bets EXCEPT ![id] = SettledBet(bets[id], result)]
  /\ UNCHANGED attested

Cancel(id) ==
  /\ bets[id].state = "open"
  /\ bets' = [bets EXCEPT ![id] = CancelledBet(bets[id])]
  /\ UNCHANGED attested

ConfirmPrice(id) ==
  /\ bets[id].state = "settled"
  /\ ~bets[id].priceConfirmed
  /\ bets' = [bets EXCEPT ![id] = ConfirmedBet(bets[id])]
  /\ UNCHANGED attested

Attest ==
  /\ attested \subseteq attested'
  /\ UNCHANGED bets

Init ==
  /\ bets = [b \in {} |-> 0]
  /\ attested = {}

Next ==
  \/ \E id \in BetIds, oracle \in Oracles, fixture \in Fixtures, seal \in Seals :
       Seal(id, oracle, fixture, seal)
  \/ \E id \in DOMAIN bets, result \in Results : Settle(id, result)
  \/ \E id \in DOMAIN bets : Cancel(id) \/ ConfirmPrice(id)
  \/ Attest

Spec == Init /\ [][Next]_<<bets, attested>>
=============================================================================
