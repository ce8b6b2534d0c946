-------------------------- MODULE ReplayFeedProofs --------------------------
(***************************************************************************)
(* Proofs about the client, for any number of concurrent calls, any        *)
(* maxAttempts, any number of sessions and any expiry of tokens; and about *)
(* the replay that fetches through it: it emits the records of its window, *)
(* each once, in one order and under a clock that agrees with it, for any  *)
(* window, any failures of the fetches, any stop and any consumer.         *)
(***************************************************************************)
EXTENDS ReplayFeed, SumTheorems

(***************************************************************************)
(* THE CLIENT                                                              *)
(*                                                                         *)
(* The attempts.  The number of requests a call has sent is a function of  *)
(* the counters of its two frames: each frame has sent one request more    *)
(* than its counter says, and the request that goes out again after a      *)
(* session was granted raises neither counter.                             *)
(***************************************************************************)
SentSoFar(c) ==
  LET data == attempt[c]["data"]  session == attempt[c]["session"]
  IN  IF top[c] = "session" THEN data + 1 + session + 1
      ELSE IF reauthed[c] THEN data + 1 + session + 1 + 1
      ELSE data + 1

Fresh(c) ==
  /\ top[c] = "data" /\ ~reauthed[c] /\ sends[c] = 0
  /\ attempt[c]["data"] = 0

UnderWay(c) ==
  /\ sends[c] = SentSoFar(c)
  /\ top[c] = "session" => ~reauthed[c]
  /\ at[c] = "asleep" => attempt[c][top[c]] + 1 < maxAttempts
  /\ at[c] = "ended" /\ outcome[c] = "transient" => attempt[c][top[c]] + 1 >= maxAttempts

Counted(c) == IF at[c] = "idle" THEN Fresh(c) ELSE UnderWay(c)

BudgetInv == ClientTypeOK /\ \A c \in Callers : Counted(c)

\* The caller a step is about is the only one whose call it changes.
OthersKept(c) == \A d \in Callers \ {c} :
  /\ at'[d] = at[d] /\ top'[d] = top[d] /\ attempt'[d] = attempt[d]
  /\ reauthed'[d] = reauthed[d] /\ outcome'[d] = outcome[d] /\ sends'[d] = sends[d]

LEMMA BudgetInit == ClientInit => BudgetInv
  BY ClientAssumption
  DEF ClientInit, BudgetInv, ClientTypeOK, Counted, Fresh, Frames, Outcomes

LEMMA CountedKept ==
  ASSUME NEW c \in Callers, OthersKept(c), BudgetInv, Counted(c)'
  PROVE  \A d \in Callers : Counted(d)'
<1>1. ASSUME NEW d \in Callers \ {c} PROVE Counted(d)'
  BY <1>1 DEF OthersKept, BudgetInv, Counted, Fresh, UnderWay, SentSoFar
<1> QED
  BY <1>1

LEMMA BudgetCall ==
  ASSUME BudgetInv, NEW c \in Callers, Call(c)
  PROVE  BudgetInv'
<1>1. ClientTypeOK'
  BY DEF BudgetInv, ClientTypeOK, Call, Send, server_vars, Frames
<1>2. OthersKept(c)
  BY DEF BudgetInv, ClientTypeOK, Call, Send, OthersKept
<1>3. Counted(c)'
  BY DEF BudgetInv, ClientTypeOK, Call, Send, Counted, Fresh, UnderWay, SentSoFar
<1> QED
  BY <1>1, <1>2, <1>3, CountedKept DEF BudgetInv

LEMMA BudgetReturn ==
  ASSUME BudgetInv, NEW c \in Callers, Return(c)
  PROVE  BudgetInv'
<1>1. ClientTypeOK'
  BY ClientAssumption DEF BudgetInv, ClientTypeOK, Return, Forget, server_vars, Frames, Outcomes
<1>2. OthersKept(c)
  BY DEF BudgetInv, ClientTypeOK, Return, Forget, OthersKept
<1>3. Counted(c)'
  BY DEF BudgetInv, ClientTypeOK, Return, Forget, Counted, Fresh, Frames
<1> QED
  BY <1>1, <1>2, <1>3, CountedKept DEF BudgetInv

\* A call that ends has spent its attempts if it ends on a transient failure.
LEMMA BudgetEnd ==
  ASSUME BudgetInv, NEW c \in Callers, NEW kind \in Outcomes, End(c, kind),
         at[c] = "sending", refused' \in [Callers -> SUBSET Nat],
         kind = "transient" => attempt[c][top[c]] + 1 >= maxAttempts
  PROVE  BudgetInv'
<1>1. ClientTypeOK'
  BY DEF BudgetInv, ClientTypeOK, End, server_vars
<1>2. OthersKept(c)
  BY DEF BudgetInv, ClientTypeOK, End, OthersKept
<1>3. Counted(c)'
  BY DEF BudgetInv, ClientTypeOK, End, Counted, UnderWay, SentSoFar
<1> QED
  BY <1>1, <1>2, <1>3, CountedKept DEF BudgetInv

LEMMA BudgetBackOff ==
  ASSUME BudgetInv, NEW c \in Callers, at[c] = "sending", BackOff(c), UNCHANGED refused
  PROVE  BudgetInv'
<1>1. ClientTypeOK'
  BY DEF BudgetInv, ClientTypeOK, BackOff, server_vars
<1>2. OthersKept(c)
  BY DEF BudgetInv, ClientTypeOK, BackOff, OthersKept
<1>3. Counted(c)'
  BY DEF BudgetInv, ClientTypeOK, BackOff, Counted, UnderWay, SentSoFar
<1> QED
  BY <1>1, <1>2, <1>3, CountedKept DEF BudgetInv

LEMMA BudgetWake ==
  ASSUME BudgetInv, NEW c \in Callers, Wake(c)
  PROVE  BudgetInv'
<1> DEFINE f == top[c]
           bumped == [attempt[c] EXCEPT ![f] = attempt[c][f] + 1]
<1>1. /\ f \in Frames /\ attempt[c] \in [Frames -> 0..(maxAttempts - 1)]
      /\ attempt[c][f] + 1 < maxAttempts
  BY DEF BudgetInv, ClientTypeOK, Counted, UnderWay, Wake
<1>2. bumped \in [Frames -> 0..(maxAttempts - 1)]
  BY <1>1, ClientAssumption
<1>3. attempt' = [attempt EXCEPT ![c] = bumped]
  BY DEF Wake
<1>4. attempt' \in [Callers -> [Frames -> 0..(maxAttempts - 1)]]
  BY <1>2, <1>3 DEF BudgetInv, ClientTypeOK
<1>5. ClientTypeOK'
  BY <1>4 DEF BudgetInv, ClientTypeOK, Wake, Send, server_vars
<1>6. OthersKept(c)
  BY DEF BudgetInv, ClientTypeOK, Wake, Send, OthersKept
<1>7. attempt'[c] = bumped
  BY <1>3 DEF BudgetInv, ClientTypeOK
<1>8. SentSoFar(c)' = SentSoFar(c) + 1
  BY <1>1, <1>7 DEF SentSoFar, BudgetInv, ClientTypeOK, Wake, Send, Frames, Counted, UnderWay
<1>9. Counted(c)'
  BY <1>8 DEF BudgetInv, ClientTypeOK, Wake, Send, Counted, UnderWay
<1> QED
  BY <1>5, <1>6, <1>9, CountedKept DEF BudgetInv

LEMMA BudgetReauthenticate ==
  ASSUME BudgetInv, NEW c \in Callers, at[c] = "sending", Reauthenticate(c),
         refused' \in [Callers -> SUBSET Nat]
  PROVE  BudgetInv'
<1> DEFINE reset == [attempt[c] EXCEPT !["session"] = 0]
<1>1. attempt[c] \in [Frames -> 0..(maxAttempts - 1)]
  BY DEF BudgetInv, ClientTypeOK
<1>0. 0 \in 0..(maxAttempts - 1)
  BY ClientAssumption
<1>2. reset \in [Frames -> 0..(maxAttempts - 1)]
  BY <1>0, <1>1 DEF Frames
<1>3. attempt' = [attempt EXCEPT ![c] = reset]
  BY DEF Reauthenticate
<1>4. attempt' \in [Callers -> [Frames -> 0..(maxAttempts - 1)]]
  BY <1>2, <1>3 DEF BudgetInv, ClientTypeOK
<1>5. ClientTypeOK'
  BY <1>4 DEF BudgetInv, ClientTypeOK, Reauthenticate, Send, server_vars, Frames
<1>6. OthersKept(c)
  BY DEF BudgetInv, ClientTypeOK, Reauthenticate, Send, OthersKept
<1>7. attempt'[c] = reset
  BY <1>3 DEF BudgetInv, ClientTypeOK
<1>8. Counted(c)'
  BY <1>1, <1>7 DEF BudgetInv, ClientTypeOK, Reauthenticate, Send, Counted, UnderWay, SentSoFar, Frames
<1> QED
  BY <1>5, <1>6, <1>8, CountedKept DEF BudgetInv

LEMMA BudgetSession ==
  ASSUME BudgetInv, NEW c \in Callers, AnswerSession(c)
  PROVE  BudgetInv'
<1>1. ClientTypeOK'
  BY DEF BudgetInv, ClientTypeOK, AnswerSession, Send, server_vars, Frames
<1>2. OthersKept(c)
  BY DEF BudgetInv, ClientTypeOK, AnswerSession, Send, OthersKept
<1>3. Counted(c)'
  BY DEF BudgetInv, ClientTypeOK, AnswerSession, Send, Counted, UnderWay, SentSoFar, Frames
<1> QED
  BY <1>1, <1>2, <1>3, CountedKept DEF BudgetInv

LEMMA BudgetAnswer ==
  ASSUME BudgetInv, NEW c \in Callers, Answer(c)
  PROVE  BudgetInv'
<1>1. CASE AnswerBody(c)
  BY <1>1, BudgetEnd DEF AnswerBody, Outcomes, BudgetInv, ClientTypeOK
<1>2. CASE AnswerTransient(c)
  <2>1. CASE BackOff(c)
    BY <1>2, <2>1, BudgetBackOff DEF AnswerTransient
  <2>2. CASE GiveUp(c)
    BY <1>2, <2>2, BudgetEnd DEF AnswerTransient, GiveUp, Outcomes, BudgetInv, ClientTypeOK
  <2> QED
    BY <1>2, <2>1, <2>2 DEF AnswerTransient
<1>3. CASE AnswerFinal(c)
  BY <1>3, BudgetEnd DEF AnswerFinal, Outcomes, BudgetInv, ClientTypeOK
<1>4. CASE AnswerRefused(c)
  <2>1. refused' \in [Callers -> SUBSET Nat]
    BY <1>4 DEF AnswerRefused, BudgetInv, ClientTypeOK
  <2>2. CASE Reauthenticate(c)
    BY <1>4, <2>1, <2>2, BudgetReauthenticate DEF AnswerRefused
  <2>3. CASE Unauthorized(c)
    BY <1>4, <2>1, <2>3, BudgetEnd DEF AnswerRefused, Unauthorized, Outcomes
  <2> QED
    BY <1>4, <2>2, <2>3 DEF AnswerRefused
<1>5. CASE AnswerSession(c)
  BY <1>5, BudgetSession
<1>6. CASE AnswerNoToken(c)
  BY <1>6, BudgetEnd DEF AnswerNoToken, Outcomes, BudgetInv, ClientTypeOK
<1> QED
  BY <1>1, <1>2, <1>3, <1>4, <1>5, <1>6 DEF Answer

\* What the server does on its own leaves every counter alone.
LEMMA BudgetServer ==
  ASSUME BudgetInv, (\E c \in Callers : Grant(c)) \/ (\E t \in live : Expire(t))
  PROVE  BudgetInv'
<1>1. ClientTypeOK'
  <2>1. CASE \E c \in Callers : Grant(c)
    BY <2>1 DEF BudgetInv, ClientTypeOK, Grant, history
  <2>2. CASE \E t \in live : Expire(t)
    BY <2>2 DEF BudgetInv, ClientTypeOK, Expire, history
  <2> QED
    BY <2>1, <2>2
<1>2. UNCHANGED <<at, top, attempt, reauthed, outcome, sends>>
  BY DEF Grant, Expire, history
<1> QED
  BY <1>1, <1>2 DEF BudgetInv, Counted, Fresh, UnderWay, SentSoFar

LEMMA BudgetStep == BudgetInv /\ [ClientNext]_client_vars => BudgetInv'
<1> SUFFICES ASSUME BudgetInv, [ClientNext]_client_vars PROVE BudgetInv'
  OBVIOUS
<1>1. CASE ClientStep
  BY <1>1, BudgetAnswer, BudgetWake, BudgetServer DEF ClientStep
<1>2. CASE \E c \in Callers : Call(c) \/ Return(c)
  BY <1>2, BudgetCall, BudgetReturn
<1>3. CASE UNCHANGED client_vars
  BY <1>3 DEF client_vars, server_vars, history, BudgetInv, ClientTypeOK, Counted, Fresh,
              UnderWay, SentSoFar
<1> QED
  BY <1>1, <1>2, <1>3 DEF ClientNext

LEMMA BudgetFollows == BudgetInv => BudgetKept
<1> SUFFICES ASSUME BudgetInv PROVE BudgetKept
  OBVIOUS
<1>1. ASSUME NEW c \in Callers
      PROVE  /\ attempt[c]["data"] \in 0..(maxAttempts - 1)
             /\ attempt[c]["session"] \in 0..(maxAttempts - 1)
             /\ top[c] \in {"data", "session"} /\ sends[c] \in Nat
  BY DEF BudgetInv, ClientTypeOK, Frames
<1>2. SendsBounded
  BY <1>1, ClientAssumption DEF BudgetInv, SendsBounded, Counted, Fresh, UnderWay, SentSoFar
<1>3. BudgetSpent
  BY <1>1, ClientAssumption DEF BudgetInv, BudgetSpent, Counted, UnderWay, SentSoFar
<1> QED
  BY <1>2, <1>3 DEF BudgetKept, BudgetInv

\* A call of the client sends at most 2 * maxAttempts + 1 requests, and gives
\* up on a transient failure only after maxAttempts of them, however 401s,
\* failures and the calls of others fall between (sendWithRetry, client.ts).
THEOREM AttemptsAreBounded == ClientSpec => []BudgetKept
  BY BudgetInit, BudgetStep, BudgetFollows, PTL DEF ClientSpec
----------------------------------------------------------------------------
(***************************************************************************)
(* The tokens.  A token is stored at most once, so one that was refused    *)
(* never comes back as the client's: while its answer is in flight a       *)
(* granted token has been neither stored, sent nor refused.                *)
(***************************************************************************)
TokensKnown ==
  /\ auth \in 0..issued
  /\ \A c \in Callers :
       /\ carried[c] \in 0..issued /\ granted[c] \in 0..issued
       /\ refused[c] \subseteq 0..issued

GrantedUnused == \A c \in Callers : granted[c] # 0 =>
  /\ granted[c] # auth
  /\ \A d \in Callers : granted[c] # carried[d] /\ granted[c] \notin refused[d]
  /\ \A d \in Callers \ {c} : granted[c] # granted[d]

\* What a call has been refused so far, by where it stands.
RefusedNone(c) == ~reauthed[c] /\ top[c] = "data" /\ at[c] # "ended" => refused[c] = {}

RefusedFirst(c) == top[c] = "session" => \E t : refused[c] = {t}

RefusedOld(c) == reauthed[c] /\ at[c] # "ended" =>
  \E t : refused[c] = {t} /\ t # auth /\ (at[c] = "sending" => t # carried[c])

RefusedTwo(c) == at[c] = "ended" /\ outcome[c] = "unauthorized" /\ top[c] = "data" =>
  \E t, u : t # u /\ refused[c] = {t, u}

RefusedAsTold(c) == RefusedNone(c) /\ RefusedFirst(c) /\ RefusedOld(c) /\ RefusedTwo(c)

TokenInv ==
  /\ BudgetInv
  /\ TokensKnown
  /\ GrantedUnused
  /\ \A c \in Callers : RefusedAsTold(c)

LEMMA TokenInit == ClientInit => TokenInv
<1> SUFFICES ASSUME ClientInit PROVE TokenInv
  OBVIOUS
<1>1. BudgetInv
  BY BudgetInit
<1>2. TokensKnown /\ GrantedUnused
  BY DEF ClientInit, TokensKnown, GrantedUnused
<1>3. \A c \in Callers : RefusedAsTold(c)
  BY DEF ClientInit, RefusedAsTold, RefusedNone, RefusedFirst, RefusedOld, RefusedTwo
<1> QED
  BY <1>1, <1>2, <1>3 DEF TokenInv

\* The others are told nothing new; the client's token may change, to one that
\* was in flight.
LEMMA RefusedKept ==
  ASSUME TokenInv, NEW c \in Callers, OthersKept(c), RefusedAsTold(c)',
         \A d \in Callers \ {c} : carried'[d] = carried[d] /\ refused'[d] = refused[d],
         auth' = auth \/ (granted[c] # 0 /\ auth' = granted[c])
  PROVE  \A d \in Callers : RefusedAsTold(d)'
<1>1. ASSUME NEW d \in Callers \ {c} PROVE RefusedAsTold(d)'
  <2>1. auth' = auth \/ auth' \notin refused[d]
    BY DEF TokenInv, GrantedUnused
  <2>2. RefusedAsTold(d)
    BY DEF TokenInv
  <2>3. /\ at'[d] = at[d] /\ top'[d] = top[d] /\ reauthed'[d] = reauthed[d]
        /\ outcome'[d] = outcome[d] /\ carried'[d] = carried[d] /\ refused'[d] = refused[d]
    BY DEF OthersKept
  <2>4. RefusedNone(d)' /\ RefusedTwo(d)'
    <3>1. RefusedNone(d)'
      BY ZenonT(30), <2>2, <2>3 DEF RefusedAsTold, RefusedNone
    <3>2. RefusedTwo(d)'
      <4>1. CASE at[d] = "ended" /\ outcome[d] = "unauthorized" /\ top[d] = "data"
        <5>1. PICK t, u : t # u /\ refused[d] = {t, u}
          BY <2>2, <4>1 DEF RefusedAsTold, RefusedTwo
        <5>2. t # u /\ refused'[d] = {t, u}
          BY <2>3, <5>1
        <5> QED
          BY ZenonT(30), <5>2 DEF RefusedTwo
      <4>2. CASE ~(at[d] = "ended" /\ outcome[d] = "unauthorized" /\ top[d] = "data")
        BY <2>3, <4>2 DEF RefusedTwo
      <4> QED
        BY <4>1, <4>2
    <3> QED
      BY <3>1, <3>2
  <2>5. RefusedFirst(d)'
    BY <2>2, <2>3 DEF RefusedAsTold, RefusedFirst
  <2>6. RefusedOld(d)'
    BY <2>1, <2>2, <2>3 DEF RefusedAsTold, RefusedOld
  <2> QED
    BY <2>4, <2>5, <2>6 DEF RefusedAsTold
<1> QED
  BY <1>1

\* A step that stores no token and brings none into flight: each caller's
\* token is unused as before, and what is refused was carried.
LEMMA UnusedKept ==
  ASSUME TokenInv, UNCHANGED <<auth, issued>>, BudgetInv',
         \A d \in Callers : /\ carried'[d] \in {0, auth, carried[d]}
                            /\ granted'[d] \in {0, granted[d]}
                            /\ refused'[d] \in {{}, refused[d], refused[d] \cup {carried[d]}}
  PROVE  TokensKnown' /\ GrantedUnused'
<1>1. issued \in Nat
  BY DEF TokenInv, BudgetInv, ClientTypeOK
<1>2. TokensKnown'
  BY <1>1 DEF TokenInv, TokensKnown
<1>3. GrantedUnused'
  BY DEF TokenInv, GrantedUnused
<1> QED
  BY <1>2, <1>3

LEMMA TokenCall ==
  ASSUME TokenInv, NEW c \in Callers, Call(c), BudgetInv'
  PROVE  TokenInv'
<1>1. TokensKnown' /\ GrantedUnused'
  BY UnusedKept DEF TokenInv, BudgetInv, ClientTypeOK, Call, Send, server_vars
<1>2. refused[c] = {} /\ top[c] = "data" /\ ~reauthed[c]
  BY DEF TokenInv, BudgetInv, Counted, Fresh, RefusedAsTold, RefusedNone, Call
<1>3. RefusedAsTold(c)'
  BY <1>2 DEF TokenInv, BudgetInv, ClientTypeOK, Call, Send, RefusedAsTold, RefusedNone,
              RefusedFirst, RefusedOld, RefusedTwo
<1>4. OthersKept(c) /\ \A d \in Callers \ {c} : carried'[d] = carried[d] /\ refused'[d] = refused[d]
  BY DEF TokenInv, BudgetInv, ClientTypeOK, Call, Send, OthersKept
<1>5. auth' = auth
  BY DEF Call
<1> QED
  BY <1>1, <1>3, <1>4, <1>5, RefusedKept DEF TokenInv

LEMMA TokenReturn ==
  ASSUME TokenInv, NEW c \in Callers, Return(c), BudgetInv'
  PROVE  TokenInv'
<1>1. TokensKnown' /\ GrantedUnused'
  BY UnusedKept DEF TokenInv, BudgetInv, ClientTypeOK, Return, Forget, server_vars
<1>2. RefusedAsTold(c)'
  BY DEF TokenInv, BudgetInv, ClientTypeOK, Return, Forget, RefusedAsTold, RefusedNone,
         RefusedFirst, RefusedOld, RefusedTwo
<1>3. OthersKept(c) /\ \A d \in Callers \ {c} : carried'[d] = carried[d] /\ refused'[d] = refused[d]
  BY DEF TokenInv, BudgetInv, ClientTypeOK, Return, Forget, OthersKept
<1>4. auth' = auth
  BY DEF Return
<1> QED
  BY <1>1, <1>2, <1>3, <1>4, RefusedKept DEF TokenInv

\* The call ends; only a second refusal of its own frame may be reported as one.
LEMMA TokenEnd ==
  ASSUME TokenInv, NEW c \in Callers, NEW kind, End(c, kind), BudgetInv',
         refused' = refused \/ refused' = [refused EXCEPT ![c] = refused[c] \cup {carried[c]}],
         top[c] = "session" => refused' = refused,
         kind = "unauthorized" /\ top[c] = "data" => \E t, u : t # u /\ refused'[c] = {t, u}
  PROVE  TokenInv'
<1>1. TokensKnown' /\ GrantedUnused'
  BY UnusedKept DEF TokenInv, BudgetInv, ClientTypeOK, End, server_vars
<1>2. RefusedFirst(c)' /\ RefusedTwo(c)'
  BY DEF TokenInv, BudgetInv, ClientTypeOK, End, RefusedAsTold, RefusedFirst, RefusedTwo
<1>3. RefusedNone(c)' /\ RefusedOld(c)'
  BY DEF TokenInv, BudgetInv, ClientTypeOK, End, RefusedNone, RefusedOld
<1>4. OthersKept(c) /\ \A d \in Callers \ {c} : carried'[d] = carried[d] /\ refused'[d] = refused[d]
  BY DEF TokenInv, BudgetInv, ClientTypeOK, End, OthersKept
<1>5. auth' = auth
  BY DEF End
<1> QED
  BY <1>1, <1>2, <1>3, <1>4, <1>5, RefusedKept DEF TokenInv, RefusedAsTold

LEMMA TokenBackOff ==
  ASSUME TokenInv, NEW c \in Callers, at[c] = "sending", BackOff(c), UNCHANGED refused, BudgetInv'
  PROVE  TokenInv'
<1>1. TokensKnown' /\ GrantedUnused'
  BY UnusedKept DEF TokenInv, BudgetInv, ClientTypeOK, BackOff, server_vars
<1>2. RefusedAsTold(c)'
  BY DEF TokenInv, BudgetInv, ClientTypeOK, BackOff, RefusedAsTold, RefusedNone,
         RefusedFirst, RefusedOld, RefusedTwo
<1>3. OthersKept(c) /\ \A d \in Callers \ {c} : carried'[d] = carried[d] /\ refused'[d] = refused[d]
  BY DEF TokenInv, BudgetInv, ClientTypeOK, BackOff, OthersKept
<1>4. auth' = auth
  BY DEF BackOff
<1> QED
  BY <1>1, <1>2, <1>3, <1>4, RefusedKept DEF TokenInv

\* The next attempt carries the client's token of that moment.
LEMMA TokenWake ==
  ASSUME TokenInv, NEW c \in Callers, Wake(c), BudgetInv'
  PROVE  TokenInv'
<1>1. TokensKnown' /\ GrantedUnused'
  BY UnusedKept DEF TokenInv, BudgetInv, ClientTypeOK, Wake, Send, server_vars
<1>2. /\ top'[c] = top[c] /\ reauthed'[c] = reauthed[c] /\ refused'[c] = refused[c]
      /\ at'[c] = "sending" /\ auth' = auth
      /\ carried'[c] = IF top[c] = "data" THEN auth ELSE 0
  BY DEF TokenInv, BudgetInv, ClientTypeOK, Wake, Send
<1>3. reauthed[c] => top[c] = "data"
  BY DEF TokenInv, BudgetInv, ClientTypeOK, Counted, UnderWay, Wake, Frames
<1>4. RefusedAsTold(c)'
  BY <1>2, <1>3 DEF TokenInv, Wake, RefusedAsTold, RefusedNone, RefusedFirst, RefusedOld, RefusedTwo
<1>5. OthersKept(c) /\ \A d \in Callers \ {c} : carried'[d] = carried[d] /\ refused'[d] = refused[d]
  BY DEF TokenInv, BudgetInv, ClientTypeOK, Wake, Send, OthersKept
<1> QED
  BY <1>1, <1>2, <1>4, <1>5, RefusedKept DEF TokenInv

LEMMA TokenReauthenticate ==
  ASSUME TokenInv, NEW c \in Callers, at[c] = "sending", Reauthenticate(c), BudgetInv',
         refused' = [refused EXCEPT ![c] = refused[c] \cup {carried[c]}]
  PROVE  TokenInv'
<1>1. TokensKnown' /\ GrantedUnused'
  BY UnusedKept DEF TokenInv, BudgetInv, ClientTypeOK, Reauthenticate, Send, server_vars
<1>2. refused'[c] = {carried[c]}
  BY DEF TokenInv, BudgetInv, ClientTypeOK, RefusedAsTold, RefusedNone, Reauthenticate
<1>3. RefusedAsTold(c)'
  BY <1>2 DEF TokenInv, BudgetInv, ClientTypeOK, Reauthenticate, Send, RefusedAsTold, RefusedNone,
              RefusedFirst, RefusedOld, RefusedTwo, Frames
<1>4. OthersKept(c) /\ \A d \in Callers \ {c} : carried'[d] = carried[d] /\ refused'[d] = refused[d]
  BY DEF TokenInv, BudgetInv, ClientTypeOK, Reauthenticate, Send, OthersKept
<1>5. auth' = auth
  BY DEF Reauthenticate
<1> QED
  BY <1>1, <1>3, <1>4, <1>5, RefusedKept DEF TokenInv

\* The granted token was never used, so it is not the one that was refused.
LEMMA TokenSession ==
  ASSUME TokenInv, NEW c \in Callers, AnswerSession(c), BudgetInv'
  PROVE  TokenInv'
<1>1. /\ auth' = granted[c] /\ granted[c] # 0 /\ issued' = issued /\ refused' = refused
      /\ granted'[c] = 0 /\ carried'[c] = granted[c] /\ at'[c] = "sending"
      /\ top'[c] = "data" /\ reauthed'[c]
      /\ \A d \in Callers \ {c} : granted'[d] = granted[d] /\ carried'[d] = carried[d]
  BY DEF TokenInv, BudgetInv, ClientTypeOK, AnswerSession, Send, server_vars
<1>2. TokensKnown'
  <2>1. issued \in Nat
    BY DEF TokenInv, BudgetInv, ClientTypeOK
  <2> QED
    BY <1>1, <2>1 DEF TokenInv, TokensKnown
<1>3. GrantedUnused'
  BY <1>1 DEF TokenInv, GrantedUnused
<1>4. \E t : refused[c] = {t}
  BY DEF TokenInv, RefusedAsTold, RefusedFirst, AnswerSession
<1>5. granted[c] \notin refused[c]
  BY <1>1 DEF TokenInv, GrantedUnused
<1>6. RefusedAsTold(c)'
  BY <1>1, <1>4, <1>5 DEF RefusedAsTold, RefusedNone, RefusedFirst, RefusedOld, RefusedTwo
<1>7. OthersKept(c)
  BY DEF TokenInv, BudgetInv, ClientTypeOK, AnswerSession, Send, OthersKept
<1> QED
  BY <1>1, <1>2, <1>3, <1>6, <1>7, RefusedKept DEF TokenInv

\* A token just issued has been used by nobody.
LEMMA TokenGrant ==
  ASSUME TokenInv, NEW c \in Callers, Grant(c), BudgetInv'
  PROVE  TokenInv'
<1>1. /\ issued \in Nat /\ issued' = issued + 1 /\ UNCHANGED <<auth, carried, refused>>
      /\ granted'[c] = issued + 1
      /\ \A d \in Callers \ {c} : granted'[d] = granted[d]
  BY DEF TokenInv, BudgetInv, ClientTypeOK, Grant, history
<1>2. TokensKnown'
  <2>1. auth' \in 0..issued'
    BY <1>1 DEF TokenInv, TokensKnown
  <2>2. ASSUME NEW d \in Callers
        PROVE  carried'[d] \in 0..issued' /\ granted'[d] \in 0..issued'
    BY <1>1 DEF TokenInv, TokensKnown
  <2>3. ASSUME NEW d \in Callers PROVE refused'[d] \subseteq 0..issued'
    BY <1>1 DEF TokenInv, TokensKnown
  <2> QED
    BY <2>1, <2>2, <2>3 DEF TokensKnown
<1>3. \A d \in Callers : /\ issued + 1 # auth /\ issued + 1 # carried[d] /\ issued + 1 # granted[d]
                         /\ issued + 1 \notin refused[d]
  BY <1>1 DEF TokenInv, TokensKnown
<1>4. GrantedUnused'
  BY <1>1, <1>3 DEF TokenInv, GrantedUnused
<1>5. UNCHANGED <<auth, at, top, reauthed, carried, outcome, refused>>
  BY DEF Grant, history
<1>6. \A d \in Callers : RefusedAsTold(d)'
  BY <1>5 DEF TokenInv, RefusedAsTold, RefusedNone, RefusedFirst, RefusedOld, RefusedTwo
<1> QED
  BY <1>2, <1>4, <1>6 DEF TokenInv

LEMMA TokenIdle ==
  ASSUME TokenInv, BudgetInv', (\E t \in live : Expire(t)) \/ UNCHANGED client_vars
  PROVE  TokenInv'
<1>1. UNCHANGED <<auth, issued, at, top, reauthed, carried, granted, outcome, refused>>
  BY DEF Expire, history, client_vars, server_vars
<1> QED
  BY <1>1 DEF TokenInv, TokensKnown, GrantedUnused, RefusedAsTold, RefusedNone, RefusedFirst,
              RefusedOld, RefusedTwo

LEMMA TokenRefusal ==
  ASSUME TokenInv, NEW c \in Callers, AnswerRefused(c), BudgetInv'
  PROVE  TokenInv'
<1>1. CASE Reauthenticate(c)
  BY <1>1, TokenReauthenticate DEF AnswerRefused, Reauthenticate
<1>2. CASE Unauthorized(c)
  <2>1. End(c, "unauthorized")
    BY <1>2 DEF Unauthorized
  <2>2. CASE top[c] = "session"
    <3>1. refused' = refused
      BY <2>2 DEF AnswerRefused
    <3> QED
      BY <2>1, <2>2, <3>1, TokenEnd
  <2>3. CASE top[c] = "data"
    <3>1. refused' = [refused EXCEPT ![c] = refused[c] \cup {carried[c]}]
      BY <2>3 DEF AnswerRefused
    <3>2. PICK t : refused[c] = {t} /\ t # carried[c]
      BY <1>2, <2>3 DEF TokenInv, RefusedAsTold, RefusedOld, AnswerRefused, Unauthorized
    <3>3. refused'[c] = {t, carried[c]}
      BY <3>1, <3>2 DEF TokenInv, BudgetInv, ClientTypeOK
    <3>4. \E x, y : x # y /\ refused'[c] = {x, y}
      BY <3>2, <3>3
    <3> QED
      BY <2>1, <2>3, <3>1, <3>4, TokenEnd
  <2> QED
    BY <2>2, <2>3 DEF TokenInv, BudgetInv, ClientTypeOK, Frames
<1> QED
  BY <1>1, <1>2 DEF AnswerRefused

LEMMA TokenAnswer ==
  ASSUME TokenInv, NEW c \in Callers, Answer(c), BudgetInv'
  PROVE  TokenInv'
<1>1. CASE AnswerBody(c)
  BY <1>1, TokenEnd DEF AnswerBody
<1>2. CASE AnswerTransient(c)
  <2>1. CASE BackOff(c)
    BY <1>2, <2>1, TokenBackOff DEF AnswerTransient
  <2>2. CASE GiveUp(c)
    <3>1. End(c, "transient") /\ refused' = refused
      BY <1>2, <2>2 DEF AnswerTransient, GiveUp
    <3> QED
      BY <3>1, TokenEnd
  <2> QED
    BY <1>2, <2>1, <2>2 DEF AnswerTransient
<1>3. CASE AnswerFinal(c)
  BY <1>3, TokenEnd DEF AnswerFinal
<1>4. CASE AnswerRefused(c)
  BY <1>4, TokenRefusal
<1>5. CASE AnswerSession(c)
  BY <1>5, TokenSession
<1>6. CASE AnswerNoToken(c)
  BY <1>6, TokenEnd DEF AnswerNoToken
<1> QED
  BY <1>1, <1>2, <1>3, <1>4, <1>5, <1>6 DEF Answer

LEMMA TokenStep == TokenInv /\ [ClientNext]_client_vars => TokenInv'
<1> SUFFICES ASSUME TokenInv, [ClientNext]_client_vars PROVE TokenInv'
  OBVIOUS
<1>1. BudgetInv'
  BY BudgetStep DEF TokenInv
<1>2. CASE ClientStep
  BY <1>1, <1>2, TokenAnswer, TokenWake, TokenGrant, TokenIdle DEF ClientStep
<1>3. CASE \E c \in Callers : Call(c) \/ Return(c)
  BY <1>1, <1>3, TokenCall, TokenReturn
<1>4. CASE UNCHANGED client_vars
  BY <1>1, <1>4, TokenIdle
<1> QED
  BY <1>2, <1>3, <1>4 DEF ClientNext

LEMMA TokenFollows == TokenInv => UnauthorizedIsReal
<1> SUFFICES ASSUME TokenInv, NEW c \in Callers,
                    at[c] = "ended", outcome[c] = "unauthorized", top[c] = "data"
             PROVE  Cardinality(refused[c]) = 2
  BY DEF UnauthorizedIsReal
<1>1. PICK t, u : t # u /\ refused[c] = {t, u}
  BY DEF TokenInv, RefusedAsTold, RefusedTwo
<1>2. IsFiniteSet({t}) /\ Cardinality({t}) = 1
  BY FS_Singleton
<1>3. Cardinality({t} \cup {u}) = Cardinality({t}) + 1
  BY <1>1, <1>2, FS_AddElement, Zenon
<1>4. refused[c] = {t} \cup {u}
  BY <1>1
<1> QED
  BY <1>2, <1>3, <1>4

\* A call that reports "unauthorized" for its own request was refused two
\* different tokens, whatever the other calls of the client stored in between
\* (the reauthed branch of sendWithRetry, client.ts).
THEOREM RefusalIsReal == ClientSpec => []UnauthorizedIsReal
  BY TokenInit, TokenStep, TokenFollows, PTL DEF ClientSpec

(***************************************************************************)
(* THE REPLAY                                                              *)
(*                                                                         *)
(* The window: batches of records, and their places.                       *)
(***************************************************************************)
Records == OddsRecords \cup ScoreRecords

LEMMA BatchIsRecords ==
  ASSUME recording \in Recordings
  PROVE  /\ Batches \in Nat
         /\ \A b \in 1..Batches : /\ Batch(b) \in Seq(Records)
                                  /\ Len(Batch(b)) \in Nat
                                  /\ \A n \in 1..Len(Batch(b)) : Batch(b)[n].Ts \in Nat
<1>1. /\ recording.odds \in Seq(Seq(OddsRecords)) /\ recording.scores \in Seq(Seq(ScoreRecords))
      /\ Len(recording.odds) = Len(recording.scores)
  BY ReplayAssumption
<1> DEFINE L == Len(recording.odds)
<1>2. L \in Nat /\ Batches = 2 * L
  BY <1>1 DEF Batches
<1>3. ASSUME NEW b \in 1..Batches
      PROVE  /\ Batch(b) \in Seq(Records) /\ Len(Batch(b)) \in Nat
             /\ \A n \in 1..Len(Batch(b)) : Batch(b)[n].Ts \in Nat
  <2>1. (b + 1) \div 2 \in 1..L
    BY <1>2
  <2>2. Batch(b) = recording.odds[(b + 1) \div 2] \/ Batch(b) = recording.scores[(b + 1) \div 2]
    BY DEF Batch, Channel
  <2>3. Batch(b) \in Seq(OddsRecords) \/ Batch(b) \in Seq(ScoreRecords)
    BY <1>1, <2>1, <2>2
  <2>4. Batch(b) \in Seq(Records)
    BY <2>3 DEF Records
  <2>5. \A n \in 1..Len(Batch(b)) : Batch(b)[n] \in Records
    BY <2>4
  <2> QED
    BY <2>4, <2>5, ReplayAssumption DEF Records
<1> QED
  BY <1>2, <1>3

LEMMA PlacesArePairs ==
  ASSUME recording \in Recordings
  PROVE  /\ \A p \in Places : /\ p = <<p[1], p[2]>> /\ p[1] \in 1..Batches
                              /\ p[2] \in 1..Len(Batch(p[1])) /\ p[1] \in Nat /\ p[2] \in Nat
         /\ \A b \in 1..Batches : \A n \in 1..Len(Batch(b)) : <<b, n>> \in Places
<1>1. \A b \in 1..Batches : DOMAIN Batch(b) = 1..Len(Batch(b)) /\ Len(Batch(b)) \in Nat
  BY BatchIsRecords
<1>2. Batches \in Nat
  BY BatchIsRecords
<1>3. ASSUME NEW p \in Places
      PROVE  /\ p = <<p[1], p[2]>> /\ p[1] \in 1..Batches
             /\ p[2] \in 1..Len(Batch(p[1])) /\ p[1] \in Nat /\ p[2] \in Nat
  <2>1. PICK b \in 1..Batches : p \in {b} \X DOMAIN Batch(b)
    BY DEF Places
  <2>2. p = <<p[1], p[2]>> /\ p[1] = b /\ p[2] \in DOMAIN Batch(b)
    BY <2>1
  <2> QED
    BY <1>1, <1>2, <2>2
<1>4. ASSUME NEW b \in 1..Batches, NEW n \in 1..Len(Batch(b)) PROVE <<b, n>> \in Places
  <2>1. <<b, n>> \in {b} \X DOMAIN Batch(b)
    BY <1>1
  <2> QED
    BY <2>1 DEF Places
<1> QED
  BY <1>3, <1>4

\* A record that can be mapped keeps its time.
LEMMA MappedHasTime ==
  ASSUME recording \in Recordings, NEW p \in Places, MappedAt(p).ok
  PROVE  TsAt(p) \in Nat /\ RankAt(p) \in {0, 1}
<1>1. Raw(p).Ts \in Nat
  BY PlacesArePairs, BatchIsRecords DEF Raw
<1>2. RankAt(p) \in {0, 1}
  BY DEF RankAt, ChannelRank
<1>3. CASE Channel(p[1]) = "odds"
  <2> DEFINE raw == Raw(p)
  <2>1. MappedAt(p) = mapOddsPayload(raw)
    BY <1>3 DEF MappedAt, Mapped
  <2>2. CASE Len(raw.PriceNames) # Len(raw.Prices)
    BY <2>1, <2>2 DEF mapOddsPayload, Error
  <2>3. CASE /\ Len(raw.PriceNames) = Len(raw.Prices)
             /\ \E i \in DOMAIN raw.Prices : ~decimalOddsMilli(raw.Prices[i]).ok \/ ~PctAt(raw, i).ok
    <3>1. mapOddsPayload(raw) = Error("invalid-line")
      BY <2>3 DEF mapOddsPayload
    <3> QED
      BY <2>1, <3>1 DEF Error
  <2>4. CASE /\ Len(raw.PriceNames) = Len(raw.Prices)
             /\ ~\E i \in DOMAIN raw.Prices : ~decimalOddsMilli(raw.Prices[i]).ok \/ ~PctAt(raw, i).ok
    <3> DEFINE update ==
                 [fixtureId |-> raw.FixtureId, messageId |-> raw.MessageId, tsMs |-> raw.Ts,
                  marketKey |-> <<raw.FixtureId, raw.SuperOddsType, raw.MarketPeriod,
                                  raw.MarketParameters>>,
                  marketKind |-> classifyMarketKind(raw.SuperOddsType),
                  line |-> parseMarketLine(raw.MarketParameters),
                  period |-> classifyMarketPeriod(raw.MarketPeriod),
                  lines |-> [i \in DOMAIN raw.Prices |-> OddsLine(raw, i)]]
    <3>1. update.tsMs = raw.Ts
      OBVIOUS
    <3>2. mapOddsPayload(raw) = Ok(update)
      BY <2>4, Zenon DEF mapOddsPayload
    <3> HIDE DEF update
    <3> QED
      BY <1>1, <1>2, <2>1, <3>1, <3>2 DEF Ok, TsAt
  <2> QED
    BY <2>2, <2>3, <2>4
<1>4. CASE Channel(p[1]) # "odds"
  <2>1. MappedAt(p) = mapScorePayload(Raw(p))
    BY <1>4 DEF MappedAt, Mapped
  <2>2. mapScorePayload(Raw(p)).value.tsMs = Raw(p).Ts
    BY DEF mapScorePayload, Ok
  <2> QED
    BY <1>1, <1>2, <2>1, <2>2 DEF TsAt
<1> QED
  BY <1>3, <1>4

LEMMA EmittableFacts ==
  ASSUME recording \in Recordings
  PROVE  \A p \in Emittable :
           /\ p \in Places /\ p[1] \in Nat /\ p[2] \in Nat /\ p = <<p[1], p[2]>>
           /\ TsAt(p) \in Nat /\ RankAt(p) \in Nat
<1> SUFFICES ASSUME NEW p \in Emittable
             PROVE  /\ p \in Places /\ p[1] \in Nat /\ p[2] \in Nat /\ p = <<p[1], p[2]>>
                    /\ TsAt(p) \in Nat /\ RankAt(p) \in Nat
  OBVIOUS
<1>1. p \in Places /\ MappedAt(p).ok
  BY DEF Emittable, FirstCopies, Answered
<1> QED
  BY <1>1, PlacesArePairs, MappedHasTime

LEMMA EarlierIsOrder ==
  ASSUME recording \in Recordings
  PROVE  /\ \A p \in Places : ~Earlier(p, p)
         /\ \A p, q, r \in Places : Earlier(p, q) /\ Earlier(q, r) => Earlier(p, r)
         /\ \A p, q \in Places : p = q \/ Earlier(p, q) \/ Earlier(q, p)
<1>1. \A p \in Places : p[1] \in Nat /\ p[2] \in Nat /\ p = <<p[1], p[2]>>
  BY PlacesArePairs
<1>2. \A p \in Places : ~Earlier(p, p)
  BY <1>1 DEF Earlier
<1>3. \A p, q, r \in Places : Earlier(p, q) /\ Earlier(q, r) => Earlier(p, r)
  BY <1>1 DEF Earlier
<1>4. ASSUME NEW p \in Places, NEW q \in Places PROVE p = q \/ Earlier(p, q) \/ Earlier(q, p)
  <2>1. p[1] \in Nat /\ p[2] \in Nat /\ q[1] \in Nat /\ q[2] \in Nat
    BY <1>1
  <2>2. Earlier(p, q) \/ Earlier(q, p) \/ (p[1] = q[1] /\ p[2] = q[2])
    BY <2>1 DEF Earlier
  <2> QED
    BY <1>1, <2>2
<1> QED
  BY <1>2, <1>3, <1>4

LEMMA SoonerIsOrder ==
  ASSUME recording \in Recordings
  PROVE  /\ \A p \in Emittable : ~Sooner(p, p)
         /\ \A p, q, r \in Emittable : Sooner(p, q) /\ Sooner(q, r) => Sooner(p, r)
         /\ \A p, q \in Emittable : p = q \/ Sooner(p, q) \/ Sooner(q, p)
         /\ \A p, q \in Emittable : Sooner(p, q) => TsAt(p) <= TsAt(q)
<1>1. \A p \in Emittable : p \in Places /\ TsAt(p) \in Nat /\ RankAt(p) \in Nat
  BY EmittableFacts
<1>2. ASSUME NEW p \in Emittable PROVE ~Sooner(p, p)
  BY <1>1, EarlierIsOrder DEF Sooner
<1>3. ASSUME NEW p \in Emittable, NEW q \in Emittable, NEW r \in Emittable,
             Sooner(p, q), Sooner(q, r)
      PROVE  Sooner(p, r)
  <2>1. Earlier(p, q) /\ Earlier(q, r) => Earlier(p, r)
    BY <1>1, EarlierIsOrder
  <2>2. /\ TsAt(p) \in Nat /\ TsAt(q) \in Nat /\ TsAt(r) \in Nat
        /\ RankAt(p) \in Nat /\ RankAt(q) \in Nat /\ RankAt(r) \in Nat
    BY <1>1
  <2> QED
    BY <1>3, <2>1, <2>2 DEF Sooner
<1>4. ASSUME NEW p \in Emittable, NEW q \in Emittable PROVE p = q \/ Sooner(p, q) \/ Sooner(q, p)
  <2>1. p = q \/ Earlier(p, q) \/ Earlier(q, p)
    BY <1>1, EarlierIsOrder
  <2>2. TsAt(p) \in Nat /\ TsAt(q) \in Nat /\ RankAt(p) \in Nat /\ RankAt(q) \in Nat
    BY <1>1
  <2> QED
    BY <2>1, <2>2 DEF Sooner
<1>5. ASSUME NEW p \in Emittable, NEW q \in Emittable, Sooner(p, q) PROVE TsAt(p) <= TsAt(q)
  BY <1>1, <1>5 DEF Sooner
<1> QED
  BY <1>2, <1>3, <1>4, <1>5

(***************************************************************************)
(* Reading the window.                                                     *)
(***************************************************************************)
\* What has been read after n records of batch b: all of the batches before
\* that could be fetched, and these.
Read(b, n) == {p \in Answered : p[1] < b \/ (p[1] = b /\ p[2] <= n)}

Entries == {Pushed(p, o) : p \in Places, o \in Nat}

\* A sequence holds the entries of some places, in the order of fetching.
Holds(pd, E) ==
  /\ pd \in Seq(Entries)
  /\ \A k \in 1..Len(pd) : pd[k].from \in E /\ pd[k] = Pushed(pd[k].from, k - 1)
  /\ \A j, k \in 1..Len(pd) : j < k => Earlier(pd[j].from, pd[k].from)
  /\ \A p \in E : \E k \in 1..Len(pd) : pd[k].from = p

ReadTo(sn, pd, b, n) ==
  /\ sn = {KeyAt(p) : p \in Read(b, n)}
  /\ Holds(pd, Emittable \cap Read(b, n))

LEMMA OneMoreRead ==
  ASSUME recording \in Recordings, NEW b \in 1..Batches, b \notin missed,
         NEW n \in 1..Len(Batch(b))
  PROVE  /\ <<b, n>> \in Answered
         /\ Read(b, n) = Read(b, n - 1) \cup {<<b, n>>}
         /\ \A q \in Answered : Earlier(q, <<b, n>>) <=> q \in Read(b, n - 1)
<1>1. <<b, n>> \in Answered
  BY PlacesArePairs DEF Answered
<1>2. b \in Nat /\ n \in Nat
  BY BatchIsRecords
<1>3. \A q \in Answered : q[1] \in Nat /\ q[2] \in Nat /\ q = <<q[1], q[2]>>
  BY PlacesArePairs DEF Answered
<1>4. \A q \in Answered : Earlier(q, <<b, n>>) <=> q \in Read(b, n - 1)
  <2> SUFFICES ASSUME NEW q \in Answered
               PROVE  Earlier(q, <<b, n>>) <=> q \in Read(b, n - 1)
    OBVIOUS
  <2>1. Earlier(q, <<b, n>>) <=> q[1] < b \/ (q[1] = b /\ q[2] < n)
    BY DEF Earlier
  <2>2. q \in Read(b, n - 1) <=> q[1] < b \/ (q[1] = b /\ q[2] <= n - 1)
    BY DEF Read
  <2> QED
    BY <1>2, <1>3, <2>1, <2>2
<1>5. ASSUME NEW q \in Answered PROVE q \in Read(b, n) <=> q \in Read(b, n - 1) \/ q = <<b, n>>
  <2>1. q \in Read(b, n) <=> q[1] < b \/ (q[1] = b /\ q[2] <= n)
    BY DEF Read
  <2>2. q \in Read(b, n - 1) <=> q[1] < b \/ (q[1] = b /\ q[2] <= n - 1)
    BY DEF Read
  <2>3. q = <<b, n>> <=> q[1] = b /\ q[2] = n
    BY <1>3
  <2> QED
    BY <1>2, <1>3, <2>1, <2>2, <2>3
<1>6. Read(b, n) \subseteq Answered /\ Read(b, n - 1) \subseteq Answered
  BY DEF Read
<1> QED
  BY <1>1, <1>4, <1>5, <1>6

\* One more entry.
LEMMA HoldsOneMore ==
  ASSUME NEW pd, NEW E, Holds(pd, E), NEW p \in Places, \A q \in E : Earlier(q, p)
  PROVE  Holds(Append(pd, Pushed(p, Len(pd))), E \cup {p})
<1> DEFINE e == Pushed(p, Len(pd))
           new == Append(pd, e)
<1>1. pd \in Seq(Entries) /\ Len(pd) \in Nat
  BY DEF Holds
<1>2. e \in Entries /\ e.from = p
  BY <1>1 DEF Entries, Pushed
<1> HIDE DEF e
<1>3. /\ new \in Seq(Entries) /\ Len(new) = Len(pd) + 1 /\ new[Len(pd) + 1] = e
      /\ \A k \in 1..Len(pd) : new[k] = pd[k]
  BY <1>1, <1>2
<1> HIDE DEF new
<1>4. ASSUME NEW k \in 1..Len(new)
      PROVE  new[k].from \in E \cup {p} /\ new[k] = Pushed(new[k].from, k - 1)
  <2>1. CASE k \in 1..Len(pd)
    BY <1>3, <2>1 DEF Holds
  <2>2. CASE k = Len(pd) + 1
    <3>1. new[k] = e /\ k - 1 = Len(pd)
      BY <1>1, <1>3, <2>2
    <3> QED
      BY <1>2, <3>1 DEF e
  <2> QED
    BY <1>1, <1>3, <2>1, <2>2
<1>5. ASSUME NEW j \in 1..Len(new), NEW k \in 1..Len(new), j < k
      PROVE  Earlier(new[j].from, new[k].from)
  <2>1. j \in 1..Len(pd)
    BY <1>1, <1>3, <1>5
  <2>2. CASE k \in 1..Len(pd)
    BY <1>3, <1>5, <2>1, <2>2 DEF Holds
  <2>3. CASE k = Len(pd) + 1
    <3>1. new[j].from \in E
      BY <1>3, <2>1 DEF Holds
    <3> QED
      BY <1>2, <1>3, <2>3, <3>1
  <2> QED
    BY <1>1, <1>3, <2>2, <2>3
<1>6. ASSUME NEW q \in E \cup {p} PROVE \E k \in 1..Len(new) : new[k].from = q
  <2>1. CASE q \in E
    <3>1. PICK k \in 1..Len(pd) : pd[k].from = q
      BY <2>1 DEF Holds
    <3>2. k \in 1..Len(new) /\ new[k] = pd[k]
      BY <1>1, <1>3
    <3> QED
      BY <3>1, <3>2
  <2>2. CASE q = p
    <3>1. Len(pd) + 1 \in 1..Len(new)
      BY <1>1, <1>3
    <3> QED
      BY <1>2, <1>3, <2>2, <3>1
  <2> QED
    BY <2>1, <2>2
<1>7. Holds(new, E \cup {p})
  BY <1>3, <1>4, <1>5, <1>6 DEF Holds
<1> QED
  BY <1>7 DEF new, e

\* A record is taken as the first copy of its key exactly when it is one.
LEMMA AcceptReads ==
  ASSUME recording \in Recordings, NEW b \in 1..Batches, b \notin missed,
         NEW n \in 1..Len(Batch(b)), NEW acc, ReadTo(acc.seen, acc.pending, b, n - 1)
  PROVE  ReadTo(Accept(acc, <<b, n>>).seen, Accept(acc, <<b, n>>).pending, b, n)
<1> DEFINE p == <<b, n>>
           before == Read(b, n - 1)
           E == Emittable \cap before
<1>1. /\ p \in Answered /\ Read(b, n) = before \cup {p}
      /\ \A q \in Answered : Earlier(q, p) <=> q \in before
  BY OneMoreRead
<1>2. p \in Places /\ before \subseteq Answered
  BY <1>1 DEF Answered, Read
<1>3. acc.seen = {KeyAt(q) : q \in before} /\ Holds(acc.pending, E)
  BY DEF ReadTo
<1> HIDE DEF p, before, E
<1>4. p \in FirstCopies <=> KeyAt(p) \notin acc.seen
  BY <1>1, <1>2, <1>3 DEF FirstCopies
<1>5. CASE KeyAt(p) \in acc.seen
  <2>1. Accept(acc, p) = acc
    BY <1>5 DEF Accept
  <2>2. Emittable \cap Read(b, n) = E
    BY <1>1, <1>4, <1>5 DEF E, Emittable
  <2>3. acc.seen = {KeyAt(q) : q \in Read(b, n)}
    BY <1>1, <1>3, <1>5
  <2>4. ReadTo(acc.seen, acc.pending, b, n)
    BY <1>3, <2>2, <2>3 DEF ReadTo
  <2> QED
    BY <2>1, <2>4 DEF p
<1>6. CASE KeyAt(p) \notin acc.seen
  <2> DEFINE new == IF MappedAt(p).ok THEN Append(acc.pending, Pushed(p, Len(acc.pending)))
                    ELSE acc.pending
             sn == acc.seen \cup {KeyAt(p)}
  <2>1. Accept(acc, p).seen = sn /\ Accept(acc, p).pending = new
    BY <1>6 DEF Accept
  <2>2. sn = {KeyAt(q) : q \in Read(b, n)}
    BY <1>1, <1>3
  <2>3. CASE MappedAt(p).ok
    <3>1. p \in Emittable
      BY <1>4, <1>6, <2>3 DEF Emittable
    <3>2. Emittable \cap Read(b, n) = E \cup {p}
      BY <1>1, <3>1 DEF E
    <3>3. \A q \in E : Earlier(q, p)
      BY <1>1, <1>2 DEF E
    <3>4. Holds(new, E \cup {p})
      BY <1>2, <1>3, <2>3, <3>3, HoldsOneMore
    <3> QED
      BY <2>1, <2>2, <3>2, <3>4 DEF ReadTo, p
  <2>4. CASE ~MappedAt(p).ok
    <3>1. Emittable \cap Read(b, n) = E
      BY <1>1, <2>4 DEF E, Emittable
    <3> QED
      BY <1>3, <2>1, <2>2, <2>4, <3>1 DEF ReadTo, p
  <2> QED
    BY <2>3, <2>4
<1> QED
  BY <1>5, <1>6

(***************************************************************************)
(* The loop over the records of a batch, as a function of how many it has  *)
(* gone through: one exists for every length, and reads what it should.    *)
(***************************************************************************)
Loop(g, m) ==
  g = [n \in 0..m |-> IF n = 0 THEN [seen |-> seen, pending |-> pending]
                      ELSE Accept(g[n - 1], <<position, n>>)]

LEMMA LoopSteps ==
  ASSUME NEW m \in Nat, NEW g, Loop(g, m)
  PROVE  /\ DOMAIN g = 0..m
         /\ g[0] = [seen |-> seen, pending |-> pending]
         /\ \A n \in 1..m : g[n] = Accept(g[n - 1], <<position, n>>)
<1> DEFINE value(n) == IF n = 0 THEN [seen |-> seen, pending |-> pending]
                       ELSE Accept(g[n - 1], <<position, n>>)
<1>1. g = [n \in 0..m |-> value(n)]
  BY DEF Loop
<1>2. value(0) = [seen |-> seen, pending |-> pending]
  OBVIOUS
<1>3. \A n \in 1..m : value(n) = Accept(g[n - 1], <<position, n>>)
  OBVIOUS
<1>4. 0 \in 0..m /\ \A n \in 1..m : n \in 0..m
  OBVIOUS
<1> HIDE DEF value
<1>5. DOMAIN g = 0..m /\ \A n \in 0..m : g[n] = value(n)
  BY <1>1
<1> QED
  BY <1>2, <1>3, <1>4, <1>5

LEMMA LoopGoesOn ==
  ASSUME NEW m \in Nat, NEW g, Loop(g, m)
  PROVE  \E h : Loop(h, m + 1)
<1> DEFINE value(f, n) == IF n = 0 THEN [seen |-> seen, pending |-> pending]
                          ELSE Accept(f[n - 1], <<position, n>>)
           h == [n \in 0..(m + 1) |-> IF n = m + 1 THEN Accept(g[m], <<position, m + 1>>) ELSE g[n]]
<1>1. /\ g[0] = [seen |-> seen, pending |-> pending]
      /\ \A n \in 1..m : g[n] = Accept(g[n - 1], <<position, n>>)
  BY LoopSteps
<1>2. /\ \A n \in 0..m : h[n] = g[n]
      /\ h[m + 1] = Accept(g[m], <<position, m + 1>>)
      /\ DOMAIN h = 0..(m + 1)
  OBVIOUS
<1>3. h = [n \in 0..(m + 1) |-> h[n]]
  OBVIOUS
<1> HIDE DEF h
<1>4. ASSUME NEW n \in 0..(m + 1) PROVE h[n] = value(h, n)
  <2>1. CASE n = 0
    BY <1>1, <1>2, <2>1
  <2>2. CASE n \in 1..m
    <3>1. n - 1 \in 0..m /\ n \in 0..m /\ n # 0
      BY <2>2
    <3> QED
      BY <1>1, <1>2, <2>2, <3>1
  <2>3. CASE n = m + 1
    <3>1. n - 1 = m /\ m \in 0..m /\ n # 0
      BY <2>3
    <3> QED
      BY <1>2, <2>3, <3>1
  <2> QED
    BY <2>1, <2>2, <2>3
<1>5. Loop(h, m + 1)
  BY <1>3, <1>4 DEF Loop
<1> QED
  BY <1>5

LEMMA LoopExists == ASSUME NEW m \in Nat PROVE \E g : Loop(g, m)
<1> DEFINE Stuck == {n \in Nat : ~\E g : Loop(g, n)}
<1>1. ASSUME Stuck # {} PROVE FALSE
  <2>1. PICK n \in Stuck : \A k \in Stuck : n <= k
    <3>1. Stuck \subseteq Nat
      OBVIOUS
    <3> HIDE DEF Stuck
    <3> QED
      BY <1>1, <3>1, LeastNatural
  <2>2. n \in Nat /\ ~\E g : Loop(g, n)
    OBVIOUS
  <2>3. CASE n = 0
    <3> DEFINE g == [k \in 0..0 |-> [seen |-> seen, pending |-> pending]]
    <3>1. g = [k \in 0..0 |-> IF k = 0 THEN [seen |-> seen, pending |-> pending]
                              ELSE Accept(g[k - 1], <<position, k>>)]
      OBVIOUS
    <3> HIDE DEF g
    <3>2. Loop(g, 0)
      BY <3>1 DEF Loop
    <3> QED
      BY <2>2, <2>3, <3>2
  <2>4. CASE n # 0
    <3>1. n - 1 \in Nat /\ n - 1 \notin Stuck
      BY <2>1, <2>2, <2>4
    <3>2. PICK g : Loop(g, n - 1)
      BY <3>1
    <3>3. \E h : Loop(h, (n - 1) + 1)
      BY <3>1, <3>2, LoopGoesOn
    <3>4. (n - 1) + 1 = n
      BY <2>2
    <3> QED
      BY <2>2, <3>3, <3>4
  <2> QED
    BY <2>3, <2>4
<1> QED
  BY <1>1

LEMMA TakenLoops ==
  ASSUME recording \in Recordings, position \in 1..Batches
  PROVE  Loop(Taken, Len(Batch(position)))
<1>1. Len(Batch(position)) \in Nat
  BY BatchIsRecords
<1>2. \E g : Loop(g, Len(Batch(position)))
  BY <1>1, LoopExists
<1>3. Taken = CHOOSE g : Loop(g, Len(Batch(position)))
  BY Zenon DEF Taken, Loop
<1> QED
  BY <1>2, <1>3

\* A batch that is taken has been read.
LEMMA BatchIsRead ==
  ASSUME recording \in Recordings, position \in 1..Batches, position \notin missed,
         ReadTo(seen, pending, position, 0)
  PROVE  LET m == Len(Batch(position)) IN ReadTo(Taken[m].seen, Taken[m].pending, position, m)
<1> DEFINE m == Len(Batch(position))
           Behind == {n \in 0..m : ~ReadTo(Taken[n].seen, Taken[n].pending, position, n)}
<1>1. m \in Nat
  BY BatchIsRecords
<1>2. /\ Taken[0] = [seen |-> seen, pending |-> pending]
      /\ \A n \in 1..m : Taken[n] = Accept(Taken[n - 1], <<position, n>>)
  BY <1>1, TakenLoops, LoopSteps
<1>3. ASSUME Behind # {} PROVE FALSE
  <2>1. PICK n \in Behind : \A k \in Behind : n <= k
    <3>1. Behind \subseteq Nat
      BY <1>1
    <3> HIDE DEF Behind
    <3> QED
      BY <1>3, <3>1, LeastNatural
  <2>2. n \in 0..m /\ ~ReadTo(Taken[n].seen, Taken[n].pending, position, n)
    OBVIOUS
  <2>3. CASE n = 0
    BY <1>2, <2>2, <2>3
  <2>4. CASE n # 0
    <3>1. n \in 1..m /\ n - 1 \in 0..m /\ n - 1 \notin Behind
      BY <1>1, <2>1, <2>2, <2>4
    <3>2. ReadTo(Taken[n - 1].seen, Taken[n - 1].pending, position, n - 1)
      BY <3>1
    <3>3. n \in 1..Len(Batch(position))
      BY <3>1
    <3> HIDE DEF m
    <3>4. ReadTo(Accept(Taken[n - 1], <<position, n>>).seen,
                 Accept(Taken[n - 1], <<position, n>>).pending, position, n)
      BY <3>2, <3>3, AcceptReads
    <3> QED
      BY <1>2, <2>2, <3>1, <3>4
  <2> QED
    BY <2>3, <2>4
<1>4. m \in 0..m
  BY <1>1
<1> QED
  BY <1>3, <1>4

\* All records of a batch read is none of the next.
LEMMA NextBatch ==
  ASSUME recording \in Recordings, NEW b \in 1..Batches, NEW sn, NEW pd,
         ReadTo(sn, pd, b, Len(Batch(b)))
  PROVE  ReadTo(sn, pd, b + 1, 0)
<1>1. \A p \in Answered : /\ p[1] \in Nat /\ p[2] \in Nat
                          /\ p[2] >= 1 /\ p[2] <= Len(Batch(p[1]))
  BY PlacesArePairs, BatchIsRecords DEF Answered
<1>2. b \in Nat /\ Len(Batch(b)) \in Nat
  BY BatchIsRecords
<1>3. ASSUME NEW p \in Answered
      PROVE  p \in Read(b + 1, 0) <=> p \in Read(b, Len(Batch(b)))
  <2>1. p \in Read(b + 1, 0) <=> p[1] < b + 1 \/ (p[1] = b + 1 /\ p[2] <= 0)
    BY DEF Read
  <2>2. p \in Read(b, Len(Batch(b))) <=> p[1] < b \/ (p[1] = b /\ p[2] <= Len(Batch(b)))
    BY DEF Read
  <2>3. p[1] = b => p[2] <= Len(Batch(b))
    BY <1>1
  <2> QED
    BY <1>1, <1>2, <2>1, <2>2, <2>3
<1>4. Read(b + 1, 0) = Read(b, Len(Batch(b)))
  <2>1. Read(b + 1, 0) \subseteq Answered /\ Read(b, Len(Batch(b))) \subseteq Answered
    BY DEF Read
  <2> QED
    BY <1>3, <2>1
<1> QED
  BY <1>4 DEF ReadTo

\* Before the first batch nothing has been read; after the last, everything.
LEMMA ReadBounds ==
  ASSUME recording \in Recordings
  PROVE  Read(1, 0) = {} /\ Read(Batches + 1, 0) = Answered
<1>1. \A p \in Answered : p[1] \in 1..Batches /\ p[2] \in Nat /\ p[2] >= 1
  BY PlacesArePairs, BatchIsRecords DEF Answered
<1>2. Batches \in Nat
  BY BatchIsRecords
<1>3. Read(1, 0) = {}
  BY <1>1, <1>2 DEF Read
<1>4. \A p \in Answered : p[1] < Batches + 1
  BY <1>1, <1>2
<1> QED
  BY <1>3, <1>4 DEF Read

\* What the window alone determines.
LEMMA SameWindow ==
  ASSUME recording' = recording
  PROVE  /\ Batches' = Batches /\ Places' = Places /\ Entries' = Entries
         /\ \A p : KeyAt(p)' = KeyAt(p) /\ MappedAt(p)' = MappedAt(p) /\ TsAt(p)' = TsAt(p)
                   /\ RankAt(p)' = RankAt(p)
         /\ \A p, o : Pushed(p, o)' = Pushed(p, o)
         /\ \A p, q : Sooner(p, q)' = Sooner(p, q)
<1>1. Batches' = Batches
  BY DEF Batches
<1>2. \A b : Batch(b)' = Batch(b)
  BY DEF Batch
<1>3. Places' = Places
  BY <1>1, <1>2, Zenon DEF Places
<1>4. \A p : Raw(p)' = Raw(p)
  BY <1>2 DEF Raw
<1>5. \A p : KeyAt(p)' = KeyAt(p) /\ MappedAt(p)' = MappedAt(p) /\ RankAt(p)' = RankAt(p)
  BY <1>4, Zenon DEF KeyAt, MappedAt, RankAt
<1>6. \A p : TsAt(p)' = TsAt(p)
  BY <1>5 DEF TsAt
<1>7. \A p, o : Pushed(p, o)' = Pushed(p, o)
  BY <1>5 DEF Pushed
<1>8. Entries' = Entries
  BY <1>3, <1>7 DEF Entries
<1>9. \A p, q : Sooner(p, q)' = Sooner(p, q)
  BY <1>5, <1>6 DEF Sooner
<1> QED
  BY <1>1, <1>3, <1>5, <1>6, <1>7, <1>8, <1>9

LEMMA SameEmittable ==
  ASSUME recording' = recording, missed' = missed
  PROVE  /\ Answered' = Answered /\ Emittable' = Emittable
         /\ \A b, n : Read(b, n)' = Read(b, n)
         /\ \A sn, pd, b, n : ReadTo(sn, pd, b, n)' <=> ReadTo(sn, pd, b, n)
<1>1. Answered' = Answered
  BY SameWindow DEF Answered
<1>2. FirstCopies' = FirstCopies
  BY <1>1, SameWindow DEF FirstCopies
<1>3. Emittable' = Emittable
  BY <1>2, SameWindow DEF Emittable
<1>4. \A b, n : Read(b, n)' = Read(b, n)
  BY <1>1 DEF Read
<1>5. \A pd, E : Holds(pd, E)' <=> Holds(pd, E)
  BY SameWindow DEF Holds
<1>6. \A sn, pd, b, n : ReadTo(sn, pd, b, n)' <=> ReadTo(sn, pd, b, n)
  BY <1>3, <1>4, <1>5, SameWindow DEF ReadTo
<1> QED
  BY <1>1, <1>3, <1>4, <1>6

\* A batch that could not be fetched changes nothing of what came before it.
LEMMA SkipReads ==
  ASSUME recording \in Recordings, recording' = recording, NEW b \in 1..Batches,
         missed \subseteq 1..(b - 1), missed' = missed \cup {b},
         NEW sn, NEW pd, ReadTo(sn, pd, b, 0)
  PROVE  ReadTo(sn, pd, b + 1, 0)'
<1>1. Places' = Places /\ \A p : KeyAt(p)' = KeyAt(p) /\ MappedAt(p)' = MappedAt(p)
  BY SameWindow
<1>2. \A p \in Places : p[1] \in Nat /\ p[2] \in Nat /\ p[2] >= 1
  BY PlacesArePairs, BatchIsRecords
<1>3. b \in Nat
  BY BatchIsRecords
<1>4. ASSUME NEW p \in Places
      PROVE  /\ p[1] < b => (p \in Answered' <=> p \in Answered)
             /\ p \in Read(b, 0) <=> p \in Answered /\ p[1] < b
             /\ p \in Read(b + 1, 0)' <=> p \in Answered' /\ p[1] < b
  <2>1. p \in Answered <=> p[1] \notin missed
    BY DEF Answered
  <2>2. p \in Answered' <=> p[1] \notin missed /\ p[1] # b
    BY <1>1 DEF Answered
  <2>3. p \in Read(b, 0) <=> p \in Answered /\ (p[1] < b \/ (p[1] = b /\ p[2] <= 0))
    BY DEF Read
  <2>4. p \in Read(b + 1, 0)' <=> p \in Answered' /\ (p[1] < b + 1 \/ (p[1] = b + 1 /\ p[2] <= 0))
    BY DEF Read
  <2> QED
    BY <1>2, <1>3, <2>1, <2>2, <2>3, <2>4
<1>5. Read(b, 0) \subseteq Places /\ Read(b + 1, 0)' \subseteq Places
  BY <1>1 DEF Read, Answered
<1>6. Read(b + 1, 0)' = Read(b, 0)
  BY <1>4, <1>5
<1>7. ASSUME NEW p \in Read(b, 0) PROVE p \in FirstCopies' <=> p \in FirstCopies
  <2>1. p \in Places /\ p[1] < b /\ p \in Answered /\ p \in Answered'
    BY <1>4, <1>5
  <2>2. \A q \in Places : Earlier(q, p) => q[1] < b
    BY <1>2, <1>3, <2>1 DEF Earlier
  <2>3. Answered \subseteq Places /\ Answered' \subseteq Places
    BY <1>1 DEF Answered
  <2>4. \A q \in Places : Earlier(q, p) => (q \in Answered' <=> q \in Answered)
    BY <1>4, <2>2
  <2>5. p \in FirstCopies <=> \A q \in Answered : Earlier(q, p) => KeyAt(q) # KeyAt(p)
    BY <2>1 DEF FirstCopies
  <2>6. p \in FirstCopies' <=> \A q \in Answered' : Earlier(q, p) => KeyAt(q)' # KeyAt(p)'
    BY <2>1 DEF FirstCopies
  <2> QED
    BY <1>1, <2>3, <2>4, <2>5, <2>6
<1>8. Emittable' \cap Read(b + 1, 0)' = Emittable \cap Read(b, 0)
  BY <1>1, <1>6, <1>7 DEF Emittable
<1>9. sn = {KeyAt(p) : p \in Read(b, 0)} /\ Holds(pd, Emittable \cap Read(b, 0))
  BY DEF ReadTo
<1>10. sn = {KeyAt(p)' : p \in Read(b + 1, 0)'}
  BY <1>1, <1>6, <1>9
<1>11. Holds(pd, Emittable \cap Read(b + 1, 0))'
  BY <1>8, <1>9, SameWindow DEF Holds
<1> QED
  BY <1>10, <1>11 DEF ReadTo

(***************************************************************************)
(* The sort.                                                               *)
(***************************************************************************)
\* Entries waiting to be emitted say what their places do.
Waiting(pd) ==
  /\ pd \in Seq(Entries)
  /\ \A k \in 1..Len(pd) :
       /\ pd[k].from \in Emittable
       /\ pd[k].tsMs = TsAt(pd[k].from) /\ pd[k].channelRank = RankAt(pd[k].from)
       /\ pd[k].payload = MappedAt(pd[k].from).value

Ascending(s) == \A j, k \in 1..Len(s) : j < k => Sooner(s[j].from, s[k].from)

LEMMA HeldIsWaiting ==
  ASSUME NEW pd, Holds(pd, Emittable)
  PROVE  Waiting(pd)
<1>1. ASSUME NEW k \in 1..Len(pd)
      PROVE  /\ pd[k].from \in Emittable
             /\ pd[k].tsMs = TsAt(pd[k].from) /\ pd[k].channelRank = RankAt(pd[k].from)
             /\ pd[k].payload = MappedAt(pd[k].from).value
  <2> DEFINE p == pd[k].from
  <2>1. p \in Emittable /\ pd[k] = Pushed(p, k - 1)
    BY DEF Holds
  <2> HIDE DEF p
  <2>2. /\ pd[k].tsMs = TsAt(p) /\ pd[k].channelRank = RankAt(p)
        /\ pd[k].payload = MappedAt(p).value
    BY <2>1 DEF Pushed, TsAt
  <2> QED
    BY <2>1, <2>2 DEF p
<1> QED
  BY <1>1 DEF Waiting, Holds

LEMMA PrecedesIsSooner ==
  ASSUME recording \in Recordings, Holds(pending, Emittable)
  PROVE  \A j, k \in 1..Len(pending) :
           j # k => (Precedes(j, k) <=> Sooner(pending[j].from, pending[k].from))
<1>1. pending \in Seq(Entries) /\ Len(pending) \in Nat
  BY DEF Holds
<1>2. Waiting(pending)
  BY HeldIsWaiting
<1>3. SUFFICES ASSUME NEW j \in 1..Len(pending), NEW k \in 1..Len(pending), j # k
               PROVE  Precedes(j, k) <=> Sooner(pending[j].from, pending[k].from)
  OBVIOUS
<1> DEFINE p == pending[j].from
           q == pending[k].from
<1>4. p \in Emittable /\ q \in Emittable /\ p \in Places /\ q \in Places
  BY <1>2, EmittableFacts DEF Waiting
<1>5. /\ TsAt(p) \in Nat /\ TsAt(q) \in Nat /\ RankAt(p) \in Nat /\ RankAt(q) \in Nat
  BY <1>4, EmittableFacts
<1>6. /\ pending[j].tsMs = TsAt(p) /\ pending[k].tsMs = TsAt(q)
      /\ pending[j].channelRank = RankAt(p) /\ pending[k].channelRank = RankAt(q)
  BY <1>2 DEF Waiting
<1>7. pending[j].order = j - 1 /\ pending[k].order = k - 1
  <2>1. pending[j] = Pushed(p, j - 1) /\ pending[k] = Pushed(q, k - 1)
    BY DEF Holds
  <2>2. Pushed(p, j - 1).order = j - 1 /\ Pushed(q, k - 1).order = k - 1
    BY DEF Pushed
  <2> HIDE DEF p, q
  <2> QED
    BY <2>1, <2>2
<1>8. (j < k => Earlier(p, q)) /\ (k < j => Earlier(q, p))
  BY DEF Holds
<1>9. Earlier(p, q) => ~Earlier(q, p)
  BY <1>4, EarlierIsOrder
<1> HIDE DEF p, q
<1>10. j \in Nat /\ k \in Nat
  BY <1>1
<1>11. Before(pending[j], pending[k]) <=> Sooner(p, q)
  BY <1>3, <1>5, <1>6, <1>7, <1>8, <1>9, <1>10 DEF Before, Sooner
<1>12. Before(pending[k], pending[j]) <=> Sooner(q, p)
  BY <1>3, <1>5, <1>6, <1>7, <1>8, <1>9, <1>10 DEF Before, Sooner
<1>13. Sooner(p, q) \/ Sooner(q, p)
  BY <1>3, <1>5, <1>8, <1>10 DEF Sooner
<1> QED
  BY <1>11, <1>12, <1>13 DEF Precedes, p, q

\* The sort keeps every entry and puts the sooner first.
LEMMA SortAscends ==
  ASSUME recording \in Recordings, Holds(pending, Emittable)
  PROVE  /\ Waiting(Sorted) /\ Ascending(Sorted)
         /\ \A p \in Emittable : \E n \in 1..Len(Sorted) : Sorted[n].from = p
<1> DEFINE D == DOMAIN pending
           R == {x \in D \X D : Precedes(x[1], x[2])}
           N == Len(pending)
           from(k) == pending[k].from
           slot(n) == CHOOSE k \in D : Cardinality({j \in D : Precedes(j, k)}) = n - 1
<1>1. pending \in Seq(Entries) /\ N \in Nat /\ D = 1..N
  BY DEF Holds
<1>2. IsFiniteSet(D) /\ Cardinality(D) = N
  <2>1. IsFiniteSet(1..N) /\ Cardinality(1..N) = IF 1 > N THEN 0 ELSE N - 1 + 1
    BY <1>1, FS_Interval
  <2> QED
    BY <1>1, <2>1
<1>3. Waiting(pending)
  BY HeldIsWaiting
<1>4. \A k \in D : from(k) \in Emittable /\ from(k) \in Places
  BY <1>1, <1>3, EmittableFacts DEF Waiting
<1>5. \A j, k \in D : j # k => (Precedes(j, k) <=> Sooner(from(j), from(k)))
  BY <1>1, PrecedesIsSooner
<1>6. ASSUME NEW j \in D PROVE ~Precedes(j, j)
  <2>1. j \in Nat /\ pending[j].tsMs \in Nat /\ pending[j].channelRank \in Nat
    BY <1>1, <1>3, <1>4, EmittableFacts DEF Waiting
  <2>2. pending[j].order = j - 1
    <3>1. pending[j] = Pushed(from(j), j - 1) /\ Pushed(from(j), j - 1).order = j - 1
      BY <1>1 DEF Holds, Pushed
    <3> HIDE DEF from
    <3> QED
      BY <3>1
  <2> QED
    BY <2>1, <2>2 DEF Precedes, Before
<1>7. \A j, k \in D : j # k => from(j) # from(k)
  <2> SUFFICES ASSUME NEW j \in D, NEW k \in D, j # k PROVE from(j) # from(k)
    OBVIOUS
  <2>1. j < k \/ k < j
    BY <1>1
  <2>2. Earlier(from(j), from(k)) \/ Earlier(from(k), from(j))
    BY <1>1, <2>1 DEF Holds
  <2> QED
    BY <1>4, <2>2, EarlierIsOrder
<1>8. StrictTotalOrder(R, D)
  <2> HIDE DEF D, from
  <2>1. \A j, k \in D : <<j, k>> \in R <=> Precedes(j, k)
    OBVIOUS
  <2> HIDE DEF R
  <2>2. \A j \in D : <<j, j>> \notin R
    BY <1>6, <2>1
  <2>3. ASSUME NEW i \in D, NEW j \in D, NEW k \in D, <<i, j>> \in R, <<j, k>> \in R
        PROVE  <<i, k>> \in R
    <3>1. i # j /\ j # k
      BY <2>2, <2>3
    <3>2. Sooner(from(i), from(j)) /\ Sooner(from(j), from(k))
      BY <1>5, <2>1, <2>3, <3>1
    <3>3. Sooner(from(i), from(k))
      BY <1>4, <3>2, SoonerIsOrder
    <3>4. i # k
      BY <1>4, <3>3, SoonerIsOrder
    <3> QED
      BY <1>5, <2>1, <3>3, <3>4
  <2>4. ASSUME NEW j \in D, NEW k \in D PROVE j = k \/ <<j, k>> \in R \/ <<k, j>> \in R
    <3>1. CASE j # k
      <4>1. Sooner(from(j), from(k)) \/ Sooner(from(k), from(j))
        BY <1>4, <1>7, <3>1, SoonerIsOrder
      <4> QED
        BY <1>5, <2>1, <3>1, <4>1
    <3> QED
      BY <3>1
  <2> QED
    BY <2>2, <2>3, <2>4, Zenon DEF StrictTotalOrder
<1>9. \A k \in D : Cardinality({j \in D : Precedes(j, k)}) = RankIn(R, D, k)
  <2>1. \A k \in D : {j \in D : Precedes(j, k)} = {j \in D : <<j, k>> \in R}
    <3> HIDE DEF D
    <3> QED
      OBVIOUS
  <2> QED
    BY <2>1 DEF RankIn
<1>10. \A n \in 1..N : \E k \in D : RankIn(R, D, k) = n - 1
  <2> HIDE DEF D, R
  <2> QED
    BY <1>2, <1>8, RankIsOnto
<1>11. ASSUME NEW n \in 1..N PROVE slot(n) \in D /\ RankIn(R, D, slot(n)) = n - 1
  <2>1. \E k \in D : Cardinality({j \in D : Precedes(j, k)}) = n - 1
    <3> HIDE DEF D, R
    <3> QED
      BY <1>9, <1>10
  <2>2. slot(n) \in D /\ Cardinality({j \in D : Precedes(j, slot(n))}) = n - 1
    <3> HIDE DEF D
    <3> QED
      BY <2>1, Zenon
  <2> QED
    BY <1>9, <2>2, Zenon
<1>12. Sorted = [n \in 1..N |-> pending[slot(n)]]
  BY DEF Sorted
<1> HIDE DEF slot, D, R
<1>13. Sorted \in Seq(Entries) /\ Len(Sorted) = N /\ \A n \in 1..N : Sorted[n] = pending[slot(n)]
  <2>1. \A n \in 1..N : pending[slot(n)] \in Entries
    BY <1>1, <1>11
  <2>2. Sorted \in [1..N -> Entries]
    BY <1>12, <2>1
  <2> QED
    BY <1>1, <1>12, <2>2
<1>14. Waiting(Sorted)
  <2>1. \A n \in 1..N : slot(n) \in 1..Len(pending)
    BY <1>1, <1>11
  <2> QED
    BY <1>3, <1>13, <2>1 DEF Waiting
<1>15. ASSUME NEW m \in 1..N, NEW n \in 1..N, m < n
       PROVE  Sooner(Sorted[m].from, Sorted[n].from)
  <2>1. slot(m) \in D /\ slot(n) \in D /\ RankIn(R, D, slot(m)) = m - 1 /\ RankIn(R, D, slot(n)) = n - 1
    BY <1>11
  <2>2. m - 1 < n - 1 /\ m - 1 # n - 1 /\ ~(n - 1 < m - 1)
    BY <1>1, <1>15
  <2>3. slot(m) # slot(n) /\ <<slot(n), slot(m)>> \notin R
    BY <1>2, <1>8, <2>1, <2>2, RankIsOrder
  <2>4. <<slot(m), slot(n)>> \in R
    BY <1>8, <2>1, <2>3 DEF StrictTotalOrder
  <2>5. Precedes(slot(m), slot(n))
    BY <2>4 DEF R
  <2> QED
    BY <1>5, <1>13, <2>1, <2>3, <2>5
<1>16. ASSUME NEW p \in Emittable PROVE \E n \in 1..N : Sorted[n].from = p
  <2>1. PICK k \in D : from(k) = p
    BY <1>1 DEF Holds
  <2>2. RankIn(R, D, k) \in 0..(N - 1)
    BY <1>2, <1>8, RankIsOrder
  <2> DEFINE n == RankIn(R, D, k) + 1
  <2>3. n \in 1..N /\ RankIn(R, D, k) = n - 1
    BY <1>1, <2>2
  <2> HIDE DEF n
  <2>4. slot(n) = k
    BY <1>2, <1>8, <1>11, <2>3, RankIsOrder
  <2> QED
    BY <1>13, <2>1, <2>3, <2>4
<1> QED
  BY <1>13, <1>14, <1>15, <1>16 DEF Ascending

(***************************************************************************)
(* The inductive invariant.  While the window is fetched, what is pending  *)
(* is what has been read; from the sort on, what has been emitted and what *)
(* is pending are the emittable records, in one order.                     *)
(***************************************************************************)
LaterOf(p) == IF TsAt(p) > startMs THEN TsAt(p) ELSE startMs

Events == {[seq |-> i, receivedAtMs |-> t, channelRank |-> RankAt(p),
            payload |-> MappedAt(p).value, from |-> p] : i \in Nat, t \in Nat, p \in Places}

\* What has come out says what its places do, at the time of its event.
Out(s) ==
  /\ s \in Seq(Events)
  /\ \A i \in 1..Len(s) :
       /\ s[i].from \in Emittable
       /\ s[i].channelRank = RankAt(s[i].from) /\ s[i].payload = MappedAt(s[i].from).value
       /\ s[i].receivedAtMs = LaterOf(s[i].from)

WindowOK ==
  /\ recording \in Recordings /\ position \in 1..(Batches + 1)
  /\ missed \subseteq 1..(position - 1) /\ gaps = Cardinality(missed)

Fetching == phase \in {"fetching", "awaiting"}

FetchedSoFar ==
  /\ ReadTo(seen, pending, position, 0)
  /\ emitted = <<>> /\ clockMs = startMs
  /\ phase = "awaiting" => position \in 1..Batches

EmittedSoFar ==
  /\ Waiting(pending) /\ Ascending(pending)
  /\ Out(emitted) /\ Ascending(emitted)
  /\ \A i \in 1..Len(emitted), k \in 1..Len(pending) : Sooner(emitted[i].from, pending[k].from)
  /\ \A p \in Emittable : \/ \E i \in 1..Len(emitted) : emitted[i].from = p
                          \/ \E k \in 1..Len(pending) : pending[k].from = p
  /\ clockMs = IF emitted = <<>> THEN startMs ELSE LaterOf(emitted[Len(emitted)].from)

Result == [eventsEmitted |-> Len(emitted), gapsDetected |-> gaps, reconnects |-> 0]

Ended ==
  IF phase = "over" THEN done = Some(Result) /\ (stopped \/ pending = <<>>) ELSE done = None

ReplayInv ==
  /\ WindowOK
  /\ Fetching => FetchedSoFar
  /\ ~Fetching => EmittedSoFar
  /\ Ended

LEMMA NoneIsNotSome == \A x : Some(x) # None
BY DEF Some, None

LEMMA ReplayInit ==
  ASSUME Init
  PROVE  ReplayInv
<1>1. recording \in Recordings /\ Batches \in Nat
  BY BatchIsRecords DEF Init
<1>2. WindowOK
  <2>1. missed \subseteq 1..(position - 1) /\ gaps = Cardinality(missed)
    BY FS_EmptySet DEF Init
  <2> QED
    BY <1>1, <2>1 DEF WindowOK, Init
<1>3. FetchedSoFar
  <2>1. Read(1, 0) = {}
    BY <1>1, ReadBounds
  <2>2. Holds(pending, {})
    BY DEF Holds, Init
  <2>3. ReadTo(seen, pending, position, 0)
    BY <2>1, <2>2 DEF ReadTo, Init
  <2> QED
    BY <2>3 DEF FetchedSoFar, Init
<1>4. Ended /\ Fetching
  BY DEF Ended, Init, Fetching
<1> QED
  BY <1>2, <1>3, <1>4 DEF ReplayInv

\* A step that leaves the window as it is.
LEMMA WindowKept ==
  ASSUME WindowOK, UNCHANGED <<recording, position, missed, gaps>>
  PROVE  WindowOK'
BY SameWindow DEF WindowOK

\* A step of something else.
LEMMA ReplayStutter ==
  ASSUME ReplayInv,
         UNCHANGED <<recording, phase, fetch_vars, clockMs, emitted, done>>, stopped => stopped'
  PROVE  ReplayInv'
<1>1. /\ recording' = recording /\ phase' = phase /\ seen' = seen /\ pending' = pending
      /\ gaps' = gaps /\ missed' = missed /\ position' = position
      /\ clockMs' = clockMs /\ emitted' = emitted /\ done' = done
  BY DEF fetch_vars
<1>2. WindowOK'
  BY <1>1, WindowKept DEF ReplayInv
<1>3. Fetching' <=> Fetching
  BY <1>1 DEF Fetching
<1>4. Batches' = Batches /\ Emittable' = Emittable /\ Entries' = Entries
      /\ \A sn, pd, b, n : ReadTo(sn, pd, b, n)' <=> ReadTo(sn, pd, b, n)
  BY <1>1, SameWindow, SameEmittable
<1>5. /\ \A p : TsAt(p)' = TsAt(p) /\ RankAt(p)' = RankAt(p) /\ MappedAt(p)' = MappedAt(p)
      /\ \A p, q : Sooner(p, q)' = Sooner(p, q)
  BY <1>1, SameWindow
<1>6. FetchedSoFar' <=> FetchedSoFar
  BY <1>1, <1>4 DEF FetchedSoFar
<1>7. Events' = Events
  BY <1>1, <1>5, SameWindow DEF Events
<1>8. \A p : LaterOf(p)' = LaterOf(p)
  BY <1>5 DEF LaterOf
<1>9. EmittedSoFar => EmittedSoFar'
  <2>1. Waiting(pending)' <=> Waiting(pending)
    BY <1>1, <1>4, <1>5 DEF Waiting
  <2>2. Out(emitted)' <=> Out(emitted)
    BY <1>1, <1>4, <1>5, <1>7, <1>8 DEF Out
  <2>3. (Ascending(pending)' <=> Ascending(pending)) /\ (Ascending(emitted)' <=> Ascending(emitted))
    BY <1>1, <1>5 DEF Ascending
  <2> QED
    BY <1>1, <1>4, <1>5, <1>8, <2>1, <2>2, <2>3 DEF EmittedSoFar
<1>10. Ended'
  BY <1>1 DEF Ended, ReplayInv, Result
<1> QED
  BY <1>2, <1>3, <1>6, <1>9, <1>10 DEF ReplayInv

\* What both ways to take or skip a batch share.
LEMMA BatchDone ==
  ASSUME ReplayInv, Fetching, position \in 1..Batches, phase' = "fetching",
         UNCHANGED <<recording, stopped, clockMs, emitted, done>>,
         position' = position + 1,
         \/ TakeBatch /\ missed' = missed
         \/ SkipBatch /\ missed' = missed \cup {position}
  PROVE  ReplayInv'
<1>1. WindowOK /\ ReadTo(seen, pending, position, 0) /\ emitted = <<>> /\ clockMs = startMs
  BY DEF ReplayInv, FetchedSoFar
<1>2. recording \in Recordings /\ position \in Nat /\ missed \subseteq 1..(position - 1)
      /\ position \notin missed /\ gaps = Cardinality(missed) /\ Batches \in Nat
  BY <1>1, BatchIsRecords DEF WindowOK
<1>3. Batches' = Batches
  BY SameWindow
<1>4. CASE TakeBatch /\ missed' = missed
  <2>1. ReadTo(seen', pending', position, Len(Batch(position)))
    BY <1>1, <1>2, <1>4, BatchIsRead DEF TakeBatch
  <2>2. ReadTo(seen', pending', position + 1, 0)
    BY <1>2, <2>1, NextBatch
  <2>3. (ReadTo(seen, pending, position, 0))'
    <3>1. \A sn, pd, b, n : ReadTo(sn, pd, b, n)' <=> ReadTo(sn, pd, b, n)
      BY <1>4, SameEmittable
    <3> QED
      BY <2>2, <3>1
  <2>4. WindowOK'
    BY <1>2, <1>3, <1>4 DEF WindowOK, TakeBatch
  <2> QED
    BY <1>1, <2>3, <2>4 DEF ReplayInv, FetchedSoFar, Fetching, Ended
<1>5. CASE SkipBatch /\ missed' = missed \cup {position}
  <2>1. seen' = seen /\ pending' = pending /\ gaps' = gaps + 1
    BY <1>5 DEF SkipBatch
  <2>2. (ReadTo(seen, pending, position, 0))'
    BY <1>1, <1>2, <1>5, <2>1, SkipReads
  <2>3. WindowOK'
    <3>1. IsFiniteSet(missed)
      <4>1. 1 \in Int /\ position - 1 \in Int
        BY <1>2
      <4>2. IsFiniteSet(1..(position - 1))
        BY <4>1, FS_Interval
      <4> QED
        BY <1>2, <4>2, FS_Subset
    <3>2. Cardinality(missed') = Cardinality(missed) + 1
      BY <1>2, <1>5, <3>1, FS_AddElement
    <3>3. missed' \subseteq 1..(position' - 1)
      BY <1>2, <1>5
    <3> QED
      BY <1>2, <1>3, <2>1, <3>2, <3>3 DEF WindowOK
  <2> QED
    BY <1>1, <2>2, <2>3 DEF ReplayInv, FetchedSoFar, Fetching, Ended
<1> QED
  BY <1>4, <1>5

\* The sort puts what has been read in the order of emission.
LEMMA SortStep ==
  ASSUME ReplayInv, Sort
  PROVE  ReplayInv'
<1>1. /\ phase = "fetching" /\ position > Batches /\ pending' = Sorted /\ phase' = "emitting"
      /\ recording' = recording /\ missed' = missed /\ gaps' = gaps /\ position' = position
      /\ emitted' = emitted /\ clockMs' = clockMs /\ done' = done
  BY DEF Sort, Advance
<1>2. WindowOK /\ ReadTo(seen, pending, position, 0) /\ emitted = <<>> /\ clockMs = startMs
  BY <1>1 DEF ReplayInv, FetchedSoFar, Fetching
<1>3. recording \in Recordings /\ position = Batches + 1
  BY <1>1, <1>2, BatchIsRecords DEF WindowOK
<1>4. Holds(pending, Emittable)
  <2>1. Emittable \subseteq Answered
    BY DEF Emittable, FirstCopies
  <2>2. Emittable \cap Read(position, 0) = Emittable
    BY <1>3, <2>1, ReadBounds
  <2> QED
    BY <1>2, <2>2 DEF ReadTo
<1>5. /\ Waiting(Sorted) /\ Ascending(Sorted)
      /\ \A p \in Emittable : \E n \in 1..Len(Sorted) : Sorted[n].from = p
  BY <1>3, <1>4, SortAscends
<1> DEFINE sorted == Sorted
<1> HIDE DEF sorted
<1>6. /\ Emittable' = Emittable /\ Entries' = Entries
      /\ \A p : TsAt(p)' = TsAt(p) /\ RankAt(p)' = RankAt(p) /\ MappedAt(p)' = MappedAt(p)
      /\ \A p, q : Sooner(p, q)' = Sooner(p, q)
  BY <1>1, SameWindow, SameEmittable
<1>7. Waiting(pending)' /\ Ascending(pending)'
  BY <1>1, <1>5, <1>6 DEF Waiting, Ascending
<1>8. Out(emitted)' /\ Ascending(emitted)'
  BY <1>1, <1>2 DEF Out, Ascending
<1>9. Len(emitted') = 0
  BY <1>1, <1>2
<1>10. EmittedSoFar'
  <2>1. \A p \in Emittable' : \E k \in 1..Len(pending') : pending'[k].from = p
    BY <1>1, <1>5, <1>6
  <2> QED
    BY <1>1, <1>2, <1>7, <1>8, <1>9, <2>1 DEF EmittedSoFar
<1>11. WindowOK'
  BY <1>1, <1>2, WindowKept
<1>12. ~Fetching' /\ Ended'
  BY <1>1 DEF Fetching, Ended, ReplayInv
<1> QED
  BY <1>10, <1>11, <1>12 DEF ReplayInv

\* The time of an event is no earlier than any that came out before it.
LEMMA ClockAgrees ==
  ASSUME recording \in Recordings, EmittedSoFar, pending # <<>>,
         setMs(Head(pending).tsMs)
  PROVE  clockMs' = LaterOf(pending[1].from)
<1>1. pending \in Seq(Entries) /\ 1 \in 1..Len(pending) /\ Head(pending) = pending[1]
  BY DEF EmittedSoFar, Waiting
<1> DEFINE p == pending[1].from
<1>2. p \in Emittable /\ pending[1].tsMs = TsAt(p) /\ TsAt(p) \in Nat
  BY <1>1, EmittableFacts DEF EmittedSoFar, Waiting
<1>3. clockMs' = IF TsAt(p) > clockMs THEN TsAt(p) ELSE clockMs
  BY <1>1, <1>2 DEF setMs
<1>4. startMs \in Nat
  BY ReplayAssumption
<1>5. CASE emitted = <<>>
  BY <1>3, <1>5 DEF EmittedSoFar, LaterOf
<1>6. CASE emitted # <<>>
  <2> DEFINE q == emitted[Len(emitted)].from
  <2>1. emitted \in Seq(Events) /\ Len(emitted) \in 1..Len(emitted)
    BY <1>6 DEF EmittedSoFar, Out
  <2>2. q \in Emittable /\ Sooner(q, p)
    BY <1>1, <2>1 DEF EmittedSoFar, Out
  <2>3. TsAt(q) \in Nat /\ TsAt(q) <= TsAt(p)
    BY <1>2, <2>2, EmittableFacts, SoonerIsOrder
  <2>4. clockMs = LaterOf(q)
    BY <1>6 DEF EmittedSoFar
  <2> HIDE DEF p, q
  <2> QED
    BY <1>2, <1>3, <1>4, <2>3, <2>4 DEF LaterOf, p
<1> QED
  BY <1>5, <1>6

\* The head of what is pending comes out.
LEMMA EmitStep ==
  ASSUME ReplayInv, Emit
  PROVE  ReplayInv'
<1>1. /\ phase = "emitting" /\ pending # <<>> /\ pending' = Tail(pending) /\ phase' = phase
      /\ recording' = recording /\ missed' = missed /\ gaps' = gaps /\ position' = position
      /\ done' = done /\ setMs(Head(pending).tsMs)
      /\ emitted' = Append(emitted, [seq |-> Len(emitted), receivedAtMs |-> clockMs',
                                     channelRank |-> Head(pending).channelRank,
                                     payload |-> Head(pending).payload,
                                     from |-> Head(pending).from])
  BY DEF Emit
<1>2. WindowOK /\ EmittedSoFar /\ done = None /\ recording \in Recordings
  BY <1>1 DEF ReplayInv, Fetching, Ended, WindowOK
<1>3. /\ pending \in Seq(Entries) /\ Len(pending) \in Nat /\ 1 \in 1..Len(pending)
      /\ Head(pending) = pending[1] /\ emitted \in Seq(Events) /\ Len(emitted) \in Nat
  BY <1>1, <1>2 DEF EmittedSoFar, Waiting, Out
<1> DEFINE p == pending[1].from
           e == [seq |-> Len(emitted), receivedAtMs |-> clockMs',
                 channelRank |-> Head(pending).channelRank,
                 payload |-> Head(pending).payload, from |-> Head(pending).from]
<1>4. /\ p \in Emittable /\ p \in Places /\ TsAt(p) \in Nat
      /\ pending[1].channelRank = RankAt(p) /\ pending[1].payload = MappedAt(p).value
  BY <1>2, <1>3, EmittableFacts DEF EmittedSoFar, Waiting
<1>5. clockMs' = LaterOf(p) /\ LaterOf(p) \in Nat
  BY <1>1, <1>2, <1>4, ClockAgrees, ReplayAssumption DEF LaterOf
<1>6. /\ e = [seq |-> Len(emitted), receivedAtMs |-> LaterOf(p), channelRank |-> RankAt(p),
              payload |-> MappedAt(p).value, from |-> p]
  BY <1>3, <1>4, <1>5
<1>7. /\ e \in Events /\ e.from = p /\ e.channelRank = RankAt(p)
      /\ e.payload = MappedAt(p).value /\ e.receivedAtMs = LaterOf(p)
  <2> HIDE DEF p, e
  <2> QED
    BY <1>3, <1>4, <1>5, <1>6 DEF Events
<1>8. emitted' = Append(emitted, e)
  BY <1>1
<1> HIDE DEF p, e
<1>9. /\ emitted' \in Seq(Events) /\ Len(emitted') = Len(emitted) + 1
      /\ emitted'[Len(emitted) + 1] = e
      /\ \A i \in 1..Len(emitted) : emitted'[i] = emitted[i]
  BY <1>3, <1>7, <1>8
<1>10. /\ pending' \in Seq(Entries) /\ Len(pending') = Len(pending) - 1
       /\ \A k \in 1..Len(pending') : pending'[k] = pending[k + 1] /\ k + 1 \in 1..Len(pending)
  BY <1>1, <1>3
<1>11. /\ Emittable' = Emittable /\ Entries' = Entries /\ Places' = Places
       /\ \A q : TsAt(q)' = TsAt(q) /\ RankAt(q)' = RankAt(q) /\ MappedAt(q)' = MappedAt(q)
       /\ \A q, r : Sooner(q, r)' = Sooner(q, r)
  BY <1>1, SameWindow, SameEmittable
<1>12. Events' = Events /\ \A q : LaterOf(q)' = LaterOf(q)
  BY <1>11 DEF Events, LaterOf
<1>13. \A k \in 1..Len(pending') : Sooner(p, pending'[k].from)
  <2>1. \A k \in 1..Len(pending') : k + 1 \in 1..Len(pending) /\ 1 < k + 1
    BY <1>3, <1>10
  <2> QED
    BY <1>2, <1>3, <1>10, <2>1 DEF EmittedSoFar, Ascending, p
<1>14. \A i \in 1..Len(emitted) : Sooner(emitted[i].from, p)
  BY <1>2, <1>3 DEF EmittedSoFar, p
<1>15. Waiting(pending)'
  <2>1. ASSUME NEW k \in 1..Len(pending')
        PROVE  LET f == pending'[k] IN
               /\ f.from \in Emittable /\ f.tsMs = TsAt(f.from)
               /\ f.channelRank = RankAt(f.from) /\ f.payload = MappedAt(f.from).value
    <3>1. k + 1 \in 1..Len(pending) /\ pending'[k] = pending[k + 1]
      BY <1>10
    <3> QED
      BY <1>2, <3>1 DEF EmittedSoFar, Waiting
  <2> QED
    BY <1>10, <1>11, <2>1 DEF Waiting
<1>16. Ascending(pending)'
  <2>1. \A j, k \in 1..Len(pending') : j < k => j + 1 < k + 1
    BY <1>3, <1>10
  <2> QED
    BY <1>2, <1>10, <1>11, <2>1 DEF EmittedSoFar, Ascending
<1>17. \A i \in 1..Len(emitted') : i \in 1..Len(emitted) \/ i = Len(emitted) + 1
  BY <1>3, <1>9
<1>18. Out(emitted)'
  BY <1>2, <1>4, <1>7, <1>9, <1>11, <1>12, <1>17 DEF EmittedSoFar, Out
<1>19. Ascending(emitted)'
  <2>1. ASSUME NEW i \in 1..Len(emitted'), NEW j \in 1..Len(emitted'), i < j
        PROVE  Sooner(emitted'[i].from, emitted'[j].from)
    <3>1. i \in 1..Len(emitted)
      BY <1>3, <1>9, <2>1
    <3>2. CASE j \in 1..Len(emitted)
      BY <1>2, <1>9, <2>1, <3>1, <3>2 DEF EmittedSoFar, Ascending
    <3>3. CASE j = Len(emitted) + 1
      BY <1>7, <1>9, <1>14, <3>1, <3>3
    <3> QED
      BY <1>17, <3>2, <3>3
  <2> QED
    BY <1>11, <2>1 DEF Ascending
<1>20. \A i \in 1..Len(emitted'), k \in 1..Len(pending') :
         Sooner(emitted'[i].from, pending'[k].from)
  BY <1>2, <1>7, <1>9, <1>10, <1>13, <1>17 DEF EmittedSoFar
<1>21. ASSUME NEW q \in Emittable
       PROVE  \/ \E i \in 1..Len(emitted') : emitted'[i].from = q
              \/ \E k \in 1..Len(pending') : pending'[k].from = q
  <2>1. CASE \E i \in 1..Len(emitted) : emitted[i].from = q
    <3>1. PICK i \in 1..Len(emitted) : emitted[i].from = q
      BY <2>1
    <3>2. i \in 1..Len(emitted')
      BY <1>3, <1>9
    <3> QED
      BY <1>9, <3>1, <3>2
  <2>2. CASE \E k \in 1..Len(pending) : pending[k].from = q
    <3>1. PICK k \in 1..Len(pending) : pending[k].from = q
      BY <2>2
    <3>2. CASE k = 1
      <4>1. Len(emitted) + 1 \in 1..Len(emitted') /\ emitted'[Len(emitted) + 1].from = q
        BY <1>3, <1>7, <1>9, <3>1, <3>2 DEF p
      <4> QED
        BY <4>1
    <3>3. CASE k # 1
      <4>1. k - 1 \in 1..Len(pending') /\ (k - 1) + 1 = k
        BY <1>3, <1>10, <3>3
      <4> QED
        BY <1>10, <3>1, <4>1
    <3> QED
      BY <3>2, <3>3
  <2> QED
    BY <1>2, <2>1, <2>2 DEF EmittedSoFar
<1>22. emitted' # <<>> /\ clockMs' = LaterOf(emitted'[Len(emitted')].from)
  BY <1>3, <1>5, <1>7, <1>9
<1>23. EmittedSoFar'
  BY <1>11, <1>12, <1>15, <1>16, <1>18, <1>19, <1>20, <1>21, <1>22 DEF EmittedSoFar
<1>24. WindowOK' /\ ~Fetching' /\ Ended'
  BY <1>1, <1>2, WindowKept DEF Fetching, Ended
<1> QED
  BY <1>23, <1>24 DEF ReplayInv

\* The feed ends, or the consumer throws: nothing of the window changes.
LEMMA PhaseStep ==
  ASSUME ReplayInv, ~Fetching, ~Fetching',
         UNCHANGED <<recording, fetch_vars, clockMs, emitted>>, Ended'
  PROVE  ReplayInv'
<1>1. /\ recording' = recording /\ pending' = pending
      /\ gaps' = gaps /\ missed' = missed /\ position' = position
      /\ clockMs' = clockMs /\ emitted' = emitted
  BY DEF fetch_vars
<1>2. WindowOK'
  BY <1>1, WindowKept DEF ReplayInv
<1>3. /\ Emittable' = Emittable /\ Entries' = Entries /\ Places' = Places
      /\ \A p : TsAt(p)' = TsAt(p) /\ RankAt(p)' = RankAt(p) /\ MappedAt(p)' = MappedAt(p)
      /\ \A p, q : Sooner(p, q)' = Sooner(p, q)
  BY <1>1, SameWindow, SameEmittable
<1>4. Events' = Events /\ \A p : LaterOf(p)' = LaterOf(p)
  BY <1>3 DEF Events, LaterOf
<1>5. EmittedSoFar
  BY DEF ReplayInv
<1>6. Waiting(pending)' /\ Out(emitted)' /\ Ascending(pending)' /\ Ascending(emitted)'
  <2>1. Waiting(pending)'
    BY <1>1, <1>3, <1>5 DEF EmittedSoFar, Waiting
  <2>2. Out(emitted)'
    BY <1>1, <1>3, <1>4, <1>5 DEF EmittedSoFar, Out
  <2>3. Ascending(pending)' /\ Ascending(emitted)'
    BY <1>1, <1>3, <1>5 DEF EmittedSoFar, Ascending
  <2> QED
    BY <2>1, <2>2, <2>3
<1>7. EmittedSoFar'
  BY <1>1, <1>3, <1>4, <1>5, <1>6 DEF EmittedSoFar
<1> QED
  BY <1>2, <1>7 DEF ReplayInv

LEMMA ReplayStep ==
  ASSUME ReplayInv, [Next]_vars
  PROVE  ReplayInv'
<1>1. CASE FetchRecorded
  <2>1. Fetching /\ position \in 1..Batches
    BY <1>1, BatchIsRecords DEF FetchRecorded, Fetching, ReplayInv, WindowOK
  <2> QED
    BY <1>1, <2>1, BatchDone DEF FetchRecorded, Advance
<1>2. CASE FetchFromClient
  <2>1. /\ phase = "fetching" /\ phase' = "awaiting" /\ position \in 1..Batches
        /\ recording' = recording /\ seen' = seen /\ pending' = pending /\ gaps' = gaps
        /\ missed' = missed /\ position' = position /\ emitted' = emitted
        /\ clockMs' = clockMs /\ done' = done
    BY <1>2, BatchIsRecords DEF FetchFromClient, Advance, fetch_vars, ReplayInv, WindowOK
  <2>2. WindowOK' /\ Batches' = Batches
    BY <2>1, WindowKept, SameWindow DEF ReplayInv
  <2>3. FetchedSoFar'
    BY <2>1, <2>2, SameEmittable DEF ReplayInv, Fetching, FetchedSoFar
  <2> QED
    BY <2>1, <2>2, <2>3 DEF ReplayInv, Fetching, Ended
<1>3. CASE Fetched
  <2>1. Fetching /\ position \in 1..Batches
    BY <1>3 DEF Fetched, Fetching, ReplayInv, FetchedSoFar
  <2>2. \/ TakeBatch /\ missed' = missed
        \/ SkipBatch /\ missed' = missed \cup {position}
    BY <1>3 DEF Fetched
  <2>3. /\ phase' = "fetching" /\ position' = position + 1
        /\ UNCHANGED <<recording, stopped, clockMs, emitted, done>>
    BY <1>3 DEF Fetched, Advance
  <2> QED
    BY <2>1, <2>2, <2>3, BatchDone
<1>4. CASE Sort
  BY <1>4, SortStep
<1>5. CASE Emit
  BY <1>5, EmitStep
<1>6. CASE Finish
  <2>1. /\ phase = "emitting" /\ phase' = "over"
        /\ UNCHANGED <<recording, fetch_vars, clockMs, emitted>>
    BY <1>6 DEF Finish
  <2>2. Ended'
    BY <1>6 DEF Finish, Ended, Result, fetch_vars
  <2> QED
    BY <2>1, <2>2, PhaseStep DEF Fetching
<1>7. CASE ConsumerThrows
  <2>1. /\ phase = "emitting" /\ phase' = "thrown"
        /\ UNCHANGED <<recording, fetch_vars, clockMs, emitted>>
    BY <1>7 DEF ConsumerThrows, Advance
  <2>2. Ended'
    BY <1>7, <2>1 DEF ConsumerThrows, Advance, Ended, ReplayInv
  <2> QED
    BY <2>1, <2>2, PhaseStep DEF Fetching
<1>8. CASE stop
  BY <1>8, ReplayStutter DEF stop
<1>9. CASE Network
  BY <1>9, ReplayStutter DEF Network, feed_vars
<1>10. CASE UNCHANGED vars
  BY <1>10, ReplayStutter DEF vars, feed_vars
<1> QED
  BY <1>1, <1>2, <1>3, <1>4, <1>5, <1>6, <1>7, <1>8, <1>9, <1>10 DEF Next, FeedStep

LEMMA ReplayInvIsInvariant == Spec => []ReplayInv
<1>1. Init => ReplayInv
  BY ReplayInit
<1>2. ReplayInv /\ [Next]_vars => ReplayInv'
  BY ReplayStep
<1> QED
  BY <1>1, <1>2, PTL DEF Spec

(***************************************************************************)
(* What follows from it.                                                   *)
(***************************************************************************)
LEMMA NothingOutYet ==
  ASSUME ReplayInv, Fetching
  PROVE  emitted = <<>> /\ DOMAIN emitted = {}
BY DEF ReplayInv, FetchedSoFar

LEMMA OutIsSeq ==
  ASSUME ReplayInv, ~Fetching
  PROVE  /\ DOMAIN emitted = 1..Len(emitted) /\ Len(emitted) \in Nat
         /\ Out(emitted) /\ Ascending(emitted) /\ recording \in Recordings
         /\ \A i \in 1..Len(emitted) : \A j \in 1..(i - 1) :
              /\ j \in 1..Len(emitted)
              /\ Sooner(emitted[j].from, emitted[i].from)
<1>1. /\ emitted \in Seq(Events) /\ Out(emitted) /\ Ascending(emitted) /\ recording \in Recordings
  BY DEF ReplayInv, EmittedSoFar, Out, WindowOK
<1>2. DOMAIN emitted = 1..Len(emitted) /\ Len(emitted) \in Nat
  BY <1>1
<1>3. \A i \in 1..Len(emitted) : \A j \in 1..(i - 1) : j \in 1..Len(emitted) /\ j < i
  BY <1>2
<1> QED
  BY <1>1, <1>2, <1>3 DEF Ascending

\* For every window, whatever the order and the failures of the fetches: the
\* events of replay.ts come out by time, odds before scores, then as fetched,
\* and the manual clock stands at the event the consumer holds.
THEOREM ReplayIsOrdered == Spec => []EmissionIsOrdered
<1>1. ASSUME ReplayInv PROVE EmissionIsOrdered
  <2>1. CASE Fetching
    BY <1>1, <2>1, NothingOutYet DEF EmissionIsOrdered
  <2>2. CASE ~Fetching
    <3> SUFFICES ASSUME NEW i \in DOMAIN emitted
                 PROVE  /\ emitted[i].receivedAtMs =
                             IF emitted[i].payload.tsMs > startMs THEN emitted[i].payload.tsMs
                             ELSE startMs
                        /\ \A j \in 1..(i - 1) : Sooner(emitted[j].from, emitted[i].from)
      BY DEF EmissionIsOrdered
    <3>1. i \in 1..Len(emitted) /\ \A j \in 1..(i - 1) : Sooner(emitted[j].from, emitted[i].from)
      BY <1>1, <2>2, OutIsSeq
    <3>2. /\ emitted[i].receivedAtMs = LaterOf(emitted[i].from)
          /\ emitted[i].payload = MappedAt(emitted[i].from).value
      BY <1>1, <2>2, <3>1, OutIsSeq DEF Out
    <3> QED
      BY <3>1, <3>2 DEF LaterOf, TsAt
  <2> QED
    BY <2>1, <2>2
<1> QED
  BY <1>1, ReplayInvIsInvariant, PTL

\* What comes out is the first copy of each key that could be fetched, where that
\* copy can be mapped, each once; a feed that ended by itself has emitted all of
\* them, and its gaps are the batches it missed, not the copies it dropped.
THEOREM ReplayIsFirstCopies == Spec => []ReplaysFirstCopies
<1>1. ASSUME ReplayInv PROVE ReplaysFirstCopies
  <2>1. ASSUME NEW i \in DOMAIN emitted
        PROVE  /\ emitted[i].from \in Emittable
               /\ emitted[i].payload = MappedAt(emitted[i].from).value
               /\ emitted[i].channelRank = RankAt(emitted[i].from)
               /\ \A j \in 1..(i - 1) : emitted[j].from # emitted[i].from
    <3>1. ~Fetching
      BY <1>1, <2>1, NothingOutYet
    <3>2. /\ i \in 1..Len(emitted) /\ Out(emitted) /\ recording \in Recordings
          /\ \A j \in 1..(i - 1) :
               j \in 1..Len(emitted) /\ Sooner(emitted[j].from, emitted[i].from)
      BY <1>1, <2>1, <3>1, OutIsSeq
    <3>3. \A j \in 1..Len(emitted) : emitted[j].from \in Emittable
      BY <3>2 DEF Out
    <3>4. \A j \in 1..(i - 1) : emitted[j].from # emitted[i].from
      BY <3>2, <3>3, SoonerIsOrder
    <3> QED
      BY <3>2, <3>3, <3>4 DEF Out
  <2>2. ASSUME done # None
        PROVE  /\ done[1].eventsEmitted = Len(emitted)
               /\ done[1].gapsDetected = Cardinality(missed)
               /\ ~stopped => {emitted[i].from : i \in DOMAIN emitted} = Emittable
    <3>1. phase = "over" /\ done = Some(Result) /\ (stopped \/ pending = <<>>)
      BY <1>1, <2>2 DEF ReplayInv, Ended
    <3>2. done[1] = Result
      BY <3>1 DEF Some
    <3>3. done[1].eventsEmitted = Len(emitted) /\ done[1].gapsDetected = Cardinality(missed)
      BY <1>1, <3>2 DEF Result, ReplayInv, WindowOK
    <3>4. ~Fetching /\ EmittedSoFar
      BY <1>1, <3>1 DEF ReplayInv, Fetching
    <3>5. DOMAIN emitted = 1..Len(emitted)
      BY <1>1, <3>4, OutIsSeq
    <3>6. ASSUME ~stopped PROVE {emitted[i].from : i \in DOMAIN emitted} = Emittable
      <4>1. Len(pending) = 0
        BY <3>1, <3>6
      <4>2. \A p \in Emittable : \E i \in 1..Len(emitted) : emitted[i].from = p
        BY <3>4, <4>1 DEF EmittedSoFar
      <4> QED
        BY <2>1, <3>5, <4>2
    <3> QED
      BY <3>3, <3>6
  <2> QED
    BY <2>1, <2>2 DEF ReplaysFirstCopies
<1> QED
  BY <1>1, ReplayInvIsInvariant, PTL

(***************************************************************************)
(* The client under the feed.                                              *)
(***************************************************************************)

\* The feed, the other callers and the server use the client as it is: what
\* holds of TxlineClient holds while a window is replayed through it.
THEOREM ReplayUsesClient == Spec => ClientSpec
<1>1. Init => ClientInit
  BY DEF Init
<1>2. ASSUME [Next]_vars PROVE [ClientNext]_client_vars
  <2>1. CASE FetchFromClient
    <3>1. Call(replay)
      BY <2>1 DEF FetchFromClient
    <3> QED
      BY <3>1, ReplayAssumption DEF ClientNext
  <2>2. CASE Fetched
    <3>1. Return(replay)
      BY <2>2 DEF Fetched
    <3> QED
      BY <3>1, ReplayAssumption DEF ClientNext
  <2>3. CASE Network
    BY <2>3 DEF Network, Others, ClientNext
  <2>4. CASE FetchRecorded \/ Sort \/ Emit \/ Finish \/ ConsumerThrows \/ stop \/ UNCHANGED vars
    BY <2>4 DEF FetchRecorded, Sort, Emit, Finish, ConsumerThrows, stop, vars
  <2> QED
    BY <1>2, <2>1, <2>2, <2>3, <2>4 DEF Next, FeedStep
<1> QED
  BY <1>1, <1>2, PTL DEF Spec, ClientSpec

\* In particular the requests behind a replay are bounded, and a fetch that
\* reports "unauthorized" was refused two tokens or a session.
THEOREM ReplayKeepsBudget == Spec => [](BudgetKept /\ UnauthorizedIsReal)
BY ReplayUsesClient, AttemptsAreBounded, RefusalIsReal, PTL
=============================================================================
