---------------------------- MODULE TxlineClient ----------------------------
(***************************************************************************)
(* TxlineClient of packages/txline/src/http: sendWithRetry, its backoff,   *)
(* its one re-authentication, and the guest session it opens for that with *)
(* a sendWithRetry of its own.  Several callers of one client share its    *)
(* auth: the feed that replays or backfills and the sink that fetches      *)
(* proofs run between each other's awaits.                                 *)
(*                                                                         *)
(* A request and its answer are two steps.  The server is external: it     *)
(* refuses (401) exactly the tokens it does not honour, and otherwise      *)
(* answers as it likes.                                                    *)
(***************************************************************************)
EXTENDS Integers, FiniteSets

CONSTANTS
  Callers,       (* calls that may be under way at the same time            *)
  maxAttempts,   (* BackoffConfig                                           *)
  MaxIssued,     (* bound: guest sessions the server grants                 *)
  Mortal         (* bound: the tokens that may expire                       *)

ASSUME ClientAssumption ==
  /\ maxAttempts \in Nat \ {0}
  /\ MaxIssued \in Nat /\ Mortal \subseteq Nat

\* The sendWithRetry of the call itself, and the one startGuestSession runs.
Frames == {"data", "session"}

\* "transient" stands for rate-limited, server-error and transport, "final" for
\* forbidden, not-found and bad-status.
Outcomes == {"none", "ok", "parse", "unauthorized", "transient", "final"}

VARIABLES
  auth,       (* the token the client sends; tokens are numbered from 1     *)
  issued,     (* last token the server has issued                           *)
  live,       (* the tokens it honours                                      *)
  at,         (* by caller: "idle", "sending", "asleep" or "ended"          *)
  top,        (* by caller: the innermost frame                             *)
  attempt,    (* by caller and frame                                        *)
  reauthed,   (* by caller: whether this call has refreshed the token       *)
  carried,    (* by caller: the token of the request in flight              *)
  granted,    (* by caller: the token of the session answer in flight, or 0 *)
  outcome,    (* by caller: how its last call ended                         *)
  sends,      (* history, by caller: requests sent by this call             *)
  refused     (* history, by caller: tokens refused to this call            *)

server_vars == <<issued, live>>
history == <<sends, refused>>
client_vars == <<auth, server_vars, at, top, attempt, reauthed, carried, granted, outcome, history>>
----------------------------------------------------------------------------
\* http.send, with the headers of this moment.
Send(c, f, token) ==
  /\ at' = [at EXCEPT ![c] = "sending"]
  /\ top' = [top EXCEPT ![c] = f]
  /\ carried' = [carried EXCEPT ![c] = token]
  /\ sends' = [sends EXCEPT ![c] = sends[c] + 1]

Forget(c) ==
  /\ top' = [top EXCEPT ![c] = "data"]
  /\ attempt' = [attempt EXCEPT ![c] = [f \in Frames |-> 0]]
  /\ reauthed' = [reauthed EXCEPT ![c] = FALSE]
  /\ carried' = [carried EXCEPT ![c] = 0]
  /\ outcome' = [outcome EXCEPT ![c] = "none"]
  /\ sends' = [sends EXCEPT ![c] = 0]
  /\ refused' = [refused EXCEPT ![c] = {}]

\* getJson, or any method built on it.
Call(c) ==
  /\ at[c] = "idle"
  /\ Send(c, "data", auth)
  /\ UNCHANGED <<auth, server_vars, attempt, reauthed, granted, outcome, refused>>

\* The result of the call: of its own frame, or of the session that failed it.
End(c, kind) ==
  /\ at' = [at EXCEPT ![c] = "ended"]
  /\ outcome' = [outcome EXCEPT ![c] = kind]
  /\ granted' = [granted EXCEPT ![c] = 0]
  /\ UNCHANGED <<auth, server_vars, top, attempt, reauthed, carried, sends>>

\* The caller takes the result; the locals of the call are gone.
Return(c) ==
  /\ at[c] = "ended"
  /\ at' = [at EXCEPT ![c] = "idle"]
  /\ Forget(c)
  /\ UNCHANGED <<auth, server_vars, granted>>

\* The response decides: a body that parses or not.
AnswerBody(c) ==
  /\ at[c] = "sending" /\ top[c] = "data" /\ carried[c] \in live
  /\ \E kind \in {"ok", "parse"} : End(c, kind)
  /\ UNCHANGED refused

\* 429, 5xx or a rejected send: sleep while there are attempts left.  How long
\* (computeBackoffMs) changes nothing but the time the call takes.
BackOff(c) ==
  /\ attempt[c][top[c]] + 1 < maxAttempts
  /\ at' = [at EXCEPT ![c] = "asleep"]
  /\ granted' = [granted EXCEPT ![c] = 0]
  /\ UNCHANGED <<auth, server_vars, top, attempt, reauthed, carried, outcome, sends>>

GiveUp(c) == attempt[c][top[c]] + 1 >= maxAttempts /\ End(c, "transient")

AnswerTransient(c) ==
  /\ at[c] = "sending"
  /\ BackOff(c) \/ GiveUp(c)
  /\ UNCHANGED refused

\* The end of the sleep: the next attempt, with the token of that moment.
Wake(c) ==
  /\ at[c] = "asleep"
  /\ attempt' = [attempt EXCEPT ![c] = [attempt[c] EXCEPT ![top[c]] = attempt[c][top[c]] + 1]]
  /\ Send(c, top[c], IF top[c] = "data" THEN auth ELSE 0)
  /\ UNCHANGED <<auth, server_vars, reauthed, granted, outcome, refused>>

\* 403, 404 or any other status: the call ends at once.
AnswerFinal(c) ==
  /\ at[c] = "sending"
  /\ End(c, "final")
  /\ UNCHANGED refused

ReauthForever(c) ==                                                    \* mutant
  /\ top[c] = "data"
  /\ attempt' = [attempt EXCEPT ![c] = [attempt[c] EXCEPT !["session"] = 0]]
  /\ Send(c, "session", 0)
  /\ UNCHANGED <<auth, server_vars, reauthed, granted, outcome>>

\* The first 401 of a call opens a guest session, whose own attempts start
\* over; one refused by startGuestSession, or a second one, ends the call.
Reauthenticate(c) ==
  /\ top[c] = "data" /\ ~reauthed[c]
  /\ attempt' = [attempt EXCEPT ![c] = [attempt[c] EXCEPT !["session"] = 0]]
  /\ Send(c, "session", 0)
  /\ UNCHANGED <<auth, server_vars, reauthed, granted, outcome>>

Unauthorized(c) ==
  /\ top[c] = "session" \/ reauthed[c]
  /\ End(c, "unauthorized")

AnswerRefused(c) ==
  /\ at[c] = "sending" /\ (top[c] = "session" \/ carried[c] \notin live)
  /\ refused' = IF top[c] = "data" THEN [refused EXCEPT ![c] = refused[c] \cup {carried[c]}]
                ELSE refused
  /\ Reauthenticate(c) \/ Unauthorized(c)

\* The server grants a session; its answer is still to arrive, or be lost.
Grant(c) ==
  /\ at[c] = "sending" /\ top[c] = "session" /\ granted[c] = 0 /\ issued < MaxIssued
  /\ issued' = issued + 1
  /\ live' = live \cup {issued + 1}
  /\ granted' = [granted EXCEPT ![c] = issued + 1]
  /\ UNCHANGED <<auth, at, top, attempt, reauthed, carried, outcome, history>>

RefreshKeepsOldToken(c) ==                                             \* mutant
  /\ at[c] = "sending" /\ top[c] = "session" /\ granted[c] # 0
  /\ granted' = [granted EXCEPT ![c] = 0]
  /\ reauthed' = [reauthed EXCEPT ![c] = TRUE]
  /\ Send(c, "data", auth)
  /\ UNCHANGED <<auth, server_vars, attempt, outcome, refused>>

\* The session answer arrives: the new token is the client's, whatever another
\* call stored meanwhile, and the request goes out again without a backoff.
AnswerSession(c) ==
  /\ at[c] = "sending" /\ top[c] = "session" /\ granted[c] # 0
  /\ auth' = granted[c]
  /\ granted' = [granted EXCEPT ![c] = 0]
  /\ reauthed' = [reauthed EXCEPT ![c] = TRUE]
  /\ Send(c, "data", granted[c])
  /\ UNCHANGED <<server_vars, attempt, outcome, refused>>

\* A session answer without a token in it.
AnswerNoToken(c) ==
  /\ at[c] = "sending" /\ top[c] = "session"
  /\ End(c, "parse")
  /\ UNCHANGED refused

Expire(t) ==
  /\ t \in live \cap Mortal
  /\ live' = live \ {t}
  /\ UNCHANGED <<auth, issued, at, top, attempt, reauthed, carried, granted, outcome, history>>
----------------------------------------------------------------------------
Answer(c) == \/ AnswerBody(c) \/ AnswerTransient(c) \/ AnswerFinal(c)
             \/ AnswerRefused(c) \/ AnswerSession(c) \/ AnswerNoToken(c)

ClientInit ==
  /\ auth = 1 /\ issued = 1 /\ live = {1}
  /\ at = [c \in Callers |-> "idle"]
  /\ top = [c \in Callers |-> "data"]
  /\ attempt = [c \in Callers |-> [f \in Frames |-> 0]]
  /\ reauthed = [c \in Callers |-> FALSE]
  /\ carried = [c \in Callers |-> 0]
  /\ granted = [c \in Callers |-> 0]
  /\ outcome = [c \in Callers |-> "none"]
  /\ sends = [c \in Callers |-> 0]
  /\ refused = [c \in Callers |-> {}]

\* What happens to the calls between Call and Return.
ClientStep ==
  \/ \E c \in Callers : Answer(c) \/ Wake(c) \/ Grant(c)
  \/ \E t \in live : Expire(t)

ClientNext ==
  \/ ClientStep
  \/ \E c \in Callers : Call(c) \/ Return(c)

ClientSpec == ClientInit /\ [][ClientNext]_client_vars
----------------------------------------------------------------------------
ClientTypeOK ==
  /\ auth \in Nat /\ issued \in Nat /\ live \subseteq Nat
  /\ at \in [Callers -> {"idle", "sending", "asleep", "ended"}]
  /\ top \in [Callers -> Frames]
  /\ attempt \in [Callers -> [Frames -> 0..(maxAttempts - 1)]]
  /\ reauthed \in [Callers -> BOOLEAN]
  /\ carried \in [Callers -> Nat]
  /\ granted \in [Callers -> Nat]
  /\ outcome \in [Callers -> Outcomes]
  /\ sends \in [Callers -> Nat]
  /\ refused \in [Callers -> SUBSET Nat]

\* The re-authentication and the retries do not multiply: a call sends its own
\* request at most maxAttempts + 1 times and the session request at most
\* maxAttempts times, whatever the order of 401s and transient failures.
SendsBounded == \A c \in Callers : sends[c] <= 2 * maxAttempts + 1

\* A 401 between them does not use up the attempts: a call that ends on a
\* transient failure has sent at least maxAttempts requests.
BudgetSpent == \A c \in Callers :
  at[c] = "ended" /\ outcome[c] = "transient" => sends[c] >= maxAttempts

\* Together: the attempts of sendWithRetry are spent in full and never overrun.
BudgetKept == ClientTypeOK /\ SendsBounded /\ BudgetSpent

\* A call reports "unauthorized" only when the server refused it a session, or
\* refused two different tokens: a token another call has replaced, or that
\* this one refreshed, is not held against it twice.
UnauthorizedIsReal == \A c \in Callers :
  at[c] = "ended" /\ outcome[c] = "unauthorized" /\ top[c] = "data" => Cardinality(refused[c]) = 2
=============================================================================
