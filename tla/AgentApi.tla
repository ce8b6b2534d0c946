------------------------------ MODULE AgentApi ------------------------------
(***************************************************************************)
(* The agent process as its dashboards see it: the AgentStateStore, the    *)
(* tap on the feed and the sink that write to it, the read-only API that   *)
(* streams its snapshots, the dashboards that reconnect to it, and the     *)
(* shutdown of packages/api/src/main.ts.                                   *)
(*                                                                         *)
(* A connection is a number; the server and the dashboard learn of its end *)
(* at different moments.  The network and the browser's EventSource are    *)
(* external.                                                               *)
(***************************************************************************)
EXTENDS Integers, Sequences, FiniteSets, SequencesExt

CONSTANTS
  Dashboards,
  Positions,            (* the indices the pipeline commits                 *)
  Pnl,                  (* by position, what its settlement pays            *)
  FeedStatuses,         (* the kinds of feed-status events                  *)
  startingBankroll,
  Underway,             (* stores of a first run to start from, besides the *)
                        (* empty one: shorter behaviours, same states       *)
  MAX_RECENT_ERRORS,
  MaxUpdates,           (* bound: updates of the store, over all runs       *)
  MaxConnections,       (* bound                                            *)
  MaxRuns               (* bound: times the agent is started                *)

ASSUME ApiAssumption ==
  /\ Positions \subseteq Nat /\ Pnl \in [Positions -> Int] /\ startingBankroll \in Int
  /\ MAX_RECENT_ERRORS \in Nat \ {0}
  /\ MaxUpdates \in Nat /\ MaxConnections \in Nat /\ MaxRuns \in Nat \ {0}

VARIABLES
  snapshot,    (* the store, as snapshot() shows it                         *)
  updates,     (* history: updates of the store so far                      *)
  yielded,     (* whether the tap has handed an event to the pipeline       *)
  pipeline,    (* "running" or "over"                                       *)
  process,     (* "running", "closing", "stopping" or "exited"              *)
  open,        (* the connections the server holds                          *)
  listeners,   (* the connections subscribed to the store                   *)
  wire,        (* by connection: snapshots written and not yet read         *)
  link,        (* by dashboard: its connection, 0 when it has none          *)
  connected,   (* by dashboard: useAgentState's connected                   *)
  view         (* by dashboard: useAgentState's snapshot, <<>> before       *)

store_vars == <<snapshot, updates>>
server_vars == <<open, listeners>>
dashboard_vars == <<link, connected, view>>
agent_vars == <<yielded, pipeline, process>>
vars == <<store_vars, agent_vars, server_vars, wire, dashboard_vars>>

Connections == 1..MaxConnections
Attached == {link[d] : d \in Dashboards} \ {0}
----------------------------------------------------------------------------
\* The store.  Each operation gives the snapshot it leaves behind.
Empty(run) ==
  [run |-> run, eventsProcessed |-> 0, feedStatus |-> "null", positions |-> <<>>,
   settlesCount |-> 0, realizedPnl |-> 0, errorsCount |-> 0, recentErrors |-> <<>>]

Stages == {"commit", "settle", "prove-odds", "pipeline"}

\* The fields of a snapshot; counters are natural numbers.
StoreFields(s) ==
  /\ s = [run |-> s.run, eventsProcessed |-> s.eventsProcessed, feedStatus |-> s.feedStatus,
          positions |-> s.positions, settlesCount |-> s.settlesCount,
          realizedPnl |-> s.realizedPnl, errorsCount |-> s.errorsCount,
          recentErrors |-> s.recentErrors]
  /\ {s.run, s.eventsProcessed, s.settlesCount, s.errorsCount} \subseteq Nat
  /\ s.positions = [i \in DOMAIN s.positions |-> s.positions[i]]

Settled(s) == {i \in DOMAIN s.positions : s.positions[i].settlement # <<>>}

\* What the fields say of each other.
StoreAgrees(s) ==
  /\ DOMAIN s.positions \subseteq Positions /\ IsFiniteSet(DOMAIN s.positions)
  /\ \A i \in DOMAIN s.positions :
       LET paid == s.positions[i].settlement IN
       /\ s.positions[i] = [settlement |-> paid]
       /\ paid # <<>> =>
            /\ paid = <<[pnl |-> Pnl[i], settledAtMs |-> paid[1].settledAtMs,
                         proven |-> paid[1].proven]>>
            /\ paid[1].settledAtMs \in Int
  /\ s.settlesCount = Cardinality(Settled(s))
  /\ s.realizedPnl = SumFunction([i \in Settled(s) |-> Pnl[i]])
  /\ s.positions # <<>> => s.eventsProcessed > 0
  /\ s.recentErrors \in Seq(Stages) /\ Len(s.recentErrors) <= MAX_RECENT_ERRORS

IsStore(s) == StoreFields(s) /\ StoreAgrees(s)

ASSUME UnderwayAssumption == \A s \in Underway : IsStore(s) /\ s.run = 1

recordEvent(s) == [s EXCEPT !.eventsProcessed = @ + 1]

recordFeedStatus(s, kind) == [s EXCEPT !.feedStatus = kind]

\* Positions are kept in the order of their indices.
recordCommit(s, index) ==
  [s EXCEPT !.positions = [i \in DOMAIN @ \cup {index} |->
     IF i = index THEN [settlement |-> <<>>] ELSE s.positions[i]]]

recordError(s, stage) ==
  [s EXCEPT !.errorsCount = @ + 1,
            !.recentErrors = LET all == Append(@, stage)
                             IN  IF Len(all) > MAX_RECENT_ERRORS THEN Tail(all) ELSE all]

Settle(s, index, atMs) ==
  [s EXCEPT !.positions[index].settlement =
              <<[pnl |-> Pnl[index], settledAtMs |-> atMs, proven |-> FALSE]>>,
            !.settlesCount = @ + 1,
            !.realizedPnl = @ + Pnl[index]]

CountUnknown(s, index, atMs) ==                                        \* mutant
  IF index \notin DOMAIN s.positions
  THEN [s EXCEPT !.settlesCount = @ + 1, !.realizedPnl = @ + Pnl[index]]
  ELSE Settle(s, index, atMs)

\* "A settle for an unknown index would corrupt the bankroll": it is an error.
markSettled(s, index, atMs) ==
  IF index \notin DOMAIN s.positions THEN recordError(s, "settle") ELSE Settle(s, index, atMs)

markOddsProven(s, index) ==
  IF index \notin DOMAIN s.positions \/ s.positions[index].settlement = <<>>
  THEN recordError(s, "prove-odds")
  ELSE [s EXCEPT !.positions[index].settlement[1].proven = TRUE]

\* emit: every listener is sent the snapshot.  A write to a connection the
\* other side has left goes nowhere, or throws and costs the listener its place.
EmitUntilOneThrows(states) ==                                          \* mutant
  \E thrown \in SUBSET (listeners \ Attached) :
    /\ listeners' = IF thrown = {} THEN listeners ELSE {}
    /\ wire' = [k \in Connections |-> IF k \in listeners \cap Attached /\ thrown = {}
                                      THEN wire[k] \o states ELSE wire[k]]

emit(states) ==
  \E thrown \in SUBSET (listeners \ Attached) :
    /\ listeners' = listeners \ thrown
    /\ wire' = [k \in Connections |-> IF k \in listeners \cap Attached THEN wire[k] \o states
                                      ELSE wire[k]]

\* One turn of the agent: the snapshots it leaves one after the other.
Record(states) ==
  /\ snapshot' = Last(states)
  /\ updates' = updates + Len(states)
  /\ emit(states)
----------------------------------------------------------------------------
Working == pipeline = "running" /\ process # "exited" /\ updates < MaxUpdates

TapStale ==                                                            \* mutant
  /\ yielded' = TRUE
  /\ \/ Record(<<recordEvent(snapshot)>>)
     \/ \E kind \in FeedStatuses :
          Record(<<recordEvent(snapshot), recordFeedStatus(snapshot, kind)>>)

\* TappingFeed: count the event, note a status, and only then hand it on.
Tap ==
  /\ yielded' = TRUE
  /\ LET counted == recordEvent(snapshot)
     IN  \/ Record(<<counted>>)
         \/ \E kind \in FeedStatuses :
              Record(<<counted, recordFeedStatus(counted, kind)>>)

Ingest ==
  /\ Working
  /\ Tap
  /\ UNCHANGED <<pipeline, process, open, dashboard_vars>>

\* What the sink reports while the pipeline handles an event: a commit, in the
\* order of the indices; a settlement, once for each position, which may be one
\* the store does not know; a proof of the entry odds; or that one of them failed.
Unsettled(i) == i \in DOMAIN snapshot.positions => snapshot.positions[i].settlement = <<>>

Report ==
  /\ Working /\ yielded
  /\ \E i \in Positions :
       \/ /\ \A j \in DOMAIN snapshot.positions : j < i
          /\ \/ Record(<<recordCommit(snapshot, i)>>)
             \/ Record(<<recordError(snapshot, "commit")>>)
       \/ /\ Unsettled(i)
          /\ \/ \E atMs \in 1..2 : Record(<<markSettled(snapshot, i, atMs)>>)
             \/ Record(<<recordError(snapshot, "settle")>>)
       \/ /\ ~Unsettled(i)
          /\ \/ Record(<<markOddsProven(snapshot, i)>>)
             \/ Record(<<recordError(snapshot, "prove-odds")>>)
  /\ UNCHANGED <<agent_vars, open, dashboard_vars>>

\* runPipeline rejects: createAgentRuntime's catch records it.
PipelineFails ==
  /\ Working
  /\ Record(<<recordError(snapshot, "pipeline")>>)
  /\ pipeline' = "over"
  /\ UNCHANGED <<yielded, process, open, dashboard_vars>>

\* The feed ends by itself, or after stop().
PipelineEnds ==
  /\ pipeline = "running" /\ process # "exited"
  /\ pipeline' = "over"
  /\ UNCHANGED <<store_vars, yielded, process, server_vars, wire, dashboard_vars>>
----------------------------------------------------------------------------
\* handleEvents: the current snapshot is written and the connection subscribed
\* in one turn.  EventSource opens one when it has none.
SubscribeOnly(d, k) ==                                                 \* mutant
  /\ open' = open \cup {k} /\ listeners' = listeners \cup {k}
  /\ wire' = wire
  /\ link' = [link EXCEPT ![d] = k]

handleEvents(d, k) ==
  /\ open' = open \cup {k} /\ listeners' = listeners \cup {k}
  /\ wire' = [wire EXCEPT ![k] = <<snapshot>>]
  /\ link' = [link EXCEPT ![d] = k]

Unused(k) == k \notin open /\ k \notin Attached

Connect(d) ==
  /\ link[d] = 0 /\ process = "running"
  /\ \E k \in Connections : Unused(k) /\ (\A j \in 1..(k - 1) : ~Unused(j)) /\ handleEvents(d, k)
  /\ UNCHANGED <<store_vars, agent_vars, connected, view>>

\* source.onopen
Opened(d) ==
  /\ link[d] # 0 /\ ~connected[d]
  /\ connected' = [connected EXCEPT ![d] = TRUE]
  /\ UNCHANGED <<store_vars, agent_vars, server_vars, wire, link, view>>

\* source.onmessage
Receive(d) ==
  /\ link[d] # 0 /\ connected[d] /\ wire[link[d]] # <<>>
  /\ view' = [view EXCEPT ![d] = <<Head(wire[link[d]])>>]
  /\ wire' = [wire EXCEPT ![link[d]] = Tail(@)]
  /\ UNCHANGED <<store_vars, agent_vars, server_vars, link, connected>>

\* source.onerror: the dashboard loses its connection, with what was on it.
Drop(d) ==
  /\ connected' = [connected EXCEPT ![d] = FALSE]
  /\ link' = [link EXCEPT ![d] = 0]
  /\ wire' = [wire EXCEPT ![link[d]] = <<>>]

Vanish(d) ==
  /\ link[d] # 0
  /\ Drop(d)
  /\ UNCHANGED <<store_vars, agent_vars, server_vars, view>>

\* The request's close, or an error of the response.
cleanup(k) == open' = open \ {k} /\ listeners' = listeners \ {k}

\* The server notices that a connection is gone, or closes it itself.
Close(k) ==
  /\ k \in open /\ (k \notin Attached \/ process = "closing")
  /\ cleanup(k)
  /\ UNCHANGED <<store_vars, agent_vars, wire, dashboard_vars>>
----------------------------------------------------------------------------
\* The first SIGINT or SIGTERM; the next ones are ignored.
Signal ==
  /\ process = "running"
  /\ process' = "closing"
  /\ UNCHANGED <<store_vars, yielded, pipeline, server_vars, wire, dashboard_vars>>

\* server.close() resolves once no connection is left.
ServerClosed ==
  /\ process = "closing" /\ open = {}
  /\ process' = "stopping"
  /\ UNCHANGED <<store_vars, yielded, pipeline, server_vars, wire, dashboard_vars>>

\* runtime.stop() resolves with the pipeline, or the grace period elapses.
GraceForever == pipeline = "over"                                      \* mutant
StopOrGrace == pipeline = "over" \/ process = "stopping"

Exit ==
  /\ process = "stopping" /\ StopOrGrace
  /\ process' = "exited"
  /\ UNCHANGED <<store_vars, yielded, pipeline, server_vars, wire, dashboard_vars>>

Crash ==
  /\ process # "exited"
  /\ process' = "exited"
  /\ open' = {} /\ listeners' = {}
  /\ UNCHANGED <<store_vars, yielded, pipeline, wire, dashboard_vars>>

\* A new process: its store is empty, its pipeline at the start.
Restart ==
  /\ process = "exited" /\ snapshot.run < MaxRuns
  /\ snapshot' = Empty(snapshot.run + 1)
  /\ yielded' = FALSE /\ pipeline' = "running" /\ process' = "running"
  /\ UNCHANGED <<updates, server_vars, wire, dashboard_vars>>
----------------------------------------------------------------------------
Init ==
  /\ snapshot \in {Empty(1)} \cup Underway /\ updates = 0
  /\ yielded \in BOOLEAN /\ (yielded <=> snapshot.eventsProcessed > 0)
  /\ pipeline = "running" /\ process = "running"
  /\ open = {} /\ listeners = {} /\ wire = [k \in Connections |-> <<>>]
  /\ link = [d \in Dashboards |-> 0]
  /\ connected = [d \in Dashboards |-> FALSE]
  /\ view = [d \in Dashboards |-> <<>>]

Browser(d) == Connect(d) \/ Opened(d) \/ Receive(d)
Shutdown == ServerClosed \/ Exit

Next ==
  \/ Ingest \/ Report \/ PipelineFails \/ PipelineEnds
  \/ \E d \in Dashboards : Browser(d) \/ Vanish(d)
  \/ \E k \in Connections : Close(k)
  \/ Signal \/ Shutdown \/ Crash \/ Restart

Spec == Init /\ [][Next]_vars

\* Browsers reconnect and deliver, each side learns of a connection the other
\* has closed, and the steps of a shutdown are taken.
Fairness ==
  /\ \A d \in Dashboards : WF_vars(Browser(d)) /\ WF_vars(link[d] \notin open /\ Vanish(d))
  /\ \A k \in Connections : WF_vars(Close(k))
  /\ WF_vars(Shutdown)

FairSpec == Spec /\ Fairness
----------------------------------------------------------------------------
\* series.ts: the running bankroll after each settlement, by time and index.
SettledBefore(s, i, j) ==
  LET a == s.positions[i].settlement[1]  b == s.positions[j].settlement[1]
  IN  a.settledAtMs < b.settledAtMs \/ (a.settledAtMs = b.settledAtMs /\ i < j)

\* The n-th is the one with n - 1 before it.
settledInOrder(s) ==
  [n \in 1..Cardinality(Settled(s)) |->
     CHOOSE i \in Settled(s) : Cardinality({j \in Settled(s) : SettledBefore(s, j, i)}) = n - 1]

buildEquitySeries(s) ==
  LET order == settledInOrder(s)
      running[n \in 0..Len(order)] ==
        IF n = 0 THEN startingBankroll
        ELSE running[n - 1] + s.positions[order[n]].settlement[1].pnl
  IN  running

\* App.tsx: the phases that show as done, and the label of the feed pill.
derivePhases(s) ==
  {p \in {"Ingest", "Verify", "Signal", "Commit", "Settle"} :
     \/ p \in {"Ingest", "Verify"} /\ s.eventsProcessed > 0
     \/ p \in {"Signal", "Commit"} /\ s.positions # <<>>
     \/ p = "Settle" /\ s.settlesCount > 0}

Header(d) ==
  CASE ~connected[d] -> IF view[d] = <<>> THEN "connecting" ELSE "reconnecting"
    [] connected[d] /\ view[d] # <<>> /\ view[d][1].feedStatus # "null" -> view[d][1].feedStatus
    [] OTHER -> "connected"
----------------------------------------------------------------------------
TypeOK ==
  /\ snapshot.run \in 1..MaxRuns /\ updates \in 0..(MaxUpdates + 1) /\ yielded \in BOOLEAN
  /\ pipeline \in {"running", "over"} /\ process \in {"running", "closing", "stopping", "exited"}
  /\ open \subseteq Connections /\ listeners \subseteq open
  /\ Len(snapshot.recentErrors) <= MAX_RECENT_ERRORS
  /\ link \in [Dashboards -> 0..MaxConnections] /\ connected \in [Dashboards -> BOOLEAN]
  /\ \A d \in Dashboards : connected[d] => link[d] # 0

\* A dashboard that holds a connection to the running server misses nothing:
\* the last snapshot on its way to it, or else the one it shows, is the store's.
\* No update falls between the snapshot a connection begins with and its
\* subscription, and no dashboard pays for another's broken connection.
NoUpdateLost == \A d \in Dashboards :
  link[d] \in open /\ process # "exited" =>
    IF wire[link[d]] # <<>> THEN Last(wire[link[d]]) = snapshot ELSE view[d] = <<snapshot>>

\* What a dashboard shows never goes back while the agent runs, whatever it lost
\* and however often it reconnected.
NotBefore(s, t) ==
  s.run = t.run =>
    /\ s.eventsProcessed <= t.eventsProcessed /\ s.errorsCount <= t.errorsCount
    /\ DOMAIN s.positions \subseteq DOMAIN t.positions /\ s.settlesCount <= t.settlesCount
    /\ derivePhases(s) \subseteq derivePhases(t)
ViewsOnlyAdvance ==
  [][\A d \in Dashboards : view[d] # <<>> /\ view'[d] # <<>> => NotBefore(view[d][1], view'[d][1])]_vars

\* The numbers of one page agree: its equity line ends at its bankroll, its
\* settle count is the number of positions it shows as settled, and its
\* pipeline ("ingest -> verify -> signal -> commit -> settle", App.tsx) is done
\* from the left.
PageAgrees ==
  /\ TypeOK
  /\ \A d \in Dashboards : view[d] # <<>> =>
       LET s == view[d][1]  line == buildEquitySeries(s) IN
       /\ line[Cardinality(Settled(s))] = startingBankroll + s.realizedPnl
       /\ s.settlesCount = Cardinality(Settled(s))
       /\ "Settle" \in derivePhases(s) => "Commit" \in derivePhases(s)
       /\ "Commit" \in derivePhases(s) => "Ingest" \in derivePhases(s)

\* A dashboard that keeps its connection to a process that stays up comes to
\* show every event the store has counted, however many follow, and once the
\* store rests the store itself, with the status of the feed on its pill.
Watches(d) == process = "running" /\ link[d] # 0

Shows(d, n) ==
  view[d] # <<>> /\ view[d][1].run = snapshot.run /\ view[d][1].eventsProcessed >= n

CatchesUp == \A d \in Dashboards :
  /\ \A n \in 0..MaxUpdates :
       <>[](Watches(d) /\ snapshot.eventsProcessed >= n) => <>[]Shows(d, n)
  /\ <>[]Watches(d) /\ <>[][FALSE]_snapshot =>
       <>[](/\ view[d] = <<snapshot>>
            /\ Header(d) = IF snapshot.feedStatus = "null" THEN "connected" ELSE snapshot.feedStatus)

\* A signal ends the process, even when the feed never unwinds.
ShutdownExits == process = "closing" ~> process = "exited"
=============================================================================
