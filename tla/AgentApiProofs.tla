--------------------------- MODULE AgentApiProofs ---------------------------
(***************************************************************************)
(* Proofs that a connected dashboard misses no update of the store and     *)
(* that a page never goes back, for any number of dashboards, connections, *)
(* runs, positions and errors.                                             *)
(***************************************************************************)
EXTENDS AgentApi, SumTheorems

(***************************************************************************)
(* Two dashboards never share a connection, one that both sides hold is    *)
(* subscribed, and what is last on its wire, or else shown, is the store.  *)
(***************************************************************************)
WireTypes ==
  /\ link \in [Dashboards -> Nat]
  /\ wire = [k \in Connections |-> wire[k]]
  /\ \A k \in Connections : \E X : wire[k] \in Seq(X)
  /\ view = [d \in Dashboards |-> view[d]]

Links ==
  /\ open \subseteq Connections
  /\ \A d \in Dashboards : link[d] \in open => link[d] \in listeners
  /\ \A d, e \in Dashboards : d # e /\ link[d] = link[e] => link[d] = 0
  /\ \A d \in Dashboards : link[d] # 0 => link[d] \in Connections
  /\ process \in {"stopping", "exited"} => open = {}

Delivered(d) ==
  IF wire[link[d]] # <<>> THEN Last(wire[link[d]]) = snapshot ELSE view[d] = <<snapshot>>

ApiInv ==
  /\ WireTypes
  /\ Links
  /\ \A d \in Dashboards : link[d] \in open => Delivered(d)

LEMMA LastOfWritten ==
  ASSUME NEW X, NEW Y, NEW w \in Seq(X), NEW states \in Seq(Y), states # <<>>
  PROVE  /\ \E Z : w \o states \in Seq(Z)
         /\ w \o states # <<>>
         /\ Last(w \o states) = Last(states)
<1>1. w \in Seq(X \cup Y) /\ states \in Seq(X \cup Y)
  OBVIOUS
<1>2. w \o states \in Seq(X \cup Y) /\ Len(w \o states) = Len(w) + Len(states)
  BY <1>1
<1>3. Len(w) \in Nat /\ Len(states) \in Nat /\ Len(states) # 0
  OBVIOUS
<1>4. (w \o states)[Len(w) + Len(states)] = states[Len(states)]
  BY <1>1, <1>3
<1> QED
  BY <1>2, <1>3, <1>4 DEF Last

LEMMA LastOfRest ==
  ASSUME NEW X, NEW w \in Seq(X), w # <<>>
  PROVE  /\ Tail(w) \in Seq(X)
         /\ Tail(w) # <<>> => Last(Tail(w)) = Last(w)
         /\ Tail(w) = <<>> => Head(w) = Last(w)
<1>1. Len(w) \in Nat \ {0} /\ Tail(w) \in Seq(X) /\ Len(Tail(w)) = Len(w) - 1
  OBVIOUS
<1>2. Tail(w) # <<>> => Tail(w)[Len(w) - 1] = w[Len(w)]
  BY <1>1
<1>3. Tail(w) = <<>> => Len(w) = 1
  <2>1. Len(<<>>) = 0
    OBVIOUS
  <2>2. Tail(w) = <<>> => Len(w) - 1 = 0
    BY <1>1, <2>1, Zenon
  <2> QED
    BY <1>1, <2>2
<1> QED
  BY <1>1, <1>2, <1>3 DEF Last

LEMMA ApiInit == Init => ApiInv
<1> SUFFICES ASSUME Init PROVE ApiInv
  OBVIOUS
<1>1. WireTypes
  <2>1. <<>> \in Seq({})
    OBVIOUS
  <2> QED
    BY <2>1 DEF Init, WireTypes
<1>2. Links /\ \A d \in Dashboards : link[d] \notin open
  BY DEF Init, Links
<1> QED
  BY <1>1, <1>2 DEF ApiInv

\* One turn of the agent writes the store's snapshots to every connection that
\* both sides hold; only a connection its dashboard has left can throw.
LEMMA ApiRecord ==
  ASSUME ApiInv, NEW Y, NEW states \in Seq(Y), states # <<>>, Record(states),
         UNCHANGED <<open, link, view, process>>
  PROVE  ApiInv'
<1>1. PICK thrown \in SUBSET (listeners \ Attached) :
        /\ listeners' = listeners \ thrown
        /\ wire' = [k \in Connections |-> IF k \in listeners \cap Attached THEN wire[k] \o states
                                          ELSE wire[k]]
  BY DEF Record, emit
<1>2. snapshot' = Last(states)
  BY DEF Record
<1>3. \A d \in Dashboards : link[d] # 0 => link[d] \in Attached /\ link[d] \notin thrown
  BY <1>1 DEF Attached
<1>4. 0 \notin open
  BY DEF ApiInv, Links, Connections
<1>5. \A k \in Connections : \E X : wire'[k] \in Seq(X)
  <2> SUFFICES ASSUME NEW k \in Connections PROVE \E X : wire'[k] \in Seq(X)
    OBVIOUS
  <2>1. PICK X : wire[k] \in Seq(X)
    BY DEF ApiInv, WireTypes
  <2>2. wire'[k] = wire[k] \o states \/ wire'[k] = wire[k]
    BY <1>1
  <2> QED
    BY <2>1, <2>2, LastOfWritten
<1>6. WireTypes'
  BY <1>1, <1>5 DEF ApiInv, WireTypes
<1>7. Links'
  BY <1>1, <1>3, <1>4 DEF ApiInv, Links
<1>8. ASSUME NEW d \in Dashboards, link[d] \in open PROVE Delivered(d)'
  <2>1. link[d] \in listeners \cap Attached /\ link[d] \in Connections
    BY <1>3, <1>4, <1>8 DEF ApiInv, Links
  <2>2. wire'[link[d]] = wire[link[d]] \o states
    BY <1>1, <2>1
  <2>3. PICK X : wire[link[d]] \in Seq(X)
    BY <2>1 DEF ApiInv, WireTypes
  <2>4. wire'[link[d]] # <<>> /\ Last(wire'[link[d]]) = snapshot'
    BY <1>2, <2>2, <2>3, LastOfWritten
  <2> QED
    BY <2>4 DEF Delivered
<1> QED
  BY <1>6, <1>7, <1>8 DEF ApiInv

LEMMA ApiAgent ==
  ASSUME ApiInv, Ingest \/ Report \/ PipelineFails
  PROVE  ApiInv'
<1>1. UNCHANGED <<open, link, view, process>>
  BY DEF Ingest, Report, PipelineFails, agent_vars, dashboard_vars
<1>2. \/ \E a : Record(<<a>>)
      \/ \E a, b : Record(<<a, b>>)
  BY DEF Ingest, Tap, Report, PipelineFails
<1>3. ASSUME NEW a, Record(<<a>>) PROVE ApiInv'
  <2>1. <<a>> \in Seq({a}) /\ <<a>> # <<>>
    OBVIOUS
  <2> QED
    BY <1>1, <1>3, <2>1, ApiRecord
<1>4. ASSUME NEW a, NEW b, Record(<<a, b>>) PROVE ApiInv'
  <2>1. <<a, b>> \in Seq({a, b}) /\ <<a, b>> # <<>>
    OBVIOUS
  <2> QED
    BY <1>1, <1>4, <2>1, ApiRecord
<1> QED
  BY <1>2, <1>3, <1>4

\* A connection begins with the snapshot of the moment it is subscribed.
LEMMA ApiConnect ==
  ASSUME ApiInv, NEW d \in Dashboards, Connect(d)
  PROVE  ApiInv'
<1>1. PICK k \in Connections : Unused(k) /\ handleEvents(d, k)
  BY DEF Connect
<1>2. /\ link[d] = 0 /\ process = "running" /\ UNCHANGED <<snapshot, process, view>>
      /\ open' = open \cup {k} /\ listeners' = listeners \cup {k}
      /\ wire' = [wire EXCEPT ![k] = <<snapshot>>] /\ link' = [link EXCEPT ![d] = k]
  BY <1>1 DEF Connect, handleEvents, store_vars, agent_vars
<1>3. k \notin open /\ \A e \in Dashboards : link[e] # 0 => link[e] # k
  BY <1>1 DEF Unused, Attached
<1>4. k # 0 /\ k \in Nat /\ 0 \notin open
  BY DEF Connections, ApiInv, Links
<1>5. \A e \in Dashboards : link'[e] = IF e = d THEN k ELSE link[e]
  BY <1>2 DEF ApiInv, WireTypes
<1>6. \A j \in Connections : wire'[j] = IF j = k THEN <<snapshot>> ELSE wire[j]
  BY <1>2 DEF ApiInv, WireTypes
<1>7. WireTypes'
  <2>1. link' \in [Dashboards -> Nat] /\ view' = [e \in Dashboards |-> view'[e]]
    BY <1>2, <1>4 DEF ApiInv, WireTypes
  <2>2. wire' = [j \in Connections |-> wire'[j]]
    BY <1>2 DEF ApiInv, WireTypes
  <2>3. <<snapshot>> \in Seq({snapshot})
    OBVIOUS
  <2>4. \A j \in Connections : \E X : wire'[j] \in Seq(X)
    BY <1>6, <2>3 DEF ApiInv, WireTypes
  <2> QED
    BY <2>1, <2>2, <2>4 DEF WireTypes
<1>8. Links'
  BY <1>1, <1>2, <1>3, <1>4, <1>5 DEF ApiInv, Links
<1>9. ASSUME NEW e \in Dashboards, link'[e] \in open' PROVE Delivered(e)'
  <2>1. CASE e = d
    <3>1. wire'[link'[e]] = <<snapshot>> /\ Last(<<snapshot>>) = snapshot /\ <<snapshot>> # <<>>
      BY <1>1, <1>5, <1>6, <2>1 DEF Last
    <3> QED
      BY <1>2, <3>1 DEF Delivered
  <2>2. CASE e # d
    <3>1. link'[e] = link[e] /\ link[e] \in open /\ link[e] # k /\ link[e] \in Connections
      BY <1>2, <1>3, <1>4, <1>5, <1>9, <2>2 DEF ApiInv, Links
    <3>2. wire'[link'[e]] = wire[link[e]]
      BY <1>6, <3>1
    <3> QED
      BY <1>2, <3>1, <3>2 DEF ApiInv, Delivered
  <2> QED
    BY <2>1, <2>2
<1> QED
  BY <1>7, <1>8, <1>9 DEF ApiInv

\* A dashboard takes what is first on its own wire.
LEMMA ApiReceive ==
  ASSUME ApiInv, NEW d \in Dashboards, Receive(d)
  PROVE  ApiInv'
<1> DEFINE k == link[d]
<1>1. /\ k # 0 /\ wire[k] # <<>> /\ UNCHANGED <<snapshot, process, open, listeners, link>>
      /\ view' = [view EXCEPT ![d] = <<Head(wire[k])>>]
      /\ wire' = [wire EXCEPT ![k] = Tail(wire[k])]
  BY DEF Receive, store_vars, agent_vars, server_vars
<1>2. k \in Connections /\ \A e \in Dashboards \ {d} : link[e] # k
  BY <1>1 DEF ApiInv, Links
<1>3. PICK X : wire[k] \in Seq(X)
  BY <1>2 DEF ApiInv, WireTypes
<1>4. \A j \in Connections : wire'[j] = IF j = k THEN Tail(wire[k]) ELSE wire[j]
  BY <1>1 DEF ApiInv, WireTypes
<1>5. \A e \in Dashboards : view'[e] = IF e = d THEN <<Head(wire[k])>> ELSE view[e]
  BY <1>1 DEF ApiInv, WireTypes
<1>6. WireTypes'
  <2>1. wire' = [j \in Connections |-> wire'[j]] /\ view' = [e \in Dashboards |-> view'[e]]
    BY <1>1 DEF ApiInv, WireTypes
  <2>2. \A j \in Connections : \E Y : wire'[j] \in Seq(Y)
    BY <1>1, <1>3, <1>4, LastOfRest DEF ApiInv, WireTypes
  <2> QED
    BY <1>1, <2>1, <2>2 DEF ApiInv, WireTypes
<1>7. Links'
  BY <1>1 DEF ApiInv, Links
<1>8. ASSUME NEW e \in Dashboards, link[e] \in open PROVE Delivered(e)'
  <2>1. Delivered(e)
    BY <1>8 DEF ApiInv
  <2>2. CASE e = d
    <3>1. Last(wire[k]) = snapshot
      BY <1>1, <2>1, <2>2 DEF Delivered
    <3>2. wire'[link'[e]] = Tail(wire[k]) /\ view'[e] = <<Head(wire[k])>>
      BY <1>1, <1>2, <1>4, <1>5, <2>2
    <3> QED
      BY <1>1, <1>3, <3>1, <3>2, LastOfRest DEF Delivered
  <2>3. CASE e # d
    <3>1. link[e] \in Connections /\ link[e] # k
      BY <1>2, <1>8, <2>3 DEF ApiInv, Links
    <3>2. wire'[link'[e]] = wire[link[e]] /\ view'[e] = view[e]
      BY <1>1, <1>4, <1>5, <2>3, <3>1
    <3> QED
      BY <1>1, <2>1, <3>2 DEF Delivered
  <2> QED
    BY <2>2, <2>3
<1> QED
  BY <1>1, <1>6, <1>7, <1>8 DEF ApiInv

\* A dashboard that loses its connection empties no wire but its own.
LEMMA ApiVanish ==
  ASSUME ApiInv, NEW d \in Dashboards, Vanish(d)
  PROVE  ApiInv'
<1> DEFINE k == link[d]
<1>1. /\ k # 0 /\ UNCHANGED <<snapshot, process, open, listeners, view>>
      /\ link' = [link EXCEPT ![d] = 0] /\ wire' = [wire EXCEPT ![k] = <<>>]
  BY DEF Vanish, Drop, store_vars, agent_vars, server_vars
<1>2. \A e \in Dashboards \ {d} : link[e] # k
  BY <1>1 DEF ApiInv, Links
<1>3. \A e \in Dashboards : link'[e] = IF e = d THEN 0 ELSE link[e]
  BY <1>1 DEF ApiInv, WireTypes
<1>4. \A j \in Connections : wire'[j] = IF j = k THEN <<>> ELSE wire[j]
  BY <1>1 DEF ApiInv, WireTypes
<1>5. WireTypes'
  <2>1. wire' = [j \in Connections |-> wire'[j]] /\ link' \in [Dashboards -> Nat]
    BY <1>1 DEF ApiInv, WireTypes
  <2>2. <<>> \in Seq({})
    OBVIOUS
  <2>3. \A j \in Connections : \E X : wire'[j] \in Seq(X)
    BY <1>4, <2>2 DEF ApiInv, WireTypes
  <2> QED
    BY <1>1, <2>1, <2>3 DEF ApiInv, WireTypes
<1>6. 0 \notin open
  BY DEF ApiInv, Links, Connections
<1>7. Links'
  BY <1>1, <1>3, <1>6 DEF ApiInv, Links
<1>8. ASSUME NEW e \in Dashboards, link'[e] \in open PROVE Delivered(e)'
  <2>1. e # d /\ link'[e] = link[e] /\ link[e] \in Connections /\ link[e] # k
    BY <1>2, <1>3, <1>6, <1>8 DEF ApiInv, Links
  <2>2. wire'[link'[e]] = wire[link[e]]
    BY <1>4, <2>1
  <2> QED
    BY <1>1, <1>8, <2>1, <2>2 DEF ApiInv, Delivered
<1> QED
  BY <1>1, <1>5, <1>7, <1>8 DEF ApiInv

\* The server forgets connections, or all of them; the process moves on.
LEMMA ApiClose ==
  ASSUME ApiInv, UNCHANGED <<snapshot, wire, link, view>>,
         \/ \E k \in Connections : open' = open \ {k} /\ listeners' = listeners \ {k}
         \/ open' = {} /\ listeners' = {}
         \/ open' = open /\ listeners' = listeners,
         process' = process \/ open' = {} \/ process' \notin {"stopping", "exited"}
  PROVE  ApiInv'
<1>1. WireTypes'
  BY DEF ApiInv, WireTypes
<1>2. Links'
  BY DEF ApiInv, Links
<1>3. \A d \in Dashboards : link'[d] \in open' => Delivered(d)'
  BY DEF ApiInv, Delivered
<1> QED
  BY <1>1, <1>2, <1>3 DEF ApiInv

\* A new process has a new store and no connection.
LEMMA ApiRestart ==
  ASSUME ApiInv, Restart
  PROVE  ApiInv'
<1>1. open = {} /\ process' = "running" /\ UNCHANGED <<open, listeners, wire, link, view>>
  BY DEF Restart, ApiInv, Links, server_vars, dashboard_vars
<1> QED
  BY <1>1 DEF ApiInv, WireTypes, Links

LEMMA ApiStep == ApiInv /\ [Next]_vars => ApiInv'
<1> SUFFICES ASSUME ApiInv, [Next]_vars PROVE ApiInv'
  OBVIOUS
<1>1. CASE Ingest \/ Report \/ PipelineFails
  BY <1>1, ApiAgent
<1>2. CASE \E d \in Dashboards : Connect(d) \/ Receive(d) \/ Vanish(d)
  BY <1>2, ApiConnect, ApiReceive, ApiVanish
<1>3. CASE PipelineEnds \/ Signal \/ (\E d \in Dashboards : Opened(d)) \/ UNCHANGED vars
  BY <1>3, ApiClose DEF PipelineEnds, Signal, Opened, vars, store_vars, agent_vars, server_vars,
                        dashboard_vars
<1>4. CASE \E k \in Connections : Close(k)
  BY <1>4, ApiClose DEF Close, cleanup, store_vars, agent_vars, dashboard_vars
<1>5. CASE ServerClosed
  BY <1>5, ApiClose DEF ServerClosed, store_vars, server_vars, dashboard_vars
<1>6. CASE Exit
  <2>1. open = {}
    BY <1>6 DEF Exit, ApiInv, Links
  <2> QED
    BY <1>6, <2>1, ApiClose DEF Exit, store_vars, server_vars, dashboard_vars
<1>7. CASE Crash
  BY <1>7, ApiClose DEF Crash, store_vars, dashboard_vars
<1>8. CASE Restart
  BY <1>8, ApiRestart
<1> QED
  BY <1>1, <1>2, <1>3, <1>4, <1>5, <1>6, <1>7, <1>8 DEF Next, Browser, Shutdown

\* A dashboard that holds a connection to the running server shows the store or
\* has it on the way, however many others connect, break and reconnect
\* (handleEvents of server.ts, emit of state-store.ts).
THEOREM NoUpdateIsLost == Spec => []NoUpdateLost
<1>1. ApiInv => NoUpdateLost
  BY DEF ApiInv, NoUpdateLost, Delivered
<1> QED
  BY <1>1, ApiInit, ApiStep, PTL DEF Spec
----------------------------------------------------------------------------
(***************************************************************************)
(* A page never goes back.  What is on the way to a dashboard is in the    *)
(* order in which the store held it, after what the dashboard shows and    *)
(* before what the store holds; a new run comes after all of it.           *)
(***************************************************************************)
Before(s, t) == s.run <= t.run /\ NotBefore(s, t)

InOrder(w, s) ==
  /\ \A i \in 1..Len(w) : IsStore(w[i]) /\ Before(w[i], s)
  /\ \A i, j \in 1..Len(w) : i < j => Before(w[i], w[j])

AfterAll(w, s) == \A i \in 1..Len(w) : Before(s, w[i])

PageInOrder(d) ==
  /\ view[d] # <<>> => IsStore(view[d][1]) /\ Before(view[d][1], snapshot)
  /\ link[d] # 0 => /\ InOrder(wire[link[d]], snapshot)
                    /\ view[d] # <<>> => AfterAll(wire[link[d]], view[d][1])

\* The pipeline reports only after it has been handed an event.
Began == yielded \in BOOLEAN /\ (yielded => snapshot.eventsProcessed > 0)

ViewInv == IsStore(snapshot) /\ Began /\ \A d \in Dashboards : PageInOrder(d)

\* Counters that only grow make the phases of a page only grow.
LEMMA PhasesFollow ==
  ASSUME NEW s, NEW t, IsStore(s), IsStore(t),
         s.eventsProcessed <= t.eventsProcessed, s.settlesCount <= t.settlesCount,
         DOMAIN s.positions \subseteq DOMAIN t.positions
  PROVE  derivePhases(s) \subseteq derivePhases(t)
<1>1. {s.eventsProcessed, t.eventsProcessed, s.settlesCount, t.settlesCount} \subseteq Nat
  BY DEF IsStore, StoreFields
<1>2. s.eventsProcessed > 0 => t.eventsProcessed > 0
  BY <1>1
<1>3. s.settlesCount > 0 => t.settlesCount > 0
  BY <1>1
<1>4. s.positions # <<>> => t.positions # <<>>
  <2> SUFFICES ASSUME t.positions = <<>> PROVE s.positions = <<>>
    OBVIOUS
  <2>1. DOMAIN s.positions = {}
    OBVIOUS
  <2>2. s.positions = [i \in {} |-> s.positions[i]]
    BY <2>1, Zenon DEF IsStore, StoreFields
  <2> QED
    BY <2>2
<1> QED
  BY <1>2, <1>3, <1>4 DEF derivePhases

LEMMA Advances ==
  ASSUME NEW s, NEW t, IsStore(s), IsStore(t), s.run <= t.run,
         s.run = t.run => /\ s.eventsProcessed <= t.eventsProcessed
                          /\ s.errorsCount <= t.errorsCount
                          /\ s.settlesCount <= t.settlesCount
                          /\ DOMAIN s.positions \subseteq DOMAIN t.positions
  PROVE  Before(s, t)
  BY PhasesFollow DEF Before, NotBefore

LEMMA BeforeIsTransitive ==
  ASSUME NEW s, NEW t, NEW u, IsStore(s), IsStore(t), IsStore(u), Before(s, t), Before(t, u)
  PROVE  Before(s, u)
<1>1. /\ {s.run, s.eventsProcessed, s.settlesCount, s.errorsCount} \subseteq Nat
      /\ {t.run, t.eventsProcessed, t.settlesCount, t.errorsCount} \subseteq Nat
      /\ {u.run, u.eventsProcessed, u.settlesCount, u.errorsCount} \subseteq Nat
  BY DEF IsStore, StoreFields
<1>2. s.run <= t.run /\ t.run <= u.run
  BY DEF Before
<1>3. s.run <= u.run /\ (s.run = u.run => s.run = t.run /\ t.run = u.run)
  BY <1>1, <1>2
<1>4. ASSUME s.run = u.run
      PROVE  /\ s.eventsProcessed <= u.eventsProcessed /\ s.errorsCount <= u.errorsCount
             /\ s.settlesCount <= u.settlesCount
             /\ DOMAIN s.positions \subseteq DOMAIN u.positions
  <2>1. s.run = t.run /\ t.run = u.run
    BY <1>3, <1>4
  <2>2. /\ s.eventsProcessed <= t.eventsProcessed /\ s.errorsCount <= t.errorsCount
        /\ s.settlesCount <= t.settlesCount /\ DOMAIN s.positions \subseteq DOMAIN t.positions
        /\ t.eventsProcessed <= u.eventsProcessed /\ t.errorsCount <= u.errorsCount
        /\ t.settlesCount <= u.settlesCount /\ DOMAIN t.positions \subseteq DOMAIN u.positions
    BY <2>1 DEF Before, NotBefore
  <2> QED
    BY <1>1, <2>2
<1> QED
  BY <1>3, <1>4, Advances

LEMMA BeforeItself == \A s : IsStore(s) => Before(s, s)
<1> SUFFICES ASSUME NEW s, IsStore(s) PROVE Before(s, s)
  OBVIOUS
<1>1. {s.run, s.eventsProcessed, s.settlesCount, s.errorsCount} \subseteq Nat
  BY DEF IsStore, StoreFields
<1> QED
  BY <1>1, Advances

(***************************************************************************)
(* What the fields of a store say of each other stays true under each of   *)
(* the store's operations.                                                 *)
(***************************************************************************)
Paid(pnl, atMs, proven) == <<[pnl |-> pnl, settledAtMs |-> atMs, proven |-> proven]>>

LEMMA PaidFields ==
  ASSUME NEW x, NEW y, NEW z
  PROVE  /\ Paid(x, y, z) # <<>>
         /\ Paid(x, y, z)[1].settledAtMs = y /\ Paid(x, y, z)[1].proven = z /\ Paid(x, y, z)[1].pnl = x
         /\ [settlement |-> Paid(x, y, z)].settlement = Paid(x, y, z)
<1>1. \A a : <<a>> # <<>> /\ <<a>>[1] = a
  OBVIOUS
<1>2. /\ [pnl |-> x, settledAtMs |-> y, proven |-> z].settledAtMs = y
      /\ [pnl |-> x, settledAtMs |-> y, proven |-> z].proven = z
      /\ [pnl |-> x, settledAtMs |-> y, proven |-> z].pnl = x
  OBVIOUS
<1> QED
  BY <1>1, <1>2 DEF Paid

LEMMA PaidProven ==
  ASSUME NEW x, NEW y, NEW z, NEW u
  PROVE  [[settlement |-> Paid(x, y, z)] EXCEPT !.settlement[1].proven = u]
           = [settlement |-> Paid(x, y, u)]
<1> DEFINE r == [pnl |-> x, settledAtMs |-> y, proven |-> z]
<1>1. [r EXCEPT !.proven = u] = [pnl |-> x, settledAtMs |-> y, proven |-> u]
  OBVIOUS
<1> HIDE DEF r
<1>2. \A a, b : [<<a>> EXCEPT ![1] = b] = <<b>>
  OBVIOUS
<1>3. [<<r>> EXCEPT ![1].proven = u] = <<[r EXCEPT !.proven = u]>>
  OBVIOUS
<1>4. \A a, b : [[settlement |-> a] EXCEPT !.settlement = b] = [settlement |-> b]
  OBVIOUS
<1>5. \A a : [[settlement |-> a] EXCEPT !.settlement[1].proven = u] = [settlement |-> [a EXCEPT ![1].proven = u]]
  OBVIOUS
<1>6. Paid(x, y, z) = <<r>>
  BY DEF Paid, r
<1>7. Paid(x, y, u) = <<[r EXCEPT !.proven = u]>>
  BY <1>1 DEF Paid
<1>8. [[settlement |-> <<r>>] EXCEPT !.settlement[1].proven = u] = [settlement |-> <<[r EXCEPT !.proven = u]>>]
  BY <1>3, <1>5
<1> QED
  BY <1>6, <1>7, <1>8, Zenon

\* A position as the store holds it: without a settlement, or with one.
HeldWell(s, i) ==
  /\ s.positions[i] = [settlement |-> s.positions[i].settlement]
  /\ s.positions[i].settlement # <<>> =>
       \E atMs, proven : atMs \in Int /\ s.positions[i].settlement = Paid(Pnl[i], atMs, proven)

LEMMA AgreementOf ==
  ASSUME NEW s
  PROVE  StoreAgrees(s) <=>
           /\ DOMAIN s.positions \subseteq Positions /\ IsFiniteSet(DOMAIN s.positions)
           /\ \A i \in DOMAIN s.positions : HeldWell(s, i)
           /\ s.settlesCount = Cardinality(Settled(s))
           /\ s.realizedPnl = SumFunction([i \in Settled(s) |-> Pnl[i]])
           /\ s.positions # <<>> => s.eventsProcessed > 0
           /\ s.recentErrors \in Seq(Stages) /\ Len(s.recentErrors) <= MAX_RECENT_ERRORS
<1>1. ASSUME NEW i \in DOMAIN s.positions
      PROVE  HeldWell(s, i) <=>
               LET paid == s.positions[i].settlement IN
               /\ s.positions[i] = [settlement |-> paid]
               /\ paid # <<>> =>
                    /\ paid = <<[pnl |-> Pnl[i], settledAtMs |-> paid[1].settledAtMs,
                                 proven |-> paid[1].proven]>>
                    /\ paid[1].settledAtMs \in Int
  <2> DEFINE paid == s.positions[i].settlement
  <2>1. (\E atMs, proven : atMs \in Int /\ paid = Paid(Pnl[i], atMs, proven))
          <=> /\ paid = Paid(Pnl[i], paid[1].settledAtMs, paid[1].proven)
              /\ paid[1].settledAtMs \in Int
    <3> HIDE DEF paid
    <3> QED
      BY PaidFields
  <2> QED
    BY <2>1 DEF HeldWell, Paid
<1> QED
  BY <1>1, Zenon DEF StoreAgrees

LEMMA EmptyAgrees == \A run : StoreAgrees(Empty(run))
<1> SUFFICES ASSUME NEW run PROVE StoreAgrees(Empty(run))
  OBVIOUS
<1> DEFINE s == Empty(run)
<1>1. /\ s.positions = <<>> /\ s.settlesCount = 0 /\ s.realizedPnl = 0 /\ s.recentErrors = <<>>
      /\ DOMAIN <<>> = {} /\ Len(<<>>) = 0 /\ <<>> \in Seq(Stages)
  BY DEF Empty
<1> HIDE DEF s
<1>2. Settled(s) = {} /\ Cardinality(Settled(s)) = 0 /\ IsFiniteSet({})
  BY <1>1, FS_EmptySet DEF Settled
<1>3. SumFunction([i \in Settled(s) |-> Pnl[i]]) = 0
  BY <1>2, SumEmpty
<1>4. MAX_RECENT_ERRORS \in Nat
  BY ApiAssumption
<1>5. /\ DOMAIN s.positions \subseteq Positions /\ IsFiniteSet(DOMAIN s.positions)
      /\ \A i \in DOMAIN s.positions : HeldWell(s, i)
  BY <1>1, <1>2
<1>6. s.recentErrors \in Seq(Stages) /\ Len(s.recentErrors) <= MAX_RECENT_ERRORS
  BY <1>1, <1>4
<1>7. /\ s.settlesCount = Cardinality(Settled(s))
      /\ s.realizedPnl = SumFunction([i \in Settled(s) |-> Pnl[i]])
  BY <1>1, <1>2, <1>3
<1>8. s.positions # <<>> => s.eventsProcessed > 0
  BY <1>1
<1> QED
  BY <1>5, <1>6, <1>7, <1>8, AgreementOf, Zenon DEF s

\* Counting an event, noting a status and recording an error touch no position.
LEMMA SamePositionsAgree ==
  ASSUME NEW s, NEW t, StoreAgrees(s), t.positions = s.positions,
         t.settlesCount = s.settlesCount, t.realizedPnl = s.realizedPnl,
         s.eventsProcessed > 0 => t.eventsProcessed > 0,
         t.recentErrors \in Seq(Stages), Len(t.recentErrors) <= MAX_RECENT_ERRORS
  PROVE  StoreAgrees(t)
<1>1. Settled(t) = Settled(s)
  BY DEF Settled
<1>2. \A i \in DOMAIN s.positions : HeldWell(s, i) <=> HeldWell(t, i)
  BY DEF HeldWell
<1> QED
  BY <1>1, <1>2, AgreementOf

LEMMA RecentErrorsBounded ==
  ASSUME NEW log \in Seq(Stages), NEW stage \in Stages, Len(log) <= MAX_RECENT_ERRORS
  PROVE  LET all == Append(log, stage)
             kept == IF Len(all) > MAX_RECENT_ERRORS THEN Tail(all) ELSE all
         IN  kept \in Seq(Stages) /\ Len(kept) <= MAX_RECENT_ERRORS
<1> DEFINE all == Append(log, stage)
<1>1. all \in Seq(Stages) /\ Len(all) = Len(log) + 1 /\ Len(log) \in Nat
  OBVIOUS
<1>2. all # <<>>
  BY <1>1
<1>3. Tail(all) \in Seq(Stages) /\ Len(Tail(all)) = Len(all) - 1
  BY <1>1, <1>2
<1>4. MAX_RECENT_ERRORS \in Nat
  BY ApiAssumption
<1> QED
  BY <1>1, <1>3, <1>4

\* A commit adds a position that is not settled.
LEMMA CommitAgrees ==
  ASSUME NEW s, NEW t, NEW i \in Positions, StoreAgrees(s), i \notin DOMAIN s.positions,
         t.positions = [j \in DOMAIN s.positions \cup {i} |->
                          IF j = i THEN [settlement |-> <<>>] ELSE s.positions[j]],
         t.settlesCount = s.settlesCount, t.realizedPnl = s.realizedPnl,
         t.eventsProcessed > 0, t.recentErrors = s.recentErrors
  PROVE  StoreAgrees(t)
<1>1. /\ DOMAIN t.positions = DOMAIN s.positions \cup {i}
      /\ t.positions[i] = [settlement |-> <<>>]
      /\ \A j \in DOMAIN s.positions : t.positions[j] = s.positions[j]
  OBVIOUS
<1>2. Settled(t) = Settled(s)
  BY <1>1 DEF Settled
<1>3. DOMAIN t.positions \subseteq Positions /\ IsFiniteSet(DOMAIN t.positions)
  BY <1>1, FS_AddElement, AgreementOf
<1>4. ASSUME NEW j \in DOMAIN t.positions PROVE HeldWell(t, j)
  <2>1. CASE j = i
    BY <1>1, <2>1 DEF HeldWell
  <2>2. CASE j # i
    <3>1. HeldWell(s, j) /\ t.positions[j] = s.positions[j]
      BY <1>1, <2>2, AgreementOf
    <3> QED
      BY <3>1 DEF HeldWell
  <2> QED
    BY <2>1, <2>2
<1> QED
  BY <1>2, <1>3, <1>4, AgreementOf

\* A settlement of a position that has none is counted and paid once.
LEMMA SettlementAgrees ==
  ASSUME NEW s, NEW t, NEW i \in DOMAIN s.positions, NEW atMs \in Int, NEW proven, StoreAgrees(s),
         s.positions[i].settlement = <<>>,
         DOMAIN t.positions = DOMAIN s.positions,
         t.positions[i] = [settlement |-> Paid(Pnl[i], atMs, proven)],
         \A j \in DOMAIN s.positions \ {i} : t.positions[j] = s.positions[j],
         t.settlesCount = s.settlesCount + 1, t.realizedPnl = s.realizedPnl + Pnl[i],
         t.eventsProcessed = s.eventsProcessed, t.recentErrors = s.recentErrors
  PROVE  StoreAgrees(t)
<1> DEFINE f == [j \in Settled(s) |-> Pnl[j]]
           g == [j \in Settled(t) |-> Pnl[j]]
<1>1. t.positions[i].settlement = Paid(Pnl[i], atMs, proven) /\ Paid(Pnl[i], atMs, proven) # <<>>
  BY PaidFields
<1>2. Settled(t) = Settled(s) \cup {i} /\ i \notin Settled(s) /\ Settled(s) \subseteq DOMAIN s.positions
  BY <1>1 DEF Settled
<1>3. IsFiniteSet(Settled(s)) /\ DOMAIN s.positions \subseteq Positions
  BY <1>2, FS_Subset, AgreementOf
<1>4. Cardinality(Settled(t)) = Cardinality(Settled(s)) + 1
  BY <1>2, <1>3, FS_AddElement
<1>5. \A j \in Positions : Pnl[j] \in Int
  BY ApiAssumption
<1>6. /\ DOMAIN f = Settled(s) /\ DOMAIN g = DOMAIN f \cup {i} /\ i \notin DOMAIN f
      /\ g[i] = Pnl[i] /\ g[i] \in Int
      /\ \A x \in DOMAIN f : f[x] \in Int /\ g[x] = f[x]
  BY <1>2, <1>3, <1>5
<1>7. SumFunction(g) = SumFunction(f) + Pnl[i]
  <2> HIDE DEF f, g
  <2> QED
    BY <1>3, <1>6, SumAdd
<1>8. t.positions # <<>> => t.eventsProcessed > 0
  <2>1. s.positions # <<>>
    <3>1. DOMAIN <<>> = {}
      OBVIOUS
    <3> QED
      BY <3>1
  <2> QED
    BY <2>1, AgreementOf
<1>9. ASSUME NEW j \in DOMAIN t.positions PROVE HeldWell(t, j)
  <2>1. CASE j = i
    BY <1>1, <2>1 DEF HeldWell
  <2>2. CASE j # i
    <3>1. HeldWell(s, j) /\ t.positions[j] = s.positions[j]
      BY <1>1, <2>2, AgreementOf
    <3> QED
      BY <3>1 DEF HeldWell
  <2> QED
    BY <2>1, <2>2
<1> QED
  BY <1>4, <1>7, <1>8, <1>9, AgreementOf

\* A proof of the odds touches no count and no amount.
LEMMA ProofAgrees ==
  ASSUME NEW s, NEW t, NEW i \in DOMAIN s.positions, NEW yes, StoreAgrees(s),
         s.positions[i].settlement # <<>>,
         t.positions = [s.positions EXCEPT ![i].settlement[1].proven = yes],
         t.settlesCount = s.settlesCount, t.realizedPnl = s.realizedPnl,
         t.eventsProcessed = s.eventsProcessed, t.recentErrors = s.recentErrors
  PROVE  StoreAgrees(t)
<1>1. PICK atMs, proven : atMs \in Int /\ s.positions[i].settlement = Paid(Pnl[i], atMs, proven)
  BY AgreementOf DEF HeldWell
<1>2. s.positions[i] = [settlement |-> Paid(Pnl[i], atMs, proven)]
  BY <1>1, AgreementOf DEF HeldWell
<1>3. /\ DOMAIN t.positions = DOMAIN s.positions
      /\ \A j \in DOMAIN s.positions \ {i} : t.positions[j] = s.positions[j]
      /\ t.positions[i] = [s.positions[i] EXCEPT !.settlement[1].proven = yes]
  OBVIOUS
<1>4. t.positions[i] = [settlement |-> Paid(Pnl[i], atMs, yes)]
  BY <1>2, <1>3, PaidProven
<1>5. /\ t.positions[i].settlement = Paid(Pnl[i], atMs, yes)
      /\ Paid(Pnl[i], atMs, yes) # <<>>
  BY <1>4, PaidFields
<1>6. Settled(t) = Settled(s)
  BY <1>3, <1>5 DEF Settled
<1>7. ASSUME NEW j \in DOMAIN t.positions PROVE HeldWell(t, j)
  <2>1. CASE j = i
    BY <1>1, <1>4, <1>5, <2>1 DEF HeldWell
  <2>2. CASE j # i
    <3>1. HeldWell(s, j) /\ t.positions[j] = s.positions[j]
      BY <1>3, <2>2, AgreementOf
    <3> QED
      BY <3>1 DEF HeldWell
  <2> QED
    BY <2>1, <2>2
<1>8. t.positions # <<>> => t.eventsProcessed > 0
  <2>1. DOMAIN <<>> = {}
    OBVIOUS
  <2>2. s.positions # <<>>
    BY <2>1
  <2> QED
    BY <2>2, AgreementOf
<1> QED
  BY <1>3, <1>6, <1>7, <1>8, AgreementOf

\* Every operation of the store gives a store that comes after the one it was
\* given.
NextStore(s, t) == IsStore(t) /\ Before(s, t) /\ t.run = s.run

LEMMA EventAdvances ==
  ASSUME NEW s, IsStore(s)
  PROVE  NextStore(s, recordEvent(s)) /\ recordEvent(s).eventsProcessed > 0
<1> DEFINE t == recordEvent(s)
<1>1. {s.run, s.eventsProcessed, s.settlesCount, s.errorsCount} \subseteq Nat
  BY DEF IsStore, StoreFields
<1>2. t = [run |-> s.run, eventsProcessed |-> s.eventsProcessed + 1, feedStatus |-> s.feedStatus,
           positions |-> s.positions, settlesCount |-> s.settlesCount,
           realizedPnl |-> s.realizedPnl, errorsCount |-> s.errorsCount,
           recentErrors |-> s.recentErrors]
  BY DEF IsStore, StoreFields, recordEvent
<1> HIDE DEF t
<1>3. IsStore(t) /\ t.eventsProcessed > 0
  <2>1. StoreAgrees(s) /\ t.eventsProcessed > 0
    BY <1>1, <1>2 DEF IsStore
  <2>2. StoreAgrees(t)
    <3>1. s.recentErrors \in Seq(Stages) /\ Len(s.recentErrors) <= MAX_RECENT_ERRORS
      BY <2>1 DEF StoreAgrees
    <3>2. /\ t.positions = s.positions /\ t.settlesCount = s.settlesCount
          /\ t.realizedPnl = s.realizedPnl /\ t.recentErrors = s.recentErrors
      BY <1>2
    <3> QED
      BY <2>1, <3>1, <3>2, SamePositionsAgree
  <2> QED
    BY <1>1, <1>2, <2>1, <2>2 DEF IsStore, StoreFields
<1>4. Before(s, t)
  BY <1>1, <1>2, <1>3, Advances
<1> QED
  BY <1>2, <1>3, <1>4 DEF NextStore, t

LEMMA StatusAdvances ==
  ASSUME NEW s, NEW kind, IsStore(s)
  PROVE  /\ NextStore(s, recordFeedStatus(s, kind))
         /\ recordFeedStatus(s, kind).eventsProcessed = s.eventsProcessed
<1> DEFINE t == recordFeedStatus(s, kind)
<1>1. {s.run, s.eventsProcessed, s.settlesCount, s.errorsCount} \subseteq Nat
  BY DEF IsStore, StoreFields
<1>2. t = [run |-> s.run, eventsProcessed |-> s.eventsProcessed, feedStatus |-> kind,
           positions |-> s.positions, settlesCount |-> s.settlesCount,
           realizedPnl |-> s.realizedPnl, errorsCount |-> s.errorsCount,
           recentErrors |-> s.recentErrors]
  BY DEF IsStore, StoreFields, recordFeedStatus
<1> HIDE DEF t
<1>3. IsStore(t)
  <2>1. StoreAgrees(t)
    BY <1>2, SamePositionsAgree DEF IsStore, StoreAgrees
  <2> QED
    BY <1>1, <1>2, <2>1 DEF IsStore, StoreFields
<1>4. Before(s, t)
  BY <1>1, <1>2, <1>3, Advances
<1> QED
  BY <1>2, <1>3, <1>4 DEF NextStore, t

LEMMA CommitAdvances ==
  ASSUME NEW s, NEW i \in Positions, IsStore(s), i \notin DOMAIN s.positions, s.eventsProcessed > 0
  PROVE  NextStore(s, recordCommit(s, i)) /\ recordCommit(s, i).eventsProcessed > 0
<1> DEFINE t == recordCommit(s, i)
           held == [j \in DOMAIN s.positions \cup {i} |->
                      IF j = i THEN [settlement |-> <<>>] ELSE s.positions[j]]
<1>1. {s.run, s.eventsProcessed, s.settlesCount, s.errorsCount} \subseteq Nat
  BY DEF IsStore, StoreFields
<1>2. t = [run |-> s.run, eventsProcessed |-> s.eventsProcessed, feedStatus |-> s.feedStatus,
           positions |-> held, settlesCount |-> s.settlesCount,
           realizedPnl |-> s.realizedPnl, errorsCount |-> s.errorsCount,
           recentErrors |-> s.recentErrors]
  BY DEF IsStore, StoreFields, recordCommit
<1>3. DOMAIN s.positions \subseteq DOMAIN held /\ held = [j \in DOMAIN held |-> held[j]]
  OBVIOUS
<1> HIDE DEF t, held
<1>4. IsStore(t)
  <2>1. StoreAgrees(t)
    BY <1>2, CommitAgrees DEF IsStore, held
  <2> QED
    BY <1>1, <1>2, <1>3, <2>1 DEF IsStore, StoreFields
<1>5. Before(s, t)
  BY <1>1, <1>2, <1>3, <1>4, Advances
<1> QED
  BY <1>2, <1>4, <1>5 DEF NextStore, t

LEMMA ErrorAdvances ==
  ASSUME NEW s, NEW stage \in Stages, IsStore(s)
  PROVE  /\ NextStore(s, recordError(s, stage))
         /\ recordError(s, stage).eventsProcessed = s.eventsProcessed
<1> DEFINE t == recordError(s, stage)
           all == Append(s.recentErrors, stage)
           log == IF Len(all) > MAX_RECENT_ERRORS THEN Tail(all) ELSE all
           counted == [s EXCEPT !.errorsCount = s.errorsCount + 1]
<1>1. {s.run, s.eventsProcessed, s.settlesCount, s.errorsCount} \subseteq Nat
  BY DEF IsStore, StoreFields
<1>2. t = [run |-> s.run, eventsProcessed |-> s.eventsProcessed, feedStatus |-> s.feedStatus,
           positions |-> s.positions, settlesCount |-> s.settlesCount,
           realizedPnl |-> s.realizedPnl, errorsCount |-> s.errorsCount + 1,
           recentErrors |-> log]
  <2>1. counted = [run |-> s.run, eventsProcessed |-> s.eventsProcessed,
                   feedStatus |-> s.feedStatus, positions |-> s.positions,
                   settlesCount |-> s.settlesCount, realizedPnl |-> s.realizedPnl,
                   errorsCount |-> s.errorsCount + 1, recentErrors |-> s.recentErrors]
    BY DEF IsStore, StoreFields
  <2>2. t = [counted EXCEPT !.recentErrors = log]
    BY Zenon DEF recordError
  <2> HIDE DEF t, all, log, counted
  <2> QED
    BY <2>1, <2>2
<1> HIDE DEF t, all, log, counted
<1>3. IsStore(t)
  <2>1. log \in Seq(Stages) /\ Len(log) <= MAX_RECENT_ERRORS
    BY RecentErrorsBounded DEF IsStore, StoreAgrees, log, all
  <2>2. StoreAgrees(t)
    BY <1>2, <2>1, SamePositionsAgree DEF IsStore
  <2> QED
    BY <1>1, <1>2, <2>2 DEF IsStore, StoreFields
<1>4. Before(s, t)
  BY <1>1, <1>2, <1>3, Advances
<1> QED
  BY <1>2, <1>3, <1>4 DEF NextStore, t

LEMMA SettlementAdvances ==
  ASSUME NEW s, NEW i \in DOMAIN s.positions, NEW atMs \in Int, IsStore(s),
         s.positions[i].settlement = <<>>
  PROVE  /\ NextStore(s, Settle(s, i, atMs))
         /\ Settle(s, i, atMs).eventsProcessed = s.eventsProcessed
<1> DEFINE t == Settle(s, i, atMs)
           no == FALSE
           paid == <<[pnl |-> Pnl[i], settledAtMs |-> atMs, proven |-> no]>>
           held == [s.positions EXCEPT ![i].settlement = paid]
           first == [s EXCEPT !.positions = held]
<1>1. {s.run, s.eventsProcessed, s.settlesCount, s.errorsCount} \subseteq Nat
  BY DEF IsStore, StoreFields
<1>2. t = [run |-> s.run, eventsProcessed |-> s.eventsProcessed, feedStatus |-> s.feedStatus,
           positions |-> held, settlesCount |-> s.settlesCount + 1,
           realizedPnl |-> s.realizedPnl + Pnl[i], errorsCount |-> s.errorsCount,
           recentErrors |-> s.recentErrors]
  <2>1. first = [run |-> s.run, eventsProcessed |-> s.eventsProcessed,
                 feedStatus |-> s.feedStatus, positions |-> held,
                 settlesCount |-> s.settlesCount, realizedPnl |-> s.realizedPnl,
                 errorsCount |-> s.errorsCount, recentErrors |-> s.recentErrors]
    <3> HIDE DEF held
    <3> QED
      BY DEF IsStore, StoreFields
  <2>2. t = [[first EXCEPT !.settlesCount = first.settlesCount + 1]
              EXCEPT !.realizedPnl = [first EXCEPT !.settlesCount = first.settlesCount + 1].realizedPnl
                                     + Pnl[i]]
    BY Zenon DEF Settle
  <2> HIDE DEF t, held, first
  <2> QED
    BY <2>1, <2>2
<1>3. /\ DOMAIN held = DOMAIN s.positions /\ held = [j \in DOMAIN held |-> held[j]]
      /\ \A j \in DOMAIN s.positions \ {i} : held[j] = s.positions[j]
      /\ held[i] = [settlement |-> Paid(Pnl[i], atMs, no)]
  <2>1. \A x : [[settlement |-> <<>>] EXCEPT !.settlement = x] = [settlement |-> x]
    OBVIOUS
  <2>2. s.positions[i] = [settlement |-> <<>>]
    BY DEF IsStore, StoreAgrees
  <2>3. held[i] = [s.positions[i] EXCEPT !.settlement = paid]
    OBVIOUS
  <2>4. held[i] = [settlement |-> paid]
    BY <2>1, <2>2, <2>3
  <2> QED
    BY <2>4 DEF IsStore, StoreFields, Paid
<1> HIDE DEF t, held, no
<1>4. IsStore(t)
  <2>1. Pnl[i] \in Int
    BY ApiAssumption DEF IsStore, StoreAgrees
  <2>2. StoreAgrees(t)
    <3>1. /\ t.positions = held /\ t.settlesCount = s.settlesCount + 1
          /\ t.realizedPnl = s.realizedPnl + Pnl[i] /\ t.eventsProcessed = s.eventsProcessed
          /\ t.recentErrors = s.recentErrors
      BY <1>2
    <3>2. StoreAgrees(s)
      BY DEF IsStore
    <3>3. /\ DOMAIN t.positions = DOMAIN s.positions
          /\ \A j \in DOMAIN s.positions \ {i} : t.positions[j] = s.positions[j]
          /\ t.positions[i] = [settlement |-> Paid(Pnl[i], atMs, no)]
      BY <1>3, <3>1
    <3> HIDE DEF paid, first
    <3>4. \A proven : /\ t.positions[i] = [settlement |-> Paid(Pnl[i], atMs, proven)]
                     => StoreAgrees(t)
      BY <3>1, <3>2, <3>3, SettlementAgrees
    <3> QED
      BY <3>3, <3>4
  <2> QED
    BY <1>1, <1>2, <1>3, <2>2 DEF IsStore, StoreFields
<1>5. Before(s, t)
  BY <1>1, <1>2, <1>3, <1>4, Advances
<1> QED
  BY <1>2, <1>4, <1>5 DEF NextStore, t

LEMMA SettledAdvances ==
  ASSUME NEW s, NEW i, NEW atMs \in Int, IsStore(s),
         i \in DOMAIN s.positions => s.positions[i].settlement = <<>>
  PROVE  /\ NextStore(s, markSettled(s, i, atMs))
         /\ markSettled(s, i, atMs).eventsProcessed = s.eventsProcessed
  BY ErrorAdvances, SettlementAdvances DEF markSettled, Stages

LEMMA ProvenAdvances ==
  ASSUME NEW s, NEW i, IsStore(s)
  PROVE  /\ NextStore(s, markOddsProven(s, i))
         /\ markOddsProven(s, i).eventsProcessed = s.eventsProcessed
<1>1. CASE i \notin DOMAIN s.positions \/ s.positions[i].settlement = <<>>
  BY <1>1, ErrorAdvances DEF markOddsProven, Stages
<1>2. CASE ~(i \notin DOMAIN s.positions \/ s.positions[i].settlement = <<>>)
  <2> DEFINE t == markOddsProven(s, i)
             yes == TRUE
             held == [s.positions EXCEPT ![i].settlement[1].proven = yes]
  <2>1. {s.run, s.eventsProcessed, s.settlesCount, s.errorsCount} \subseteq Nat
    BY DEF IsStore, StoreFields
  <2>2. t = [run |-> s.run, eventsProcessed |-> s.eventsProcessed, feedStatus |-> s.feedStatus,
             positions |-> held, settlesCount |-> s.settlesCount,
             realizedPnl |-> s.realizedPnl, errorsCount |-> s.errorsCount,
             recentErrors |-> s.recentErrors]
    BY <1>2 DEF IsStore, StoreFields, markOddsProven
  <2>3. DOMAIN held = DOMAIN s.positions /\ held = [j \in DOMAIN held |-> held[j]]
    BY DEF IsStore, StoreFields
  <2> HIDE DEF t, held, yes
  <2>4. IsStore(t)
    <3>1. StoreAgrees(t)
      BY <1>2, <2>2, ProofAgrees DEF IsStore, held
    <3> QED
      BY <2>1, <2>2, <2>3, <3>1 DEF IsStore, StoreFields
  <2>5. Before(s, t)
    BY <2>1, <2>2, <2>3, <2>4, Advances
  <2> QED
    BY <2>2, <2>4, <2>5 DEF NextStore, t
<1> QED
  BY <1>1, <1>2

\* One turn of the agent leaves one store, or two one after the other.
LEMMA TurnAdvances ==
  ASSUME IsStore(snapshot), Began, Ingest \/ Report \/ PipelineFails
  PROVE  /\ \/ \E a : Record(<<a>>) /\ NextStore(snapshot, a)
            \/ \E a, b : Record(<<a, b>>) /\ NextStore(snapshot, a) /\ NextStore(a, b)
         /\ Began'
<1>1. CASE Ingest
  <2> DEFINE counted == recordEvent(snapshot)
  <2>1. NextStore(snapshot, counted) /\ IsStore(counted) /\ counted.eventsProcessed > 0
    BY EventAdvances DEF NextStore
  <2>2. \A kind : /\ NextStore(counted, recordFeedStatus(counted, kind))
                  /\ recordFeedStatus(counted, kind).eventsProcessed > 0
    BY <2>1, StatusAdvances
  <2>3. \/ Record(<<counted>>)
        \/ \E kind \in FeedStatuses : Record(<<counted, recordFeedStatus(counted, kind)>>)
    BY <1>1 DEF Ingest, Tap
  <2>4. yielded' = TRUE
    BY <1>1 DEF Ingest, Tap
  <2> HIDE DEF counted
  <2>5. snapshot'.eventsProcessed > 0
    <3>1. \A a, b : Last(<<a>>) = a /\ Last(<<a, b>>) = b
      BY DEF Last
    <3>2. \A states : Record(states) => snapshot' = Last(states)
      BY DEF Record
    <3>3. CASE Record(<<counted>>)
      BY <2>1, <3>1, <3>2, <3>3, Zenon
    <3>4. ASSUME NEW kind, Record(<<counted, recordFeedStatus(counted, kind)>>)
          PROVE  snapshot'.eventsProcessed > 0
      <4> DEFINE noted == recordFeedStatus(counted, kind)
      <4>1. snapshot' = Last(<<counted, noted>>) /\ noted.eventsProcessed > 0
        BY <2>2, <3>2, <3>4
      <4> HIDE DEF noted
      <4>2. snapshot' = noted
        BY <3>1, <4>1
      <4> QED
        BY <4>1, <4>2
    <3> QED
      BY <2>3, <3>3, <3>4
  <2> QED
    BY <2>1, <2>2, <2>3, <2>4, <2>5 DEF Began
<1>2. ASSUME NEW t, Record(<<t>>), NextStore(snapshot, t), yielded' = yielded,
             yielded => t.eventsProcessed > 0
      PROVE  (\E a : Record(<<a>>) /\ NextStore(snapshot, a)) /\ Began'
  <2>1. Last(<<t>>) = t
    BY DEF Last
  <2>2. snapshot' = t
    BY <1>2, <2>1 DEF Record
  <2> QED
    BY <1>2, <2>2 DEF Began
<1>3. CASE Report
  <2>1. yielded' = yielded /\ snapshot.eventsProcessed > 0
    BY <1>3 DEF Report, agent_vars, Began
  <2>2. ASSUME NEW i \in Positions, \A j \in DOMAIN snapshot.positions : j < i,
               Record(<<recordCommit(snapshot, i)>>)
        PROVE  (\E a : Record(<<a>>) /\ NextStore(snapshot, a)) /\ Began'
    <3>1. i \in Nat
      BY ApiAssumption
    <3>2. i \notin DOMAIN snapshot.positions
      BY <2>2, <3>1
    <3> QED
      BY <1>2, <2>1, <2>2, <3>2, CommitAdvances
  <2>3. ASSUME NEW i \in Positions, NEW atMs \in 1..2, Unsettled(i),
               Record(<<markSettled(snapshot, i, atMs)>>)
        PROVE  (\E a : Record(<<a>>) /\ NextStore(snapshot, a)) /\ Began'
    <3>1. atMs \in Int
      OBVIOUS
    <3> QED
      BY <1>2, <2>1, <2>3, <3>1, SettledAdvances DEF Unsettled
  <2>4. ASSUME NEW i \in Positions, Record(<<markOddsProven(snapshot, i)>>)
        PROVE  (\E a : Record(<<a>>) /\ NextStore(snapshot, a)) /\ Began'
    BY <1>2, <2>1, <2>4, ProvenAdvances
  <2>5. ASSUME NEW stage \in Stages, Record(<<recordError(snapshot, stage)>>)
        PROVE  (\E a : Record(<<a>>) /\ NextStore(snapshot, a)) /\ Began'
    BY <1>2, <2>1, <2>5, ErrorAdvances
  <2>6. {"commit", "settle", "prove-odds"} \subseteq Stages
    BY DEF Stages
  <2>7. PICK i \in Positions :
          \/ (\A j \in DOMAIN snapshot.positions : j < i) /\ Record(<<recordCommit(snapshot, i)>>)
          \/ \E atMs \in 1..2 : Unsettled(i) /\ Record(<<markSettled(snapshot, i, atMs)>>)
          \/ Record(<<markOddsProven(snapshot, i)>>)
          \/ \E stage \in {"commit", "settle", "prove-odds"} :
               Record(<<recordError(snapshot, stage)>>)
    BY <1>3, Zenon DEF Report
  <2> QED
    BY <2>2, <2>3, <2>4, <2>5, <2>6, <2>7, Zenon
<1>4. CASE PipelineFails
  <2>1. Record(<<recordError(snapshot, "pipeline")>>) /\ yielded' = yielded
    BY <1>4 DEF PipelineFails
  <2>2. "pipeline" \in Stages
    BY DEF Stages
  <2> QED
    BY <1>2, <2>1, <2>2, ErrorAdvances DEF Began
<1> QED
  BY <1>1, <1>3, <1>4

LEMMA OrderExtends ==
  ASSUME NEW X, NEW Y, NEW w \in Seq(X), NEW states \in Seq(Y), NEW s, NEW t,
         IsStore(s), IsStore(t), Before(s, t), InOrder(w, s), InOrder(states, t), AfterAll(states, s)
  PROVE  InOrder(w \o states, t)
<1>1. w \in Seq(X \cup Y) /\ states \in Seq(X \cup Y)
  OBVIOUS
<1> DEFINE L == Len(w)
           M == Len(states)
           both == w \o states
<1>2. L \in Nat /\ M \in Nat /\ Len(both) = L + M
  BY <1>1
<1>3. \A i \in 1..L : both[i] = w[i]
  BY <1>1
<1>4. \A i \in (L + 1)..(L + M) : i - L \in 1..M /\ both[i] = states[i - L]
  <2> SUFFICES ASSUME NEW i \in (L + 1)..(L + M)
               PROVE  i - L \in 1..M /\ both[i] = states[i - L]
    OBVIOUS
  <2>1. i - L \in 1..M /\ i \in L + 1..L + M
    BY <1>2
  <2> QED
    BY <1>1, <2>1
<1> HIDE DEF L, M, both
<1>5. \A i \in 1..(L + M) : i \in 1..L \/ i \in (L + 1)..(L + M)
  BY <1>2
<1>6. \A i \in 1..L : IsStore(w[i]) /\ Before(w[i], s)
  BY DEF InOrder, L
<1>7. \A i \in 1..M : IsStore(states[i]) /\ Before(states[i], t) /\ Before(s, states[i])
  BY DEF InOrder, AfterAll, M
<1>8. ASSUME NEW i \in 1..(L + M) PROVE IsStore(both[i]) /\ Before(both[i], t)
  <2>1. CASE i \in 1..L
    BY <1>3, <1>6, <2>1, BeforeIsTransitive
  <2>2. CASE i \in (L + 1)..(L + M)
    BY <1>4, <1>7, <2>2
  <2> QED
    BY <1>5, <2>1, <2>2
<1>9. ASSUME NEW i \in 1..(L + M), NEW j \in 1..(L + M), i < j PROVE Before(both[i], both[j])
  <2>1. CASE i \in 1..L /\ j \in 1..L
    <3>1. Before(w[i], w[j])
      BY <1>9, <2>1 DEF InOrder, L
    <3> QED
      BY <1>3, <2>1, <3>1
  <2>2. CASE i \in 1..L /\ j \in (L + 1)..(L + M)
    BY <1>3, <1>4, <1>6, <1>7, <2>2, BeforeIsTransitive
  <2>3. CASE i \in (L + 1)..(L + M) /\ j \in (L + 1)..(L + M)
    <3>1. i - L < j - L /\ i - L \in 1..M /\ j - L \in 1..M
      BY <1>2, <1>4, <1>9, <2>3
    <3>2. Before(states[i - L], states[j - L])
      BY <3>1 DEF InOrder, M
    <3> QED
      BY <1>4, <2>3, <3>2
  <2>4. CASE i \in (L + 1)..(L + M) /\ j \in 1..L
    BY <1>2, <1>9, <2>4
  <2> QED
    BY <1>5, <2>1, <2>2, <2>3, <2>4
<1> QED
  BY <1>2, <1>8, <1>9 DEF InOrder, both

LEMMA AfterExtends ==
  ASSUME NEW X, NEW Y, NEW w \in Seq(X), NEW states \in Seq(Y), NEW s,
         AfterAll(w, s), AfterAll(states, s)
  PROVE  AfterAll(w \o states, s)
<1>1. w \in Seq(X \cup Y) /\ states \in Seq(X \cup Y)
  OBVIOUS
<1> SUFFICES ASSUME NEW i \in 1..Len(w \o states) PROVE Before(s, (w \o states)[i])
  BY DEF AfterAll
<1>2. Len(w) \in Nat /\ Len(states) \in Nat /\ i \in 1..(Len(w) + Len(states))
  BY <1>1
<1>3. CASE i \in 1..Len(w)
  <2>1. (w \o states)[i] = w[i]
    BY <1>1, <1>3
  <2> QED
    BY <1>3, <2>1 DEF AfterAll
<1>4. CASE i \notin 1..Len(w)
  <2>1. i - Len(w) \in 1..Len(states) /\ i \in Len(w) + 1..Len(w) + Len(states)
    BY <1>2, <1>4
  <2>2. (w \o states)[i] = states[i - Len(w)]
    BY <1>1, <1>2, <2>1
  <2> QED
    BY <2>1, <2>2 DEF AfterAll
<1> QED
  BY <1>3, <1>4

LEMMA ViewRecord ==
  ASSUME ApiInv, ViewInv, NEW Y, NEW states \in Seq(Y), states # <<>>, Record(states),
         InOrder(states, Last(states)), AfterAll(states, snapshot),
         Began', UNCHANGED <<link, view>>
  PROVE  ViewInv'
<1>1. PICK thrown \in SUBSET (listeners \ Attached) :
        /\ listeners' = listeners \ thrown
        /\ wire' = [k \in Connections |-> IF k \in listeners \cap Attached THEN wire[k] \o states
                                          ELSE wire[k]]
  BY DEF Record, emit
<1> DEFINE t == Last(states)
<1>2. snapshot' = t
  BY DEF Record
<1>3. Len(states) \in 1..Len(states) /\ Last(states) = states[Len(states)]
  <2>1. Len(states) \in Nat /\ Len(states) # 0
    OBVIOUS
  <2> QED
    BY <2>1 DEF Last
<1>4. IsStore(snapshot) /\ IsStore(t) /\ Before(snapshot, t)
  BY <1>3 DEF ViewInv, InOrder, AfterAll
<1> HIDE DEF t
<1>5. ASSUME NEW d \in Dashboards PROVE PageInOrder(d)'
  <2>1. PageInOrder(d)
    BY DEF ViewInv
  <2>2. view'[d] = view[d] /\ link'[d] = link[d]
    OBVIOUS
  <2>3. ASSUME view[d] # <<>>
        PROVE  /\ IsStore(view[d][1]) /\ Before(view[d][1], snapshot) /\ Before(view[d][1], t)
               /\ AfterAll(states, view[d][1])
    <3>1. IsStore(view[d][1]) /\ Before(view[d][1], snapshot)
      BY <2>1, <2>3 DEF PageInOrder
    <3>2. \A i \in 1..Len(states) : Before(snapshot, states[i]) /\ IsStore(states[i])
      BY DEF InOrder, AfterAll
    <3>3. AfterAll(states, view[d][1])
      BY <1>4, <3>1, <3>2, BeforeIsTransitive DEF AfterAll
    <3> QED
      BY <1>4, <3>1, <3>3, BeforeIsTransitive
  <2>4. ASSUME link[d] # 0
        PROVE  /\ InOrder(wire'[link[d]], t)
               /\ view[d] # <<>> => AfterAll(wire'[link[d]], view[d][1])
    <3>1. link[d] \in Connections
      BY <2>4 DEF ApiInv, Links
    <3> DEFINE w == wire[link[d]]
    <3>2. PICK X : w \in Seq(X)
      BY <3>1 DEF ApiInv, WireTypes
    <3>3. InOrder(w, snapshot) /\ (view[d] # <<>> => AfterAll(w, view[d][1]))
      BY <2>1, <2>4 DEF PageInOrder
    <3>4. CASE wire'[link[d]] = w \o states
      <4>1. InOrder(w \o states, t)
        BY <1>4, <3>2, <3>3, OrderExtends DEF t
      <4>2. view[d] # <<>> => AfterAll(w \o states, view[d][1])
        BY <2>3, <3>2, <3>3, AfterExtends
      <4> QED
        BY <3>4, <4>1, <4>2
    <3>5. CASE wire'[link[d]] = w
      <4>1. InOrder(w, t)
        BY <1>4, <3>3, BeforeIsTransitive DEF InOrder
      <4> QED
        BY <3>3, <3>5, <4>1
    <3>6. wire'[link[d]] = w \o states \/ wire'[link[d]] = w
      BY <1>1, <3>1
    <3> QED
      BY <3>4, <3>5, <3>6
  <2> QED
    BY <1>2, <2>2, <2>3, <2>4 DEF PageInOrder
<1> QED
  BY <1>2, <1>4, <1>5 DEF ViewInv

LEMMA ViewAgent ==
  ASSUME ApiInv, ViewInv, Ingest \/ Report \/ PipelineFails
  PROVE  ViewInv'
<1>1. UNCHANGED <<link, view>>
  BY DEF Ingest, Report, PipelineFails, agent_vars, dashboard_vars
<1>2. IsStore(snapshot) /\ Began /\ Began'
  BY TurnAdvances DEF ViewInv
<1>3. ASSUME NEW a, Record(<<a>>), NextStore(snapshot, a) PROVE ViewInv'
  <2>1. <<a>> \in Seq({a}) /\ <<a>> # <<>> /\ Last(<<a>>) = a /\ Len(<<a>>) = 1 /\ <<a>>[1] = a
    BY DEF Last
  <2>2. IsStore(a) /\ Before(a, a) /\ Before(snapshot, a)
    BY <1>3, BeforeItself DEF NextStore
  <2>3. InOrder(<<a>>, a) /\ AfterAll(<<a>>, snapshot)
    BY <2>1, <2>2 DEF InOrder, AfterAll
  <2> QED
    BY <1>1, <1>2, <1>3, <2>1, <2>3, ViewRecord
<1>4. ASSUME NEW a, NEW b, Record(<<a, b>>), NextStore(snapshot, a), NextStore(a, b) PROVE ViewInv'
  <2>1. /\ <<a, b>> \in Seq({a, b}) /\ <<a, b>> # <<>> /\ Last(<<a, b>>) = b
        /\ Len(<<a, b>>) = 2 /\ <<a, b>>[1] = a /\ <<a, b>>[2] = b
    BY DEF Last
  <2>2. /\ IsStore(a) /\ IsStore(b) /\ Before(a, b) /\ Before(b, b)
        /\ Before(snapshot, a) /\ Before(snapshot, b)
    BY <1>2, <1>4, BeforeItself, BeforeIsTransitive DEF NextStore
  <2>3. InOrder(<<a, b>>, b) /\ AfterAll(<<a, b>>, snapshot)
    BY <2>1, <2>2 DEF InOrder, AfterAll
  <2> QED
    BY <1>1, <1>2, <1>4, <2>1, <2>3, ViewRecord
<1> QED
  BY <1>2, <1>3, <1>4, TurnAdvances

LEMMA ViewConnect ==
  ASSUME ApiInv, ViewInv, NEW d \in Dashboards, Connect(d)
  PROVE  ViewInv'
<1>1. PICK k \in Connections : Unused(k) /\ handleEvents(d, k)
  BY DEF Connect
<1>2. /\ link[d] = 0 /\ UNCHANGED <<snapshot, yielded, view>>
      /\ wire' = [wire EXCEPT ![k] = <<snapshot>>] /\ link' = [link EXCEPT ![d] = k]
  BY <1>1 DEF Connect, handleEvents, store_vars, agent_vars
<1>3. \A e \in Dashboards : link[e] # 0 => link[e] # k
  BY <1>1 DEF Unused, Attached
<1>4. \A e \in Dashboards : link'[e] = IF e = d THEN k ELSE link[e]
  BY <1>2 DEF ApiInv, WireTypes
<1>5. \A j \in Connections : wire'[j] = IF j = k THEN <<snapshot>> ELSE wire[j]
  BY <1>2 DEF ApiInv, WireTypes
<1>6. IsStore(snapshot) /\ Before(snapshot, snapshot)
  BY BeforeItself DEF ViewInv
<1>7. Len(<<snapshot>>) = 1 /\ <<snapshot>>[1] = snapshot
  OBVIOUS
<1>8. ASSUME NEW e \in Dashboards PROVE PageInOrder(e)'
  <2>1. PageInOrder(e) /\ view'[e] = view[e]
    BY <1>2 DEF ViewInv
  <2>2. CASE e = d
    <3>1. wire'[link'[e]] = <<snapshot>>
      BY <1>1, <1>4, <1>5, <2>2
    <3>2. InOrder(<<snapshot>>, snapshot)
      BY <1>6, <1>7 DEF InOrder
    <3>3. view[e] # <<>> => AfterAll(<<snapshot>>, view[e][1])
      BY <1>7, <2>1 DEF AfterAll, PageInOrder
    <3> QED
      BY <1>2, <2>1, <3>1, <3>2, <3>3 DEF PageInOrder
  <2>3. CASE e # d
    <3>1. link'[e] = link[e] /\ (link[e] # 0 => wire'[link[e]] = wire[link[e]])
      BY <1>3, <1>4, <1>5, <2>3 DEF ApiInv, Links
    <3> QED
      BY <1>2, <2>1, <3>1 DEF PageInOrder
  <2> QED
    BY <2>2, <2>3
<1> QED
  BY <1>2, <1>6, <1>8 DEF ViewInv, Began

LEMMA ViewReceive ==
  ASSUME ApiInv, ViewInv, NEW d \in Dashboards, Receive(d)
  PROVE  ViewInv'
<1> DEFINE k == link[d]
<1>1. /\ k # 0 /\ wire[k] # <<>> /\ UNCHANGED <<snapshot, yielded, link>>
      /\ view' = [view EXCEPT ![d] = <<Head(wire[k])>>]
      /\ wire' = [wire EXCEPT ![k] = Tail(wire[k])]
  BY DEF Receive, store_vars, agent_vars
<1>2. k \in Connections /\ \A e \in Dashboards \ {d} : link[e] # k
  BY <1>1 DEF ApiInv, Links
<1>3. PICK X : wire[k] \in Seq(X)
  BY <1>2 DEF ApiInv, WireTypes
<1>4. \A j \in Connections : wire'[j] = IF j = k THEN Tail(wire[k]) ELSE wire[j]
  BY <1>1 DEF ApiInv, WireTypes
<1>5. \A e \in Dashboards : view'[e] = IF e = d THEN <<Head(wire[k])>> ELSE view[e]
  BY <1>1 DEF ApiInv, WireTypes
<1> DEFINE w == wire[k]
           h == Head(w)
<1>6. /\ Len(w) \in Nat \ {0} /\ h = w[1] /\ Len(Tail(w)) = Len(w) - 1
      /\ \A i \in 1..(Len(w) - 1) : Tail(w)[i] = w[i + 1]
  BY <1>1, <1>3
<1>7. InOrder(w, snapshot)
  BY <1>1 DEF ViewInv, PageInOrder
<1> HIDE DEF k, w, h
<1>8. 1 \in 1..Len(w) /\ IsStore(h) /\ Before(h, snapshot)
  BY <1>6, <1>7 DEF InOrder
<1>9. \A i \in 1..Len(Tail(w)) :
        /\ i + 1 \in 1..Len(w) /\ 1 < i + 1 /\ Tail(w)[i] = w[i + 1]
        /\ IsStore(Tail(w)[i]) /\ Before(Tail(w)[i], snapshot) /\ Before(h, Tail(w)[i])
  <2> SUFFICES ASSUME NEW i \in 1..(Len(w) - 1)
               PROVE  /\ i + 1 \in 1..Len(w) /\ 1 < i + 1 /\ Tail(w)[i] = w[i + 1]
                      /\ IsStore(w[i + 1]) /\ Before(w[i + 1], snapshot) /\ Before(w[1], w[i + 1])
    BY <1>6
  <2>1. i + 1 \in 1..Len(w) /\ 1 < i + 1
    BY <1>6
  <2> QED
    BY <1>6, <1>7, <1>8, <2>1 DEF InOrder
<1>10. \A i, j \in 1..Len(Tail(w)) : i < j => Before(Tail(w)[i], Tail(w)[j])
  <2> SUFFICES ASSUME NEW i \in 1..Len(Tail(w)), NEW j \in 1..Len(Tail(w)), i < j
               PROVE  Before(Tail(w)[i], Tail(w)[j])
    OBVIOUS
  <2>1. i + 1 < j + 1 /\ i + 1 \in 1..Len(w) /\ j + 1 \in 1..Len(w)
    BY <1>6, <1>9
  <2> QED
    BY <1>7, <1>9, <2>1 DEF InOrder
<1>11. InOrder(Tail(w), snapshot) /\ AfterAll(Tail(w), h)
  BY <1>9, <1>10 DEF InOrder, AfterAll
<1>12. ASSUME NEW e \in Dashboards PROVE PageInOrder(e)'
  <2>1. PageInOrder(e)
    BY DEF ViewInv
  <2>2. CASE e = d
    <3>1. view'[e] = <<h>> /\ <<h>>[1] = h /\ link'[e] = k /\ wire'[k] = Tail(w)
      BY <1>1, <1>2, <1>4, <1>5, <2>2 DEF k, w, h
    <3> QED
      BY <1>1, <1>8, <1>11, <3>1 DEF PageInOrder
  <2>3. CASE e # d
    <3>1. /\ view'[e] = view[e] /\ link'[e] = link[e]
          /\ link[e] # 0 => wire'[link[e]] = wire[link[e]]
      BY <1>1, <1>2, <1>4, <1>5, <2>3 DEF ApiInv, Links
    <3> QED
      BY <1>1, <2>1, <3>1 DEF PageInOrder
  <2> QED
    BY <2>2, <2>3
<1> QED
  BY <1>1, <1>12 DEF ViewInv, Began

\* Steps that move no snapshot, at most cut a dashboard off or start a new run.
LEMMA ViewKept ==
  ASSUME ApiInv, ViewInv, UNCHANGED <<snapshot, yielded, view>>,
         \A d \in Dashboards : link'[d] # 0 => link'[d] = link[d] /\ wire'[link[d]] = wire[link[d]]
  PROVE  ViewInv'
<1>1. ASSUME NEW d \in Dashboards PROVE PageInOrder(d)'
  <2>1. PageInOrder(d)
    BY DEF ViewInv
  <2> QED
    BY <2>1 DEF PageInOrder
<1> QED
  BY <1>1 DEF ViewInv, Began

LEMMA ViewVanish ==
  ASSUME ApiInv, ViewInv, NEW d \in Dashboards, Vanish(d)
  PROVE  ViewInv'
<1> DEFINE k == link[d]
<1>1. /\ k # 0 /\ UNCHANGED <<snapshot, yielded, view>>
      /\ link' = [link EXCEPT ![d] = 0] /\ wire' = [wire EXCEPT ![k] = <<>>]
  BY DEF Vanish, Drop, store_vars, agent_vars
<1>2. \A e \in Dashboards \ {d} : link[e] # k
  BY <1>1 DEF ApiInv, Links
<1>3. \A e \in Dashboards : link'[e] = IF e = d THEN 0 ELSE link[e]
  BY <1>1 DEF ApiInv, WireTypes
<1>4. \A j \in Connections : wire'[j] = IF j = k THEN <<>> ELSE wire[j]
  BY <1>1 DEF ApiInv, WireTypes
<1>5. \A e \in Dashboards : link'[e] # 0 => link'[e] = link[e] /\ wire'[link[e]] = wire[link[e]]
  BY <1>2, <1>3, <1>4 DEF ApiInv, Links
<1> QED
  BY <1>1, <1>5, ViewKept

LEMMA EmptyIsStore == \A run \in Nat : IsStore(Empty(run)) /\ Empty(run).run = run
<1> SUFFICES ASSUME NEW run \in Nat PROVE IsStore(Empty(run)) /\ Empty(run).run = run
  OBVIOUS
<1>1. <<>> = [i \in DOMAIN <<>> |-> <<>>[i]]
  OBVIOUS
<1> QED
  BY <1>1, EmptyAgrees DEF Empty, IsStore, StoreFields

\* A new run comes after everything shown or on its way.
LEMMA ViewRestart ==
  ASSUME ApiInv, ViewInv, Restart
  PROVE  ViewInv'
<1>1. snapshot' = Empty(snapshot.run + 1) /\ yielded' = FALSE /\ UNCHANGED <<wire, link, view>>
  BY DEF Restart, dashboard_vars
<1>2. IsStore(snapshot) /\ snapshot.run \in Nat /\ snapshot.run + 1 \in Nat
  BY DEF ViewInv, IsStore, StoreFields
<1>3. IsStore(snapshot') /\ snapshot'.run = snapshot.run + 1
  BY <1>1, <1>2, EmptyIsStore
<1>4. ASSUME NEW s, IsStore(s), Before(s, snapshot) PROVE Before(s, snapshot')
  <2>1. s.run \in Nat /\ s.run <= snapshot.run
    BY <1>4 DEF IsStore, StoreFields, Before
  <2>2. s.run <= snapshot'.run /\ s.run # snapshot'.run
    BY <1>2, <1>3, <2>1
  <2> QED
    BY <2>2 DEF Before, NotBefore
<1>5. ASSUME NEW d \in Dashboards PROVE PageInOrder(d)'
  <2>1. PageInOrder(d)
    BY DEF ViewInv
  <2>2. link[d] # 0 => InOrder(wire[link[d]], snapshot')
    BY <1>4, <2>1 DEF PageInOrder, InOrder
  <2>3. view[d] # <<>> => IsStore(view[d][1]) /\ Before(view[d][1], snapshot')
    BY <1>4, <2>1 DEF PageInOrder
  <2> QED
    BY <1>1, <2>1, <2>2, <2>3 DEF PageInOrder
<1> QED
  BY <1>1, <1>3, <1>5 DEF ViewInv, Began

LEMMA ViewStep == ApiInv /\ ViewInv /\ [Next]_vars => ViewInv'
<1> SUFFICES ASSUME ApiInv, ViewInv, [Next]_vars PROVE ViewInv'
  OBVIOUS
<1>1. CASE Ingest \/ Report \/ PipelineFails
  BY <1>1, ViewAgent
<1>2. CASE \E d \in Dashboards : Connect(d) \/ Receive(d) \/ Vanish(d)
  BY <1>2, ViewConnect, ViewReceive, ViewVanish
<1>3. CASE \/ PipelineEnds \/ Signal \/ (\E d \in Dashboards : Opened(d)) \/ UNCHANGED vars
           \/ (\E k \in Connections : Close(k)) \/ ServerClosed \/ Exit \/ Crash
  <2>1. UNCHANGED <<snapshot, yielded, view, link, wire>>
    BY <1>3 DEF PipelineEnds, Signal, Opened, vars, Close, ServerClosed, Exit, Crash,
                store_vars, agent_vars, dashboard_vars
  <2> QED
    BY <2>1, ViewKept
<1>4. CASE Restart
  BY <1>4, ViewRestart
<1> QED
  BY <1>1, <1>2, <1>3, <1>4 DEF Next, Browser, Shutdown

LEMMA ViewInit == Init => ViewInv
<1> SUFFICES ASSUME Init PROVE ViewInv
  OBVIOUS
<1>1. IsStore(snapshot)
  BY UnderwayAssumption, EmptyIsStore DEF Init
<1>2. \A d \in Dashboards : view[d] = <<>> /\ link[d] = 0
  BY DEF Init
<1>3. Began
  BY DEF Init, Began
<1> QED
  BY <1>1, <1>2, <1>3 DEF ViewInv, PageInOrder

\* A page changes only to the snapshot first on its own wire.
LEMMA PageMoves ==
  ASSUME ApiInv, ViewInv, [Next]_vars, NEW d \in Dashboards, view[d] # <<>>, view'[d] # <<>>
  PROVE  NotBefore(view[d][1], view'[d][1])
<1>1. IsStore(view[d][1]) /\ NotBefore(view[d][1], view[d][1])
  BY BeforeItself DEF ViewInv, PageInOrder, Before
<1>2. CASE UNCHANGED view
  BY <1>1, <1>2
<1>3. ASSUME NEW e \in Dashboards, Receive(e)
      PROVE  NotBefore(view[d][1], view'[d][1])
  <2>1. /\ link[e] # 0 /\ wire[link[e]] # <<>>
        /\ view' = [view EXCEPT ![e] = <<Head(wire[link[e]])>>]
    BY <1>3 DEF Receive
  <2>2. view'[d] = IF d = e THEN <<Head(wire[link[e]])>> ELSE view[d]
    BY <2>1 DEF ApiInv, WireTypes
  <2>3. CASE d # e
    BY <1>1, <2>2, <2>3
  <2>4. CASE d = e
    <3>1. link[e] \in Connections
      BY <2>1 DEF ApiInv, Links
    <3>2. PICK X : wire[link[e]] \in Seq(X)
      BY <3>1 DEF ApiInv, WireTypes
    <3>3. 1 \in 1..Len(wire[link[e]]) /\ Head(wire[link[e]]) = wire[link[e]][1]
      BY <2>1, <3>2
    <3>4. AfterAll(wire[link[e]], view[d][1])
      BY <2>1, <2>4 DEF ViewInv, PageInOrder
    <3>5. Before(view[d][1], Head(wire[link[e]]))
      BY <3>3, <3>4 DEF AfterAll
    <3>6. view'[d][1] = Head(wire[link[e]])
      BY <2>2, <2>4
    <3> QED
      BY <3>5, <3>6 DEF Before
  <2> QED
    BY <2>3, <2>4
<1>4. UNCHANGED view \/ \E e \in Dashboards : Receive(e)
  BY DEF Next, Browser, Shutdown, Ingest, Report, PipelineFails, PipelineEnds, Connect, Opened,
         Vanish, Close, Signal, ServerClosed, Exit, Crash, Restart, dashboard_vars, vars
<1> QED
  BY <1>2, <1>3, <1>4

\* However a dashboard loses its connection and comes back, its page does not go
\* back within a run of the agent: no counter, position or phase is taken away
\* (useAgentState over the snapshots of state-store.ts).
THEOREM PagesOnlyAdvance == Spec => ViewsOnlyAdvance
<1> DEFINE Moves == \A d \in Dashboards :
             view[d] # <<>> /\ view'[d] # <<>> => NotBefore(view[d][1], view'[d][1])
<1>1. ApiInv /\ ViewInv /\ [Next]_vars => [Moves]_vars
  BY PageMoves
<1> QED
  BY <1>1, ApiInit, ApiStep, ViewInit, ViewStep, PTL DEF Spec, ViewsOnlyAdvance
----------------------------------------------------------------------------
(***************************************************************************)
(* The numbers of a page agree: they are those of one store, and its       *)
(* equity line adds up what the settlements of that store paid.            *)
(***************************************************************************)
SettledPairs(s) == {p \in Settled(s) \X Settled(s) : SettledBefore(s, p[1], p[2])}

\* Settlements are in one order: by time, then by index.
LEMMA SettlementsAreOrdered ==
  ASSUME NEW s, IsStore(s)
  PROVE  /\ IsFiniteSet(Settled(s)) /\ Settled(s) \subseteq Positions
         /\ \A i \in Settled(s) : s.positions[i].settlement[1].pnl = Pnl[i] /\ Pnl[i] \in Int
         /\ StrictTotalOrder(SettledPairs(s), Settled(s))
<1>1. IsFiniteSet(Settled(s)) /\ Settled(s) \subseteq Positions
  <2>1. Settled(s) \subseteq DOMAIN s.positions
    BY DEF Settled
  <2> QED
    BY <2>1, FS_Subset DEF IsStore, StoreAgrees
<1> DEFINE at(i) == s.positions[i].settlement[1].settledAtMs
<1>2. ASSUME NEW i \in Settled(s)
      PROVE  s.positions[i].settlement[1].pnl = Pnl[i] /\ Pnl[i] \in Int /\ at(i) \in Int /\ i \in Nat
  <2>1. HeldWell(s, i) /\ s.positions[i].settlement # <<>>
    BY AgreementOf DEF Settled, IsStore
  <2>2. PICK atMs, proven : atMs \in Int /\ s.positions[i].settlement = Paid(Pnl[i], atMs, proven)
    BY <2>1 DEF HeldWell
  <2>3. s.positions[i].settlement[1].pnl = Pnl[i] /\ at(i) = atMs
    BY <2>2, PaidFields
  <2> QED
    BY <1>1, <2>2, <2>3, ApiAssumption
<1>3. \A i, j \in Settled(s) :
        <<i, j>> \in SettledPairs(s) <=> at(i) < at(j) \/ (at(i) = at(j) /\ i < j)
  BY DEF SettledPairs, SettledBefore
<1>4. \A i \in Settled(s) : at(i) \in Int /\ i \in Nat
  BY <1>2
<1> HIDE DEF at
<1>5. StrictTotalOrder(SettledPairs(s), Settled(s))
  <2>1. \A i \in Settled(s) : <<i, i>> \notin SettledPairs(s)
    BY <1>3, <1>4
  <2>2. \A i, j, k \in Settled(s) :
          <<i, j>> \in SettledPairs(s) /\ <<j, k>> \in SettledPairs(s) => <<i, k>> \in SettledPairs(s)
    BY <1>3, <1>4
  <2>3. \A i, j \in Settled(s) :
          i = j \/ <<i, j>> \in SettledPairs(s) \/ <<j, i>> \in SettledPairs(s)
    <3> SUFFICES ASSUME NEW i \in Settled(s), NEW j \in Settled(s)
                 PROVE  i = j \/ <<i, j>> \in SettledPairs(s) \/ <<j, i>> \in SettledPairs(s)
      OBVIOUS
    <3>1. at(i) \in Int /\ at(j) \in Int /\ i \in Nat /\ j \in Nat
      BY <1>4
    <3>2. \/ at(i) < at(j) \/ at(j) < at(i)
          \/ at(i) = at(j) /\ (i < j \/ j < i \/ i = j)
      BY <3>1
    <3> QED
      BY <1>3, <3>2
  <2> QED
    BY <2>1, <2>2, <2>3, Zenon DEF StrictTotalOrder
<1> QED
  BY <1>1, <1>2, <1>5

\* settledInOrder gives each of them its place.
LEMMA EachHasItsPlace ==
  ASSUME NEW s, IsStore(s)
  PROVE  LET order == settledInOrder(s)  N == Cardinality(Settled(s)) IN
         /\ N \in Nat /\ order \in Seq(Settled(s)) /\ Len(order) = N
         /\ \A i \in Settled(s) : \E n \in 1..N : order[n] = i
         /\ \A m, n \in 1..N : order[m] = order[n] => m = n
<1> DEFINE S == Settled(s)
           R == SettledPairs(s)
           N == Cardinality(S)
           order == settledInOrder(s)
<1>1. IsFiniteSet(S) /\ StrictTotalOrder(R, S)
  BY SettlementsAreOrdered
<1>2. \A i \in S : {j \in S : SettledBefore(s, j, i)} = {j \in S : <<j, i>> \in R}
  BY DEF SettledPairs
<1>3. \A i \in S : Cardinality({j \in S : SettledBefore(s, j, i)}) = RankIn(R, S, i)
  BY <1>2 DEF RankIn
<1>4. /\ N \in Nat
      /\ \A n \in 1..N : AtPlace(R, S, n) \in S /\ RankIn(R, S, AtPlace(R, S, n)) = n - 1
      /\ \A i \in S : \E n \in 1..N : AtPlace(R, S, n) = i
  BY <1>1, PlacesAreElements
<1>5. ASSUME NEW n \in 1..N PROVE order[n] \in S /\ RankIn(R, S, order[n]) = n - 1
  <2>1. order[n] = CHOOSE i \in S : Cardinality({j \in S : SettledBefore(s, j, i)}) = n - 1
    BY <1>5 DEF settledInOrder
  <2>2. \E i \in S : Cardinality({j \in S : SettledBefore(s, j, i)}) = n - 1
    <3> HIDE DEF S, R
    <3> QED
      BY <1>3, <1>4
  <2>3. order[n] \in S /\ Cardinality({j \in S : SettledBefore(s, j, order[n])}) = n - 1
    <3> HIDE DEF S, order
    <3> QED
      BY <2>1, <2>2, Zenon
  <2> QED
    BY <1>3, <2>3, Zenon
<1>6. order = [n \in 1..N |-> order[n]]
  BY DEF settledInOrder
<1> HIDE DEF order, S, R
<1>7. order \in [1..N -> S]
  BY <1>5, <1>6
<1>8. order \in Seq(S) /\ Len(order) = N
  BY <1>4, <1>7
<1>9. \A m, n \in 1..N : order[m] = order[n] => m = n
  BY <1>4, <1>5
<1>10. ASSUME NEW i \in S PROVE \E n \in 1..N : order[n] = i
  <2>1. PICK n \in 1..N : RankIn(R, S, i) = n - 1
    BY <1>4
  <2>2. order[n] = i
    BY <1>1, <1>5, <2>1, RankIsOrder
  <2> QED
    BY <2>2
<1> QED
  BY <1>4, <1>8, <1>9, <1>10 DEF order, S, N

\* The equity line ends at the bankroll.
LEMMA LineEndsAtBankroll ==
  ASSUME NEW s, IsStore(s)
  PROVE  buildEquitySeries(s)[Cardinality(Settled(s))] = startingBankroll + s.realizedPnl
<1> DEFINE S == Settled(s)
           N == Cardinality(S)
           order == settledInOrder(s)
           val == [i \in S |-> s.positions[i].settlement[1].pnl]
           line == buildEquitySeries(s)
           step(g, n) == IF n = 0 THEN startingBankroll
                         ELSE g[n - 1] + s.positions[order[n]].settlement[1].pnl
<1>1. /\ N \in Nat /\ order \in Seq(S) /\ Len(order) = N
      /\ \A i \in S : \E n \in 1..N : order[n] = i
      /\ \A m, n \in 1..N : order[m] = order[n] => m = n
  BY EachHasItsPlace
<1>2. IsFiniteSet(S) /\ \A i \in S : s.positions[i].settlement[1].pnl = Pnl[i] /\ Pnl[i] \in Int
  BY SettlementsAreOrdered
<1>3. line = CHOOSE g : g = [n \in 0..Len(order) |-> step(g, n)]
  BY DEF buildEquitySeries
<1> HIDE DEF order, line, S
<1>4. \A n \in 1..N : order[n] \in S
  BY <1>1
<1>5. \A k \in 1..N : val[order[k]] = s.positions[order[k]].settlement[1].pnl /\ val[order[k]] \in Int
  BY <1>2, <1>4
<1>6. ASSUME NEW g
      PROVE  Runs(g, startingBankroll, order, val, N) <=> g = [n \in 0..Len(order) |-> step(g, n)]
  <2>1. [n \in 0..N |-> IF n = 0 THEN startingBankroll ELSE g[n - 1] + val[order[n]]]
          = [n \in 0..N |-> step(g, n)]
    <3>1. \A n \in 0..N : n = 0 \/ n \in 1..N
      BY <1>1
    <3>2. ASSUME NEW n \in 0..N
          PROVE  (IF n = 0 THEN startingBankroll ELSE g[n - 1] + val[order[n]]) = step(g, n)
      BY <1>5, <3>1
    <3> HIDE DEF step, val
    <3> QED
      BY <3>2
  <2> QED
    BY <1>1, <2>1, Zenon DEF Runs
<1> HIDE DEF step
<1>7. startingBankroll \in Int /\ \A k \in 1..N : val[order[k]] \in Int
  BY <1>5, ApiAssumption
<1> HIDE DEF val, N
<1>8. /\ \E g : Runs(g, startingBankroll, order, val, N)
      /\ \A g : Runs(g, startingBankroll, order, val, N) => AddsUp(g, startingBankroll, order, val, N)
  <2>1. N \in Nat /\ startingBankroll \in Int
    BY <1>1, <1>7
  <2>2. \A k \in 1..N : val[order[k]] \in Int
    BY <1>7
  <2>3. \A j, k \in 1..N : order[j] = order[k] => j = k
    BY <1>1
  <2> QED
    BY <2>1, <2>2, <2>3, RunningSum
<1>9. line = [n \in 0..Len(order) |-> step(line, n)]
  BY <1>3, <1>6, <1>8, Zenon
<1>10. line[N] = startingBankroll + SumOfFirst(order, val, N)
  <2>1. Runs(line, startingBankroll, order, val, N)
    BY <1>6, <1>9, Zenon
  <2>2. N \in 0..N
    BY <1>1
  <2> QED
    BY <1>8, <2>1, <2>2, Zenon DEF AddsUp
<1>11. SumOfFirst(order, val, N) = s.realizedPnl
  <2>1. First(order, N) = S
    BY <1>1, <1>4 DEF First
  <2>2. SumOfFirst(order, val, N) = SumFunction([i \in S |-> val[i]])
    BY <2>1, Zenon DEF SumOfFirst
  <2>3. [i \in S |-> val[i]] = [i \in S |-> Pnl[i]]
    BY <1>2 DEF val
  <2>4. s.realizedPnl = SumFunction([i \in S |-> Pnl[i]])
    BY Zenon DEF IsStore, StoreAgrees, S
  <2> QED
    BY <2>2, <2>3, <2>4
<1> QED
  BY <1>10, <1>11 DEF line, N, S

\* The phases of a store are done from the left.
LEMMA PhasesFromTheLeft ==
  ASSUME NEW s, IsStore(s)
  PROVE  /\ s.settlesCount = Cardinality(Settled(s))
         /\ "Settle" \in derivePhases(s) => "Commit" \in derivePhases(s)
         /\ "Commit" \in derivePhases(s) => "Ingest" \in derivePhases(s)
<1>1. s.settlesCount = Cardinality(Settled(s)) /\ (s.positions # <<>> => s.eventsProcessed > 0)
  BY DEF IsStore, StoreAgrees
<1>2. s.settlesCount > 0 => s.positions # <<>>
  <2> SUFFICES ASSUME s.positions = <<>> PROVE ~(s.settlesCount > 0)
    OBVIOUS
  <2>1. Settled(s) = {}
    BY DEF Settled
  <2>2. s.settlesCount = 0
    BY <1>1, <2>1, FS_EmptySet
  <2> QED
    BY <2>2
<1>3. /\ "Settle" \in derivePhases(s) <=> s.settlesCount > 0
      /\ "Commit" \in derivePhases(s) <=> s.positions # <<>>
      /\ "Ingest" \in derivePhases(s) <=> s.eventsProcessed > 0
  BY DEF derivePhases
<1> QED
  BY <1>1, <1>2, <1>3

\* Types, for every step of the agent, its server and its dashboards.
LEMMA TypesOfATurn ==
  ASSUME TypeOK, ViewInv, Ingest \/ Report \/ PipelineFails
  PROVE  /\ snapshot'.run = snapshot.run /\ Len(snapshot'.recentErrors) <= MAX_RECENT_ERRORS
         /\ updates' \in 0..(MaxUpdates + 1) /\ listeners' \subseteq listeners
<1>1. PICK states : /\ Record(states) /\ Len(states) \in 1..2
                    /\ NextStore(snapshot, Last(states)) \/ \E t : NextStore(snapshot, t)
                                                            /\ NextStore(t, Last(states))
  <2>1. \A a, b : /\ Last(<<a>>) = a /\ Last(<<a, b>>) = b
                  /\ Len(<<a>>) \in 1..2 /\ Len(<<a, b>>) \in 1..2
    BY DEF Last
  <2> QED
    BY <2>1, TurnAdvances DEF ViewInv
<1>2. snapshot' = Last(states) /\ updates' = updates + Len(states) /\ listeners' \subseteq listeners
  BY <1>1 DEF Record, emit
<1>3. updates \in Nat /\ updates < MaxUpdates /\ MaxUpdates \in Nat
  BY ApiAssumption DEF TypeOK, Ingest, Report, PipelineFails, Working
<1>4. snapshot'.run = snapshot.run /\ IsStore(snapshot')
  BY <1>1, <1>2 DEF NextStore
<1>5. Len(snapshot'.recentErrors) <= MAX_RECENT_ERRORS
  BY <1>4 DEF IsStore, StoreAgrees
<1>6. updates' \in 0..(MaxUpdates + 1)
  <2>1. \A n \in 1..2 : updates + n \in 0..(MaxUpdates + 1)
    BY <1>3
  <2> QED
    BY <1>1, <1>2, <2>1
<1> QED
  BY <1>2, <1>4, <1>5, <1>6

LEMMA ApiTypeStep ==
  ASSUME TypeOK, ApiInv, ViewInv, [Next]_vars
  PROVE  TypeOK'
<1>1. CASE Ingest \/ Report \/ PipelineFails
  <2>1. /\ UNCHANGED <<process, open, link, connected>>
        /\ yielded' \in BOOLEAN /\ pipeline' \in {"running", "over"}
    BY <1>1 DEF TypeOK, Ingest, Tap, Report, PipelineFails, agent_vars, dashboard_vars
  <2> QED
    BY <1>1, <2>1, TypesOfATurn DEF TypeOK
<1>2. ASSUME NEW d \in Dashboards, Connect(d) PROVE TypeOK'
  <2>1. PICK k \in Connections : handleEvents(d, k)
    BY <1>2 DEF Connect
  <2>2. k \in 0..MaxConnections /\ k # 0
    BY ApiAssumption DEF Connections
  <2> QED
    BY <1>2, <2>1, <2>2 DEF TypeOK, Connect, handleEvents, store_vars, agent_vars
<1>3. ASSUME NEW d \in Dashboards, Vanish(d) PROVE TypeOK'
  <2>1. 0 \in 0..MaxConnections
    BY ApiAssumption
  <2> QED
    BY <1>3, <2>1 DEF TypeOK, Vanish, Drop, store_vars, agent_vars, server_vars
<1>4. ASSUME NEW d \in Dashboards, Opened(d) \/ Receive(d) PROVE TypeOK'
  BY <1>4 DEF TypeOK, Opened, Receive, store_vars, agent_vars, server_vars
<1>5. CASE \/ PipelineEnds \/ (\E k \in Connections : Close(k)) \/ Signal \/ ServerClosed
           \/ Exit \/ Crash \/ UNCHANGED vars
  BY <1>5 DEF TypeOK, PipelineEnds, Close, cleanup, Signal, ServerClosed, Exit, Crash, vars,
              store_vars, agent_vars, server_vars, dashboard_vars
<1>6. CASE Restart
  <2>1. /\ snapshot' = Empty(snapshot.run + 1) /\ snapshot.run < MaxRuns
        /\ yielded' = FALSE /\ pipeline' = "running" /\ process' = "running"
        /\ UNCHANGED <<updates, open, listeners, link, connected>>
    BY <1>6 DEF Restart, server_vars, dashboard_vars
  <2>2. /\ snapshot.run \in 1..MaxRuns /\ MaxRuns \in Nat /\ MAX_RECENT_ERRORS \in Nat
    BY ApiAssumption DEF TypeOK
  <2>3. snapshot'.run = snapshot.run + 1 /\ snapshot'.recentErrors = <<>>
    BY <2>1 DEF Empty
  <2>4. snapshot'.run \in 1..MaxRuns /\ Len(snapshot'.recentErrors) <= MAX_RECENT_ERRORS
    BY <2>1, <2>2, <2>3
  <2> QED
    BY <2>1, <2>4 DEF TypeOK
<1> QED
  BY <1>1, <1>2, <1>3, <1>4, <1>5, <1>6 DEF Next, Browser, Shutdown

LEMMA ApiTypeInit == Init => TypeOK
<1> SUFFICES ASSUME Init PROVE TypeOK
  OBVIOUS
<1>1. /\ MaxRuns \in Nat \ {0} /\ MaxUpdates \in Nat /\ MaxConnections \in Nat
      /\ MAX_RECENT_ERRORS \in Nat
  BY ApiAssumption
<1>2. snapshot.run = 1 /\ Len(snapshot.recentErrors) <= MAX_RECENT_ERRORS
  <2>1. CASE snapshot \in Underway
    BY <2>1, UnderwayAssumption DEF IsStore, StoreAgrees
  <2>2. CASE snapshot = Empty(1)
    BY <1>1, <2>2 DEF Empty
  <2> QED
    BY <2>1, <2>2 DEF Init
<1> QED
  BY <1>1, <1>2 DEF Init, TypeOK

\* The numbers of one page agree, of every page at every moment: the equity line
\* ends at the bankroll, the settle count is that of the positions shown as
\* settled, and no phase is done before the one to its left (state-store.ts,
\* series.ts, App.tsx).
THEOREM PagesAgree == Spec => []PageAgrees
<1>1. TypeOK /\ ViewInv => PageAgrees
  <2> SUFFICES ASSUME TypeOK, ViewInv, NEW d \in Dashboards, view[d] # <<>>
               PROVE  LET s == view[d][1]  line == buildEquitySeries(s) IN
                      /\ line[Cardinality(Settled(s))] = startingBankroll + s.realizedPnl
                      /\ s.settlesCount = Cardinality(Settled(s))
                      /\ "Settle" \in derivePhases(s) => "Commit" \in derivePhases(s)
                      /\ "Commit" \in derivePhases(s) => "Ingest" \in derivePhases(s)
    BY DEF PageAgrees
  <2>1. IsStore(view[d][1])
    BY DEF ViewInv, PageInOrder
  <2> QED
    BY <2>1, LineEndsAtBankroll, PhasesFromTheLeft
<1> QED
  BY <1>1, ApiInit, ApiStep, ViewInit, ViewStep, ApiTypeInit, ApiTypeStep, PTL DEF Spec
=============================================================================
