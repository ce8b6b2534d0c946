----------------------------- MODULE ReplayFeed -----------------------------
(***************************************************************************)
(* ReplayFeed of packages/txline/src/feed/replay.ts: it fetches a window   *)
(* of five-minute intervals, odds before scores, from a recording or       *)
(* through the TxLINE client, drops what it has seen, maps the rest, sorts *)
(* it and emits it under a manual clock.  The other callers of the client  *)
(* go on meanwhile.                                                        *)
(***************************************************************************)
EXTENDS TxlineClient, WireMapping

CONSTANTS
  replay,         (* the caller that is the feed                            *)
  OddsRecords,    (* the records the API may send on each channel           *)
  ScoreRecords,
  Recordings,     (* what the server, or the recording, may hold            *)
  startMs         (* where the manual clock starts                          *)

ASSUME ReplayAssumption ==
  /\ replay \in Callers /\ startMs \in Nat
  /\ \A raw \in OddsRecords \cup ScoreRecords : raw.Ts \in Nat
  /\ Recordings \subseteq [source : {"client", "recorded"},
                          odds : Seq(Seq(OddsRecords)), scores : Seq(Seq(ScoreRecords))]
  /\ \A window \in Recordings : Len(window.odds) = Len(window.scores)

VARIABLES
  recording,   (* where the window comes from ("client" or "recorded") and, *)
               (* by channel, its raw records, a sequence per interval      *)
  position,    (* the next batch: interval 1 odds, interval 1 scores, ...   *)
  phase,       (* "fetching", "awaiting", "emitting", "over" or "thrown"    *)
  seen,        (* IdempotencyTracker                                        *)
  pending,
  gaps,
  missed,      (* history: the batches that could not be fetched            *)
  stopped,
  clockMs,     (* ManualClock                                               *)
  emitted,
  done         (* the FeedRunResult, or None                                *)

fetch_vars == <<seen, pending, gaps, missed, position>>
feed_vars == <<recording, phase, fetch_vars, stopped, clockMs, emitted, done>>
vars == <<client_vars, feed_vars>>

Batches == 2 * Len(recording.odds)
Channel(p) == IF p % 2 = 1 THEN "odds" ELSE "scores"
Batch(p) == recording[Channel(p)][(p + 1) \div 2]

\* A record of the window is known by its batch and its index there.
Places == UNION {{p} \X DOMAIN Batch(p) : p \in 1..Batches}
Raw(place) == Batch(place[1])[place[2]]
----------------------------------------------------------------------------
KeyOf(channel, raw) ==
  IF channel = "odds" THEN <<channel, raw.MessageId>> ELSE <<channel, raw.FixtureId, raw.Seq>>

Mapped(channel, raw) == IF channel = "odds" THEN mapOddsPayload(raw) ELSE mapScorePayload(raw)

ChannelRank(channel) == IF channel = "odds" THEN 0 ELSE 1

KeyAt(place) == KeyOf(Channel(place[1]), Raw(place))
MappedAt(place) == Mapped(Channel(place[1]), Raw(place))
RankAt(place) == ChannelRank(Channel(place[1]))

\* What is pushed to pending; from is history.
Pushed(place, order) ==
  [channelRank |-> RankAt(place), tsMs |-> MappedAt(place).value.tsMs, order |-> order,
   payload |-> MappedAt(place).value, from |-> place]

AcceptEveryCopy(acc, place) ==                                         \* mutant
  [seen |-> acc.seen \cup {KeyAt(place)},
   pending |-> IF MappedAt(place).ok THEN Append(acc.pending, Pushed(place, Len(acc.pending)))
               ELSE acc.pending]

\* The first copy of a key counts, even when it cannot be mapped.
Accept(acc, place) ==
  IF KeyAt(place) \in acc.seen THEN acc
  ELSE [seen |-> acc.seen \cup {KeyAt(place)},
        pending |-> IF MappedAt(place).ok
                    THEN Append(acc.pending, Pushed(place, Len(acc.pending)))
                    ELSE acc.pending]

\* The loop over the records of a batch, after each of them.
Taken ==
  LET taken[n \in 0..Len(Batch(position))] ==
        IF n = 0 THEN [seen |-> seen, pending |-> pending]
        ELSE Accept(taken[n - 1], <<position, n>>)
  IN  taken

TakeBatch ==
  /\ seen' = Taken[Len(Batch(position))].seen
  /\ pending' = Taken[Len(Batch(position))].pending
  /\ gaps' = gaps

SkipBatchSilently == UNCHANGED <<seen, pending, gaps>>                 \* mutant

SkipBatch == gaps' = gaps + 1 /\ UNCHANGED <<seen, pending>>

Advance(to) ==
  /\ phase' = to
  /\ UNCHANGED <<recording, stopped, clockMs, emitted, done>>

\* A recorded source answers at once and never fails.
FetchRecorded ==
  /\ phase = "fetching" /\ position <= Batches /\ recording.source = "recorded"
  /\ TakeBatch
  /\ position' = position + 1
  /\ Advance("fetching")
  /\ UNCHANGED <<client_vars, missed>>

FetchFromClient ==
  /\ phase = "fetching" /\ position <= Batches /\ recording.source = "client"
  /\ Call(replay)
  /\ Advance("awaiting")
  /\ UNCHANGED fetch_vars

Fetched ==
  /\ phase = "awaiting"
  /\ Return(replay)
  /\ IF outcome[replay] = "ok" THEN TakeBatch ELSE SkipBatch
  /\ missed' = IF outcome[replay] = "ok" THEN missed ELSE missed \cup {position}
  /\ position' = position + 1
  /\ Advance("fetching")

BeforeByTimeAlone(a, b) == a.tsMs < b.tsMs                             \* mutant

\* The comparator of pending.sort.
Before(a, b) ==
  \/ a.tsMs < b.tsMs
  \/ a.tsMs = b.tsMs /\ a.channelRank < b.channelRank
  \/ a.tsMs = b.tsMs /\ a.channelRank = b.channelRank /\ a.order < b.order

\* A stable sort: the n-th has n - 1 before it.
Precedes(j, k) ==
  Before(pending[j], pending[k]) \/ (~Before(pending[k], pending[j]) /\ j < k)

Sorted ==
  [n \in 1..Len(pending) |->
     pending[CHOOSE k \in DOMAIN pending :
               Cardinality({j \in DOMAIN pending : Precedes(j, k)}) = n - 1]]

Sort ==
  /\ phase = "fetching" /\ position > Batches
  /\ pending' = Sorted
  /\ Advance("emitting")
  /\ UNCHANGED <<client_vars, seen, gaps, missed, position>>

\* ManualClock.setMs: backward moves are ignored.
setMs(to) == clockMs' = IF to > clockMs THEN to ELSE clockMs

\* The consumer pulls the next event.
Emit ==
  /\ phase = "emitting" /\ pending # <<>> /\ ~stopped
  /\ setMs(Head(pending).tsMs)
  /\ emitted' = Append(emitted, [seq |-> Len(emitted), receivedAtMs |-> clockMs',
                                 channelRank |-> Head(pending).channelRank,
                                 payload |-> Head(pending).payload, from |-> Head(pending).from])
  /\ pending' = Tail(pending)
  /\ UNCHANGED <<client_vars, recording, phase, seen, gaps, missed, position, stopped, done>>

Finish ==
  /\ phase = "emitting" /\ (pending = <<>> \/ stopped)
  /\ done' = Some([eventsEmitted |-> Len(emitted), gapsDetected |-> gaps, reconnects |-> 0])
  /\ phase' = "over"
  /\ UNCHANGED <<client_vars, recording, fetch_vars, stopped, clockMs, emitted>>

\* The consumer throws while it holds an event: the generator returns from its
\* yield and done() stays pending.
ConsumerThrows ==
  /\ phase = "emitting" /\ emitted # <<>>
  /\ Advance("thrown")
  /\ UNCHANGED <<client_vars, fetch_vars>>

stop ==
  /\ ~stopped
  /\ stopped' = TRUE
  /\ UNCHANGED <<client_vars, recording, phase, fetch_vars, clockMs, emitted, done>>

\* The other callers, and the server.
Others == \E c \in Callers \ {replay} : Call(c) \/ Return(c)
Network == (ClientStep \/ Others) /\ UNCHANGED feed_vars
----------------------------------------------------------------------------
Init ==
  /\ ClientInit
  /\ recording \in Recordings
  /\ position = 1 /\ phase = "fetching"
  /\ seen = {} /\ pending = <<>> /\ gaps = 0 /\ missed = {}
  /\ stopped = FALSE /\ clockMs = startMs /\ emitted = <<>> /\ done = None

FeedStep == FetchRecorded \/ FetchFromClient \/ Fetched \/ Sort \/ Emit \/ Finish

Next == FeedStep \/ ConsumerThrows \/ stop \/ Network

Spec == Init /\ [][Next]_vars

----------------------------------------------------------------------------
\* The records a window is made of: of those that could be fetched, the first
\* copy of each key in the order of fetching, if it can be mapped.
Earlier(p, q) == p[1] < q[1] \/ (p[1] = q[1] /\ p[2] < q[2])
Answered == {p \in Places : p[1] \notin missed}
FirstCopies == {p \in Answered : \A q \in Answered : Earlier(q, p) => KeyAt(q) # KeyAt(p)}
Emittable == {p \in FirstCopies : MappedAt(p).ok}

TsAt(place) == MappedAt(place).value.tsMs
Sooner(p, q) ==
  \/ TsAt(p) < TsAt(q)
  \/ TsAt(p) = TsAt(q) /\ RankAt(p) < RankAt(q)
  \/ TsAt(p) = TsAt(q) /\ RankAt(p) = RankAt(q) /\ Earlier(p, q)

\* Events come out in one order, whatever the order they were fetched in: by
\* time, odds before scores, and then as fetched; and the clock the consumer
\* reads never runs behind or ahead of them.
EmissionIsOrdered ==
  \A i \in DOMAIN emitted :
    /\ emitted[i].receivedAtMs = IF emitted[i].payload.tsMs > startMs THEN emitted[i].payload.tsMs
                                 ELSE startMs
    /\ \A j \in 1..(i - 1) : Sooner(emitted[j].from, emitted[i].from)

\* What a replay makes of its window: it emits the first copy of each key that
\* could be fetched, where that copy can be mapped, as it was sent and once; one
\* that has ended by itself has emitted all of them; and gapsDetected counts the
\* batches that could not be fetched and nothing else.  A first copy that cannot
\* be mapped is in no count and takes the later, good copies of its key with it:
\* the key is accepted before the record is mapped, and only a failed fetch adds
\* a gap (events, replay.ts).
ReplaysFirstCopies ==
  /\ \A i \in DOMAIN emitted :
       LET p == emitted[i].from IN
       /\ p \in Emittable
       /\ emitted[i].payload = MappedAt(p).value /\ emitted[i].channelRank = RankAt(p)
       /\ \A j \in 1..(i - 1) : emitted[j].from # p
  /\ done # None =>
       /\ done[1].eventsEmitted = Len(emitted) /\ done[1].gapsDetected = Cardinality(missed)
       /\ ~stopped => {emitted[i].from : i \in DOMAIN emitted} = Emittable
=============================================================================
