------------------------------ MODULE LiveFeed ------------------------------
(***************************************************************************)
(* LiveSseFeed.events of packages/txline over the connector: it ingests    *)
(* the frames of a connection, removes duplicates, and after a drop        *)
(* fetches the hour of the last event over REST, backs off and reconnects  *)
(* each channel from its own last id.                                      *)
(*                                                                         *)
(* A record is its channel and id; record id falls in the five-minute      *)
(* interval id, IntervalsPerHour of which make an hour.  Heartbeats and    *)
(* status events carry no record, and how long a backoff lasts is free:    *)
(* they are left out.                                                      *)
(***************************************************************************)
EXTENDS SseConnector

CONSTANTS
  IntervalsPerHour,
  maxReconnects,
  Malformed,      (* records whose stream frame does not parse              *)
  Unmappable      (* records that parse but do not map to a domain event    *)

Record == UNION {{c} \X (1..MaxPublished[c]) : c \in SseChannel}

ASSUME LiveFeedAssumption ==
  /\ IntervalsPerHour \in Nat \ {0} /\ maxReconnects \in Nat
  /\ Malformed \subseteq Record /\ Unmappable \subseteq Record

VARIABLES
  pc,          (* "top", "streaming", "backfilling", "sleeping" or "done"   *)
  stopped,     (* stop() was called                                         *)
  resumeIds,   (* last id ingested from the stream, by channel, 0 if none   *)
  lastTs,      (* time of the latest event of a stream, 0 if none           *)
  seen,        (* IdempotencyTracker                                        *)
  emitted,     (* how often each record was emitted                         *)
  gaps,        (* gap events: a frame's record, or a REST call that failed  *)
  counted,     (* records dropped with no event, in gapsDetected only       *)
  reconnects,
  todo         (* the REST calls the backfill has still to make             *)

feed_vars == <<pc, stopped, resumeIds, lastTs, seen, emitted, gaps, counted,
               reconnects, todo>>
vars == <<connector_vars, feed_vars>>

Emit(r) == emitted' = [emitted EXCEPT ![r] = @ + 1]
----------------------------------------------------------------------------
stop ==
  /\ ~stopped /\ stopped' = TRUE
  /\ UNCHANGED <<connector_vars, pc, resumeIds, lastTs, seen, emitted, gaps,
                 counted, reconnects, todo>>

SharedResumeId ==                                                      \* mutant
  [c \in SseChannel |->
     IF resumeIds["odds"] > resumeIds["scores"] THEN resumeIds["odds"]
     ELSE resumeIds["scores"]]

\* The resume id of each channel, as connect() is given them.
ResumeId == resumeIds

\* The top of the loop.
Open ==
  /\ pc = "top"
  /\ IF stopped
     THEN pc' = "done" /\ UNCHANGED connector_vars
     ELSE pc' = "streaming" /\ Connect(ResumeId)
  /\ UNCHANGED <<stopped, resumeIds, lastTs, seen, emitted, gaps, counted,
                 reconnects, todo>>

\* One frame: the resume id advances first, whatever becomes of the record.
ingest(r) ==
  /\ resumeIds' = [resumeIds EXCEPT ![r[1]] = r[2]]
  /\ \/ r \in Malformed
        /\ gaps' = gaps \cup {r} /\ UNCHANGED <<seen, emitted, lastTs>>
     \/ r \notin Malformed /\ r \in seen
        /\ UNCHANGED <<seen, emitted, gaps, lastTs>>
     \/ r \notin Malformed \cup seen
        /\ seen' = seen \cup {r}
        /\ IF r \in Unmappable
           THEN gaps' = gaps \cup {r} /\ UNCHANGED <<emitted, lastTs>>
           ELSE /\ Emit(r) /\ UNCHANGED gaps
                /\ lastTs' = IF r[2] > lastTs THEN r[2] ELSE lastTs

\* The body of the for-await loop; stop() is noticed here and nowhere else
\* while a connection is open.
TakeFrame ==
  /\ pc = "streaming"
  /\ IF stopped
     THEN /\ Shift("closing")
          /\ UNCHANGED <<resumeIds, lastTs, seen, emitted, gaps>>
     ELSE /\ Shift("yielded")
          /\ ingest(<<Head(queue).channel, Head(queue).id>>)
  /\ UNCHANGED <<pc, stopped, counted, reconnects, todo>>

Hour(t) == (t - 1) \div IntervalsPerHour

\* The intervals of the hour the last event fell in, odds before scores.
backfillIntervalsFromTs ==
  IF lastTs = 0 THEN <<>>
  ELSE [i \in 1..(2 * IntervalsPerHour) |->
          <<IF i % 2 = 1 THEN "odds" ELSE "scores",
            Hour(lastTs) * IntervalsPerHour + ((i + 1) \div 2)>>]

ReconnectOnceMore ==                                                   \* mutant
  /\ pc = "streaming"
  /\ Closed
  /\ IF stopped \/ reconnects > maxReconnects
     THEN pc' = "done" /\ UNCHANGED <<reconnects, todo>>
     ELSE /\ reconnects' = reconnects + 1
          /\ todo' = backfillIntervalsFromTs
          /\ pc' = "backfilling"
  /\ UNCHANGED <<stopped, resumeIds, lastTs, seen, emitted, gaps, counted>>

\* The connection is over, by error or not.
StreamOver ==
  /\ pc = "streaming"
  /\ Closed
  /\ IF stopped \/ reconnects >= maxReconnects
     THEN pc' = "done" /\ UNCHANGED <<reconnects, todo>>
     ELSE /\ reconnects' = reconnects + 1
          /\ todo' = backfillIntervalsFromTs
          /\ pc' = "backfilling"
  /\ UNCHANGED <<stopped, resumeIds, lastTs, seen, emitted, gaps, counted>>

BackfillUnseen(r) ==                                                   \* mutant
  IF r \in seen THEN UNCHANGED <<seen, emitted, counted>>
  ELSE Emit(r) /\ UNCHANGED <<seen, counted>>

BackfillForgets(r) ==                                                  \* mutant
  IF r \in seen THEN UNCHANGED <<seen, emitted, counted>>
  ELSE /\ seen' = seen \cup {r} /\ UNCHANGED counted
       /\ IF r \in Unmappable THEN UNCHANGED emitted ELSE Emit(r)

\* A record a REST response holds.  One that does not map is only counted: the
\* backfill yields no gap event for it, as ingest does.
BackfillRecord(r) ==
  IF r \in seen THEN UNCHANGED <<seen, emitted, counted>>
  ELSE /\ seen' = seen \cup {r}
       /\ IF r \in Unmappable
          THEN counted' = counted \cup {r} /\ UNCHANGED emitted
          ELSE Emit(r) /\ UNCHANGED counted

\* One REST call of the backfill, which answers or fails.  Neither the resume
\* ids nor lastTs move: the next backfill asks for the same hour.
backfill ==
  /\ pc = "backfilling" /\ todo # <<>>
  /\ LET c == Head(todo)[1]
         slot == Head(todo)[2]
     IN  \/ slot <= published[c] /\ BackfillRecord(<<c, slot>>) /\ UNCHANGED gaps
         \/ slot > published[c] /\ UNCHANGED <<seen, emitted, gaps, counted>>
         \/ gaps' = gaps \cup {<<c, slot, "failed">>} /\ UNCHANGED <<seen, emitted, counted>>
  /\ todo' = Tail(todo)
  /\ UNCHANGED <<connector_vars, pc, stopped, resumeIds, lastTs, reconnects>>

BackfillDone ==
  /\ pc = "backfilling" /\ todo = <<>>
  /\ pc' = "sleeping"
  /\ UNCHANGED <<connector_vars, stopped, resumeIds, lastTs, seen, emitted, gaps,
                 counted, reconnects, todo>>

\* sleep(computeBackoffMs(...)) elapses.
BackoffOver ==
  /\ pc = "sleeping"
  /\ pc' = "top"
  /\ UNCHANGED <<connector_vars, stopped, resumeIds, lastTs, seen, emitted, gaps,
                 counted, reconnects, todo>>

FeedStep ==
  \/ Open \/ TakeFrame \/ StreamOver \/ backfill \/ BackfillDone \/ BackoffOver
  \/ LoopStep /\ UNCHANGED feed_vars

Environment ==
  \/ Transport /\ UNCHANGED feed_vars
  \/ \E c \in SseChannel : Publish(c) /\ UNCHANGED feed_vars

Init ==
  /\ ConnectorInit
  /\ pc = "top" /\ stopped = FALSE /\ lastTs = 0
  /\ resumeIds = [c \in SseChannel |-> 0]
  /\ seen = {} /\ gaps = {} /\ counted = {} /\ emitted = [r \in Record |-> 0]
  /\ reconnects = 0 /\ todo = <<>>

Next == FeedStep \/ Environment \/ stop

Spec == Init /\ [][Next]_vars

\* The event loop runs every continuation that is ready, a REST call and a
\* backoff come to an end, and an aborted fetch rejects.  Nothing is assumed of
\* the server: a stream may stay open and silent for ever.
Fairness ==
  /\ WF_vars(FeedStep)
  /\ \A c \in SseChannel : WF_vars(Unwind(c) /\ UNCHANGED feed_vars)

FairSpec == Spec /\ Fairness
----------------------------------------------------------------------------
\* Every variable holds values of its type, and only the reconnects allowed
\* are made.
TypeOK ==
  /\ ConnectorTypeOK
  /\ pc \in {"top", "streaming", "backfilling", "sleeping", "done"}
  /\ stopped \in BOOLEAN /\ resumeIds \in [SseChannel -> Nat]
  /\ lastTs \in Nat
  /\ seen \subseteq Record /\ emitted \in [Record -> Nat]
  /\ gaps \subseteq Record \cup (SseChannel \X Nat \X {"failed"}) /\ counted \subseteq Record
  /\ reconnects \in 0..maxReconnects
  /\ todo \in Seq(SseChannel \X Nat)

\* "Reconnect-and-backfill never double-emits a record" (IdempotencyTracker):
\* whatever overlaps between the stream before a drop, the REST backfill and the
\* resumed stream.  Pipeline relies on it.
NoDoubleEmit == \A r \in Record : emitted[r] <= 1

\* With a server that honours Last-Event-ID, the stream of a channel, across
\* drops and reconnects, never moves past a record: the resume id advances one
\* record at a time ("a single shared id would resume one channel from a foreign
\* offset", SseResumeIds), and the record it moves to has been emitted, has a gap
\* event ("instead of dropping it silently", live.test.ts), or was taken first by a
\* backfill that could not map it, and is in gapsDetected but in no event.
NothingSkipped ==
  [][\A c \in SseChannel :
       resumeIds'[c] # resumeIds[c] =>
         /\ resumeIds[c] # 0 => resumeIds'[c] = resumeIds[c] + 1
         /\ \/ emitted'[<<c, resumeIds'[c]>>] > 0
            \/ <<c, resumeIds'[c]>> \in gaps' \cup counted']_vars

\* When both streams are down the feed opens both again, unless it is done:
\* what is queued is drained first, the backfill may fail, the backoff ends.
DropReconnects ==
  pc = "streaming" /\ AllFinished ~> pc = "done" \/ (pc = "streaming" /\ ~AllFinished)

\* The open connection has nothing for the feed and can still deliver.
Quiet == pc = "streaming" /\ queue = <<>> /\ ~AllFinished

\* stop() ends the feed as soon as anything happens: a frame is waiting, the
\* streams are down, or the feed is between two connections.
StopTakesHold == stopped /\ ~Quiet ~> pc = "done"

\* "A drop or non-2xx on either stream ends the iterable (with an error), which
\* LiveSseFeed turns into a backoff reconnect" (FetchSseConnector).
EitherDropReconnects ==
  pc = "streaming" /\ Finished # {} ~> pc # "streaming" \/ Finished = {}
=============================================================================
