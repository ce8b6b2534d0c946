--------------------------- MODULE LiveFeedProofs ---------------------------
(***************************************************************************)
(* Proofs about the connector and the live feed, for any number of         *)
(* records, reconnects, chunk sizes and any set of records that do not     *)
(* parse or map, whether or not the server honours Last-Event-ID.          *)
(***************************************************************************)
EXTENDS LiveFeed, TLAPS

(***************************************************************************)
(* No lost wake-up.  The property needs only that there is one pump per    *)
(* channel: whoever fills the queue or finishes a pump clears wake in the  *)
(* same step.                                                              *)
(***************************************************************************)
PumpPerChannel == pump \in [SseChannel -> {"opening", "reading", "finished"}]

WakeInv == PumpPerChannel /\ NoLostWakeup

LEMMA WakeInit == Init => WakeInv
  BY DEF Init, ConnectorInit, WakeInv, PumpPerChannel, NoLostWakeup

\* A step of the feed that leaves the connector alone.
LEMMA WakeKept == WakeInv /\ UNCHANGED connector_vars => WakeInv'
  BY DEF WakeInv, PumpPerChannel, NoLostWakeup, connector_vars, stream_vars,
         AllFinished, Finished

\* A pump that reads or finishes calls notify.
LEMMA WakeTransport ==
  ASSUME WakeInv, Transport
  PROVE  WakeInv'
<1>1. PICK c \in SseChannel : PumpOpens(c) \/ PumpReads(c) \/ PumpEnds(c) \/ PumpFails(c)
  BY DEF Transport
<1>2. CASE PumpOpens(c)
  <2>1. PumpPerChannel'
    BY <1>2 DEF PumpOpens, WakeInv, PumpPerChannel
  <2>2. Finished' = Finished
    BY <1>1, <1>2 DEF PumpOpens, WakeInv, PumpPerChannel, Finished
  <2> QED
    BY <1>2, <2>1, <2>2 DEF PumpOpens, WakeInv, NoLostWakeup, AllFinished
<1>3. CASE PumpReads(c)
  BY <1>3 DEF PumpReads, notify, WakeInv, PumpPerChannel, NoLostWakeup
<1>4. CASE PumpEnds(c)
  BY <1>4 DEF PumpEnds, Finish, notify, WakeInv, PumpPerChannel, NoLostWakeup
<1>5. CASE PumpFails(c)
  BY <1>5 DEF PumpFails, Finish, notify, WakeInv, PumpPerChannel, NoLostWakeup
<1> QED
  BY <1>1, <1>2, <1>3, <1>4, <1>5

LEMMA WakeLoop ==
  ASSUME WakeInv, LoopStep
  PROVE  WakeInv'
<1>1. CASE Resume
  BY <1>1 DEF Resume, Goto, stream_vars, WakeInv, PumpPerChannel, NoLostWakeup
<1>2. CASE Await
  BY <1>2 DEF Await, Goto, stream_vars, WakeInv, PumpPerChannel, NoLostWakeup,
              AllFinished, Finished
<1>3. CASE Woken
  BY <1>3 DEF Woken, Goto, stream_vars, WakeInv, PumpPerChannel, NoLostWakeup
<1>4. CASE Break
  BY <1>4 DEF Break, Goto, stream_vars, WakeInv, PumpPerChannel, NoLostWakeup
<1> QED
  BY <1>1, <1>2, <1>3, <1>4 DEF LoopStep

\* The feed drives the connector by connecting, shifting and closing it.
LEMMA WakeFeed ==
  ASSUME WakeInv, Open \/ TakeFrame \/ StreamOver
  PROVE  WakeInv'
<1>1. CASE Open
  <2>1. CASE stopped
    BY <1>1, <2>1, WakeKept DEF Open
  <2>2. CASE ~stopped
    BY <1>1, <2>2 DEF Open, Connect, WakeInv, PumpPerChannel, NoLostWakeup
  <2> QED
    BY <2>1, <2>2
<1>2. CASE TakeFrame
  <2>1. Shift("closing") \/ Shift("yielded")
    BY <1>2 DEF TakeFrame
  <2> QED
    BY <2>1 DEF Shift, WakeInv, PumpPerChannel, NoLostWakeup
<1>3. CASE StreamOver
  BY <1>3 DEF StreamOver, Closed, Goto, stream_vars, WakeInv, PumpPerChannel,
              NoLostWakeup
<1> QED
  BY <1>1, <1>2, <1>3

LEMMA WakeStep == WakeInv /\ [Next]_vars => WakeInv'
<1> SUFFICES ASSUME WakeInv, [Next]_vars
             PROVE  WakeInv'
  OBVIOUS
<1>1. CASE UNCHANGED vars
  BY <1>1, WakeKept DEF vars
<1>2. CASE Open \/ TakeFrame \/ StreamOver
  BY <1>2, WakeFeed
<1>3. CASE backfill \/ BackfillDone \/ BackoffOver \/ stop
  BY <1>3, WakeKept DEF backfill, BackfillDone, BackoffOver, stop
<1>4. CASE LoopStep
  BY <1>4, WakeLoop
<1>5. CASE Transport
  BY <1>5, WakeTransport
<1>6. ASSUME NEW c \in SseChannel, Publish(c)
      PROVE  WakeInv'
  BY <1>6 DEF Publish, stream_vars, WakeInv, PumpPerChannel, NoLostWakeup,
              AllFinished, Finished
<1> QED
  BY <1>1, <1>2, <1>3, <1>4, <1>5, <1>6 DEF Next, FeedStep, Environment

\* The generator of FetchSseConnector never sleeps on a promise nobody is left to
\* resolve, nor through a frame that is already in its queue.
THEOREM NoWakeupIsLost == Spec => []NoLostWakeup
<1>1. WakeInv => NoLostWakeup
  BY DEF WakeInv
<1> QED
  BY <1>1, WakeInit, WakeStep, PTL DEF Spec
----------------------------------------------------------------------------
(***************************************************************************)
(* No double emission.  What was emitted is in seen, and nothing leaves    *)
(* seen; the stream and the backfill both look there first.                *)
(***************************************************************************)
EmittedIsSeen ==
  /\ emitted \in [Record -> Nat]
  /\ \A r \in Record : emitted[r] > 0 => r \in seen

EmitInv == EmittedIsSeen /\ NoDoubleEmit

LEMMA EmitInit == Init => EmitInv
  BY DEF Init, EmitInv, EmittedIsSeen, NoDoubleEmit

LEMMA EmitKept ==
  ASSUME EmitInv, UNCHANGED emitted, seen \subseteq seen'
  PROVE  EmitInv'
  BY DEF EmitInv, EmittedIsSeen, NoDoubleEmit

\* Emitting a record that was not seen, and marking it.
LEMMA EmitFresh ==
  ASSUME EmitInv, NEW r, r \notin seen, Emit(r), seen' = seen \cup {r}
  PROVE  EmitInv'
<1>0. emitted \in [Record -> Nat] /\ emitted' = [emitted EXCEPT ![r] = emitted[r] + 1]
  BY DEF Emit, EmitInv, EmittedIsSeen
<1>1. \A x \in Record : emitted'[x] = IF x = r THEN emitted[x] + 1 ELSE emitted[x]
  BY <1>0
<1>2. emitted' \in [Record -> Nat]
  <2>1. \A x \in Record : emitted'[x] \in Nat
    BY <1>0, <1>1
  <2>2. emitted' = [x \in Record |-> emitted'[x]]
    BY <1>0
  <2> QED
    BY <2>1, <2>2
<1>3. r \in Record => emitted[r] = 0
  BY DEF EmitInv, EmittedIsSeen
<1> QED
  BY <1>1, <1>2, <1>3 DEF EmitInv, EmittedIsSeen, NoDoubleEmit

LEMMA EmitIngest ==
  ASSUME EmitInv, NEW r, ingest(r)
  PROVE  EmitInv'
<1>1. CASE UNCHANGED emitted /\ seen \subseteq seen'
  BY <1>1, EmitKept
<1>2. CASE r \notin seen /\ Emit(r) /\ seen' = seen \cup {r}
  BY <1>2, EmitFresh
<1> QED
  BY <1>1, <1>2 DEF ingest

LEMMA EmitBackfill ==
  ASSUME EmitInv, backfill
  PROVE  EmitInv'
<1> DEFINE r == <<Head(todo)[1], Head(todo)[2]>>
<1>1. BackfillRecord(r) \/ (UNCHANGED emitted /\ seen' = seen)
  BY DEF backfill
<1>2. CASE UNCHANGED emitted /\ seen \subseteq seen'
  BY <1>2, EmitKept
<1>3. CASE r \notin seen /\ Emit(r) /\ seen' = seen \cup {r}
  BY <1>3, EmitFresh
<1> QED
  BY <1>1, <1>2, <1>3 DEF BackfillRecord

LEMMA EmitStep == EmitInv /\ [Next]_vars => EmitInv'
<1> SUFFICES ASSUME EmitInv, [Next]_vars
             PROVE  EmitInv'
  OBVIOUS
<1>1. CASE UNCHANGED <<emitted, seen>>
  BY <1>1, EmitKept
<1>2. CASE TakeFrame
  <2>1. ingest(<<Head(queue).channel, Head(queue).id>>) \/ UNCHANGED <<emitted, seen>>
    BY <1>2 DEF TakeFrame
  <2> QED
    BY <2>1, <1>1, EmitIngest
<1>3. CASE backfill
  BY <1>3, EmitBackfill
<1>4. CASE Open \/ StreamOver \/ BackfillDone \/ BackoffOver \/ stop
  BY <1>1, <1>4 DEF Open, StreamOver, BackfillDone, BackoffOver, stop
<1> QED
  BY <1>1, <1>2, <1>3, <1>4 DEF Next, FeedStep, Environment, vars, feed_vars

\* No record reaches the consumer twice, over any number of drops, however the
\* stream, the backfill and the resumed stream overlap.
THEOREM NothingEmittedTwice == Spec => []NoDoubleEmit
<1>1. EmitInv => NoDoubleEmit
  BY DEF EmitInv
<1> QED
  BY <1>1, EmitInit, EmitStep, PTL DEF Spec
----------------------------------------------------------------------------
(***************************************************************************)
(* Nothing skipped.  While the feed is not stopped, the queue holds, of    *)
(* each channel, every id from just after the one the feed took last up to *)
(* the pump's cursor, in increasing order.                                 *)
(***************************************************************************)
StreamTypes ==
  /\ published \in [SseChannel -> Nat] /\ cursor \in [SseChannel -> Nat]
  /\ resumeIds \in [SseChannel -> Nat]
  /\ pump \in [SseChannel -> {"opening", "reading", "finished"}]
  /\ queue \in Seq([channel : SseChannel, id : Nat])
  /\ stopped \in BOOLEAN

Published == \A c \in SseChannel :
  published[c] <= MaxPublished[c] /\ cursor[c] <= published[c] /\ resumeIds[c] <= published[c]

Holds(i, c) == i \in 1..Len(queue) /\ queue[i].channel = c

\* The frames of c in the queue are those after b, each once and in order.
RunAfter(c, b) ==
  /\ resumeIds[c] # 0 => b = resumeIds[c]
  /\ b <= cursor[c]
  /\ \A i, j : Holds(i, c) /\ Holds(j, c) /\ i < j => queue[i].id < queue[j].id
  /\ \A i : Holds(i, c) => b < queue[i].id /\ queue[i].id <= cursor[c]
  /\ \A n \in (b + 1)..cursor[c] : \E i : Holds(i, c) /\ queue[i].id = n

Unread(c) == pump[c] = "opening" => cursor[c] = resumeIds[c]

Runs == \A c \in SseChannel : Unread(c) /\ \E b \in Nat : RunAfter(c, b)

SeenAccounted == \A r \in seen \cap Record : emitted[r] > 0 \/ r \in gaps \cup counted

StreamInv ==
  /\ EmitInv
  /\ SeenAccounted
  /\ StreamTypes
  /\ Published
  /\ ~stopped => Runs

LEMMA StreamInit == Init => StreamInv
<1> SUFFICES ASSUME Init PROVE StreamInv
  OBVIOUS
<1>1. EmitInv
  BY EmitInit
<1>2. SeenAccounted
  BY DEF Init, SeenAccounted
<1>5. StreamTypes
  <2>1. queue = <<>> /\ stopped = FALSE
    BY DEF Init, ConnectorInit
  <2>3. queue \in Seq([channel : SseChannel, id : Nat])
    BY <2>1
  <2>2. /\ published \in [SseChannel -> Nat] /\ cursor \in [SseChannel -> Nat]
        /\ resumeIds \in [SseChannel -> Nat]
        /\ pump \in [SseChannel -> {"opening", "reading", "finished"}]
    BY DEF Init, ConnectorInit
  <2> QED
    BY <2>1, <2>2, <2>3 DEF StreamTypes
<1>4. Published
  <2>1. ASSUME NEW c \in SseChannel
        PROVE  MaxPublished[c] \in Nat /\ published[c] = 0 /\ cursor[c] = 0 /\ resumeIds[c] = 0
    BY ConnectorAssumption DEF Init, ConnectorInit
  <2> QED
    BY <2>1 DEF Published
<1>3. ASSUME NEW c \in SseChannel PROVE Unread(c) /\ RunAfter(c, 0)
  BY DEF Init, ConnectorInit, Unread, RunAfter, Holds
<1> QED
  BY <1>1, <1>2, <1>3, <1>4, <1>5 DEF StreamInv, Runs

LEMMA FramesTyped ==
  ASSUME StreamTypes
  PROVE  /\ Len(queue) \in Nat
         /\ \A i \in 1..Len(queue) : queue[i].channel \in SseChannel /\ queue[i].id \in Nat
         /\ queue # <<>> => /\ Len(queue) # 0 /\ Head(queue) = queue[1]
                            /\ Len(Tail(queue)) = Len(queue) - 1
<1> DEFINE Frame == [channel : SseChannel, id : Nat]
<1>1. queue \in Seq(Frame)
  BY DEF StreamTypes
<1> HIDE DEF Frame
<1>2. Len(queue) \in Nat /\ \A i \in 1..Len(queue) : queue[i] \in Frame
  BY <1>1
<1>3. queue # <<>> => Len(queue) # 0 /\ Head(queue) = queue[1] /\ Len(Tail(queue)) = Len(queue) - 1
  BY <1>1
<1> QED
  BY <1>2, <1>3 DEF Frame

\* A run goes on after the frames of its own channel a pump appends.
LEMMA RunExtends ==
  ASSUME NEW c, NEW b \in Nat, NEW n \in Nat, cursor[c] \in Nat, Len(queue) \in Nat,
         cursor'[c] = cursor[c] + n, resumeIds'[c] = resumeIds[c],
         Len(queue') = Len(queue) + n,
         \A i \in 1..Len(queue) : queue[i].id \in Nat /\ queue'[i] = queue[i],
         \A i \in (Len(queue) + 1)..(Len(queue) + n) :
           queue'[i].channel = c /\ queue'[i].id = cursor[c] + (i - Len(queue)),
         RunAfter(c, b)
  PROVE  RunAfter(c, b)'
<1> SUFFICES ASSUME NEW k \in Nat, NEW L \in Nat,
         cursor[c] = k, cursor'[c] = k + n, resumeIds'[c] = resumeIds[c],
         Len(queue) = L, Len(queue') = L + n,
         \A i \in 1..L : queue[i].id \in Nat /\ queue'[i] = queue[i],
         \A i \in (L + 1)..(L + n) : queue'[i].channel = c /\ queue'[i].id = k + (i - L),
         RunAfter(c, b)
             PROVE  RunAfter(c, b)'
  OBVIOUS
<1>1. b <= k /\ b <= k + n
  BY DEF RunAfter
<1>2. \A i : Holds(i, c)' => Holds(i, c) \/ i \in (L + 1)..(L + n)
  BY DEF Holds
<1>3. \A i : Holds(i, c) => i \in 1..L /\ Holds(i, c)'
  BY DEF Holds
<1>4. \A i : Holds(i, c) => b < queue'[i].id /\ queue'[i].id <= k /\ queue'[i].id \in Nat
  BY <1>3 DEF RunAfter
<1>5. \A i \in (L + 1)..(L + n) : k < queue'[i].id /\ queue'[i].id <= k + n /\ queue'[i].id \in Nat
  <2> SUFFICES ASSUME NEW i \in (L + 1)..(L + n)
               PROVE  k < queue'[i].id /\ queue'[i].id <= k + n /\ queue'[i].id \in Nat
    OBVIOUS
  <2>1. queue'[i].id = k + (i - L)
    OBVIOUS
  <2>2. i \in Int /\ L + 1 <= i /\ i <= L + n
    OBVIOUS
  <2> QED
    BY <2>1, <2>2
<1>6. \A i : Holds(i, c)' => b < queue'[i].id /\ queue'[i].id <= k + n
  BY <1>1, <1>2, <1>4, <1>5
<1>7. ASSUME NEW i, NEW j, Holds(i, c)', Holds(j, c)', i < j
      PROVE  queue'[i].id < queue'[j].id
  <2>1. CASE Holds(i, c) /\ Holds(j, c)
    <3>1. queue[i].id < queue[j].id
      BY <1>7, <2>1 DEF RunAfter
    <3> QED
      BY <1>3, <2>1, <3>1
  <2>2. CASE Holds(i, c) /\ j \in (L + 1)..(L + n)
    BY SMTT(30), <1>4, <1>5, <2>2
  <2>3. CASE i \in (L + 1)..(L + n) /\ j \in (L + 1)..(L + n)
    <3>1. queue'[i].id = k + (i - L) /\ queue'[j].id = k + (j - L)
      BY <2>3
    <3>2. i \in Int /\ j \in Int
      BY <2>3
    <3> QED
      BY <1>7, <3>1, <3>2
  <2>4. CASE i \in (L + 1)..(L + n) /\ Holds(j, c)
    BY <1>3, <1>7, <2>4
  <2> QED
    BY <1>2, <1>7, <2>1, <2>2, <2>3, <2>4
<1>8. ASSUME NEW m \in (b + 1)..(k + n) PROVE \E i : Holds(i, c)' /\ queue'[i].id = m
  <2>1. CASE m <= k
    <3>1. m \in (b + 1)..cursor[c]
      BY <2>1
    <3>2. PICK i : Holds(i, c) /\ queue[i].id = m
      BY <3>1 DEF RunAfter
    <3> QED
      BY <1>3, <3>2
  <2>2. CASE m > k
    <3>1. L + (m - k) \in (L + 1)..(L + n) /\ L + (m - k) \in 1..(L + n)
      BY <2>2
    <3>2. queue'[L + (m - k)].channel = c /\ queue'[L + (m - k)].id = k + ((L + (m - k)) - L)
      BY <3>1
    <3>3. k + ((L + (m - k)) - L) = m
      OBVIOUS
    <3> QED
      BY <3>1, <3>2, <3>3 DEF Holds
  <2> QED
    BY <2>1, <2>2
<1> QED
  BY <1>1, <1>6, <1>7, <1>8 DEF RunAfter

\* Frames of another channel do not disturb it.
LEMMA RunUntouched ==
  ASSUME NEW c, NEW b \in Nat, NEW L \in Nat, NEW n \in Nat,
         cursor'[c] = cursor[c], resumeIds'[c] = resumeIds[c],
         Len(queue) = L, Len(queue') = L + n,
         \A i \in 1..L : queue'[i] = queue[i],
         \A i \in (L + 1)..(L + n) : queue'[i].channel # c,
         RunAfter(c, b)
  PROVE  RunAfter(c, b)'
<1>1. \A i : Holds(i, c)' <=> Holds(i, c)
  BY DEF Holds
<1>2. \A i : Holds(i, c) => queue'[i] = queue[i]
  BY DEF Holds
<1> QED
  BY <1>1, <1>2 DEF RunAfter

LEMMA RunGrows ==
  ASSUME StreamTypes, NEW c \in SseChannel, NEW d \in SseChannel, NEW n \in Nat, NEW b \in Nat,
         queue' = queue \o [i \in 1..n |-> [channel |-> d, id |-> cursor[d] + i]],
         cursor' = [cursor EXCEPT ![d] = cursor[d] + n], UNCHANGED resumeIds,
         RunAfter(c, b)
  PROVE  RunAfter(c, b)'
<1> DEFINE chunk == [i \in 1..n |-> [channel |-> d, id |-> cursor[d] + i]]
<1>1. chunk \in Seq([channel : SseChannel, id : Nat]) /\ Len(chunk) = n
  BY DEF StreamTypes
<1>2. Len(queue) \in Nat /\ Len(queue') = Len(queue) + n
  BY <1>1 DEF StreamTypes
<1>3. \A i \in 1..Len(queue) : queue'[i] = queue[i]
  BY <1>1, <1>2 DEF StreamTypes
<1>4. \A i \in (Len(queue) + 1)..(Len(queue) + n) :
        queue'[i].channel = d /\ queue'[i].id = cursor[d] + (i - Len(queue))
  BY SMTT(30), <1>1, <1>2 DEF StreamTypes
<1>5. cursor[d] \in Nat /\ cursor'[d] = cursor[d] + n /\ (c # d => cursor'[c] = cursor[c])
  BY DEF StreamTypes
<1>6. resumeIds'[c] = resumeIds[c] /\ \A i \in 1..Len(queue) : queue[i].id \in Nat
  BY FramesTyped
<1>7. CASE c = d
  <2>1. \A i \in 1..Len(queue) : queue[i].id \in Nat /\ queue'[i] = queue[i]
    BY <1>3, <1>6
  <2>2. \A i \in (Len(queue) + 1)..(Len(queue) + n) :
          queue'[i].channel = c /\ queue'[i].id = cursor[c] + (i - Len(queue))
    BY <1>4, <1>7
  <2>3. cursor[c] \in Nat /\ cursor'[c] = cursor[c] + n
    BY <1>5, <1>7
  <2> QED
    BY <1>2, <1>6, <2>1, <2>2, <2>3, RunExtends
<1>8. CASE c # d
  BY <1>2, <1>3, <1>4, <1>5, <1>6, <1>8, RunUntouched
<1> QED
  BY <1>7, <1>8

\* The feed takes the head of the queue: it is the next id of its channel.
LEMMA HeadIsNext ==
  ASSUME StreamTypes, queue # <<>>, NEW b \in Nat, RunAfter(Head(queue).channel, b)
  PROVE  Head(queue).id = b + 1 /\ Head(queue).id <= cursor[Head(queue).channel]
<1> DEFINE c == Head(queue).channel
<1>1. /\ Len(queue) \in Nat \ {0} /\ Head(queue) = queue[1] /\ 1 \in 1..Len(queue)
      /\ c \in SseChannel
  BY FramesTyped
<1>2. \A i \in 1..Len(queue) : queue[i].id \in Nat
  BY FramesTyped
<1>3. Holds(1, c)
  BY <1>1 DEF Holds
<1>4. b < queue[1].id /\ queue[1].id <= cursor[c] /\ cursor[c] \in Nat
  BY <1>1, <1>3 DEF RunAfter, StreamTypes
<1>5. b + 1 \in (b + 1)..cursor[c]
  BY <1>1, <1>2, <1>4
<1>6. PICK i : Holds(i, c) /\ queue[i].id = b + 1
  BY <1>5 DEF RunAfter
<1>7. i = 1 \/ 1 < i
  BY <1>6 DEF Holds
<1>8. CASE 1 < i
  <2>1. queue[1].id < queue[i].id
    BY <1>3, <1>6, <1>8 DEF RunAfter
  <2> QED
    BY <1>1, <1>2, <1>4, <1>6, <2>1
<1> QED
  BY <1>1, <1>4, <1>6, <1>7, <1>8

LEMMA RunShifts ==
  ASSUME StreamTypes, queue # <<>>, queue' = Tail(queue), UNCHANGED cursor,
         NEW c \in SseChannel, NEW b \in Nat, RunAfter(c, b),
         resumeIds' = [resumeIds EXCEPT ![Head(queue).channel] = Head(queue).id]
  PROVE  \E e \in Nat : RunAfter(c, e)'
<1> DEFINE L == Len(queue)
<1>1. /\ L \in Nat \ {0} /\ Head(queue) = queue[1] /\ 1 \in 1..L
      /\ Len(queue') = L - 1 /\ queue[1].channel \in SseChannel /\ queue[1].id \in Nat
  BY FramesTyped
<1>2. \A i \in 1..(L - 1) : queue'[i] = queue[i + 1] /\ i + 1 \in 1..L
  BY <1>1 DEF StreamTypes
<1>3. \A i : Holds(i, c)' => i \in 1..(L - 1) /\ Holds(i + 1, c) /\ queue'[i] = queue[i + 1]
  BY <1>1, <1>2 DEF Holds
<1>4. \A i : Holds(i, c) /\ i # 1 =>
        i - 1 \in 1..(L - 1) /\ Holds(i - 1, c)' /\ queue'[i - 1] = queue[i]
  <2> SUFFICES ASSUME NEW i, Holds(i, c), i # 1
               PROVE  i - 1 \in 1..(L - 1) /\ Holds(i - 1, c)' /\ queue'[i - 1] = queue[i]
    OBVIOUS
  <2>1. i \in 1..L /\ i - 1 \in 1..(L - 1) /\ (i - 1) + 1 = i
    BY <1>1 DEF Holds
  <2>2. queue'[i - 1] = queue[i]
    BY <1>2, <2>1
  <2> QED
    BY <1>1, <2>1, <2>2 DEF Holds
<1>5. cursor[c] \in Nat /\ \A i \in 1..L : queue[i].id \in Nat
  BY FramesTyped DEF StreamTypes
<1>6. \A i, j : Holds(i, c)' /\ Holds(j, c)' /\ i < j => queue'[i].id < queue'[j].id
  <2> SUFFICES ASSUME NEW i, NEW j, Holds(i, c)', Holds(j, c)', i < j
               PROVE  queue'[i].id < queue'[j].id
    OBVIOUS
  <2>1. i + 1 < j + 1
    BY <1>1, <1>3
  <2> QED
    BY <1>3, <2>1 DEF RunAfter
<1>7. CASE queue[1].channel # c
  <2>1. resumeIds'[c] = resumeIds[c]
    BY <1>1, <1>7 DEF StreamTypes
  <2>2. \A i : Holds(i, c) => i # 1
    BY <1>7 DEF Holds
  <2>3. \A i : Holds(i, c)' => b < queue'[i].id /\ queue'[i].id <= cursor[c]
    BY <1>3 DEF RunAfter
  <2>4. \A n \in (b + 1)..cursor[c] : \E i : Holds(i, c)' /\ queue'[i].id = n
    BY <1>4, <2>2 DEF RunAfter
  <2>5. RunAfter(c, b)'
    BY <1>6, <2>1, <2>3, <2>4 DEF RunAfter
  <2> QED
    BY <2>5
<1>8. CASE queue[1].channel = c
  <2>1. queue[1].id = b + 1 /\ queue[1].id <= cursor[c]
    BY <1>1, <1>8, HeadIsNext
  <2>2. resumeIds'[c] = b + 1
    BY <1>1, <1>8, <2>1 DEF StreamTypes
  <2>3. \A i : Holds(i, c)' => b + 1 < queue'[i].id /\ queue'[i].id <= cursor[c]
    <3> SUFFICES ASSUME NEW i, Holds(i, c)' PROVE b + 1 < queue'[i].id /\ queue'[i].id <= cursor[c]
      OBVIOUS
    <3>1. Holds(1, c) /\ Holds(i + 1, c) /\ 1 < i + 1 /\ queue'[i] = queue[i + 1]
      BY <1>1, <1>3, <1>8 DEF Holds
    <3>2. queue[1].id < queue[i + 1].id
      BY <3>1 DEF RunAfter
    <3> QED
      BY <2>1, <3>1, <3>2 DEF RunAfter
  <2>4. ASSUME NEW n \in (b + 2)..cursor[c] PROVE \E i : Holds(i, c)' /\ queue'[i].id = n
    <3>1. n \in (b + 1)..cursor[c] /\ n # b + 1
      BY <1>5
    <3>2. PICK i : Holds(i, c) /\ queue[i].id = n
      BY <3>1 DEF RunAfter
    <3>3. i # 1
      BY <2>1, <3>1, <3>2
    <3> QED
      BY <1>4, <3>2, <3>3
  <2>5. (b + 1) + 1 = b + 2 /\ b + 1 \in Nat
    OBVIOUS
  <2>6. RunAfter(c, b + 1)'
    BY <1>6, <2>1, <2>2, <2>3, <2>4, <2>5 DEF RunAfter
  <2> QED
    BY <2>5, <2>6
<1> QED
  BY <1>7, <1>8

\* A step that leaves the queue, the cursors and the resume ids alone.
LEMMA RunsKept ==
  ASSUME Runs, UNCHANGED <<cursor, queue, resumeIds>>,
         \A c \in SseChannel : pump'[c] = "opening" => pump[c] = "opening"
  PROVE  Runs'
  BY DEF Runs, Unread, RunAfter, Holds

LEMMA StreamOpens ==
  ASSUME ResumeHonoured, StreamTypes, Published, NEW c \in SseChannel, PumpOpens(c),
         UNCHANGED feed_vars
  PROVE  /\ StreamTypes' /\ Published'
         /\ Runs => Runs'
<1>1. StreamTypes'
  BY DEF StreamTypes, PumpOpens, feed_vars
<1>2. Published'
  BY DEF StreamTypes, Published, PumpOpens, feed_vars
<1>3. ASSUME Runs, NEW d \in SseChannel PROVE Unread(d)' /\ \E b \in Nat : RunAfter(d, b)'
  <2>1. PICK b \in Nat : RunAfter(d, b)
    BY <1>3 DEF Runs
  <2>2. /\ queue' = queue /\ resumeIds' = resumeIds /\ pump'[c] = "reading"
        /\ d # c => pump'[d] = pump[d] /\ cursor'[d] = cursor[d]
    BY DEF StreamTypes, PumpOpens, feed_vars
  <2>3. Unread(d)'
    BY <1>3, <2>2 DEF Runs, Unread
  <2>4. CASE cursor'[d] = cursor[d]
    <3>1. RunAfter(d, b)'
      BY <2>1, <2>2, <2>4 DEF RunAfter, Holds
    <3> QED
      BY <2>3, <3>1
  <2>5. CASE cursor'[d] # cursor[d]
    <3>1. d = c /\ cursor[d] = 0 /\ cursor'[d] = published[d] /\ published[d] \in Nat
      BY <2>2, <2>5 DEF StreamTypes, PumpOpens
    <3>2. resumeIds[d] = 0
      BY <1>3, <3>1 DEF Runs, Unread, PumpOpens
    <3>3. \A i : ~Holds(i, d)
      <4> SUFFICES ASSUME NEW i, Holds(i, d) PROVE FALSE
        OBVIOUS
      <4>1. b < queue[i].id /\ queue[i].id <= 0 /\ queue[i].id \in Nat
        BY <2>1, <3>1, FramesTyped DEF RunAfter, Holds
      <4> QED
        BY <4>1
    <3>4. RunAfter(d, published[d])'
      BY <2>2, <3>1, <3>2, <3>3 DEF RunAfter, Holds, PumpOpens
    <3>5. published' = published
      BY DEF PumpOpens
    <3> QED
      BY <2>3, <3>1, <3>4, <3>5
  <2> QED
    BY <2>3, <2>4, <2>5
<1> QED
  BY <1>1, <1>2, <1>3 DEF Runs

LEMMA StreamReads ==
  ASSUME StreamTypes, Published, NEW c \in SseChannel, PumpReads(c), UNCHANGED feed_vars
  PROVE  /\ StreamTypes' /\ Published'
         /\ Runs => Runs'
<1>1. PICK n \in 1..MaxChunk :
        /\ cursor[c] + n <= published[c]
        /\ queue' = queue \o [i \in 1..n |-> [channel |-> c, id |-> cursor[c] + i]]
        /\ cursor' = [cursor EXCEPT ![c] = cursor[c] + n]
  BY DEF PumpReads
<1>2. /\ n \in Nat /\ cursor[c] \in Nat /\ pump[c] = "reading"
      /\ UNCHANGED <<published, pump, resumeIds, stopped>>
  BY DEF StreamTypes, PumpReads, feed_vars
<1> DEFINE Frame == [channel : SseChannel, id : Nat]
           chunk == [i \in 1..n |-> [channel |-> c, id |-> cursor[c] + i]]
<1>3. queue' \in Seq(Frame)
  <2>1. chunk \in Seq(Frame)
    <3>1. \A i \in 1..n : [channel |-> c, id |-> cursor[c] + i] \in Frame
      BY <1>2
    <3> HIDE DEF Frame
    <3> QED
      BY <1>2, <3>1
  <2>2. queue \in Seq(Frame) /\ queue' = queue \o chunk
    BY <1>1 DEF StreamTypes
  <2> HIDE DEF chunk, Frame
  <2> QED
    BY <2>1, <2>2
<1>4. cursor' \in [SseChannel -> Nat]
  BY <1>1, <1>2 DEF StreamTypes
<1>5. StreamTypes'
  BY <1>2, <1>3, <1>4 DEF StreamTypes
<1>6. Published'
  BY <1>1, <1>2 DEF StreamTypes, Published
<1>7. ASSUME Runs, NEW d \in SseChannel PROVE Unread(d)' /\ \E b \in Nat : RunAfter(d, b)'
  <2>1. Unread(d)'
    BY <1>1, <1>2, <1>7 DEF Runs, Unread, StreamTypes
  <2>2. PICK b \in Nat : RunAfter(d, b)
    BY <1>7 DEF Runs
  <2>3. RunAfter(d, b)'
    BY <1>1, <1>2, <2>2, RunGrows
  <2> QED
    BY <2>1, <2>3
<1> QED
  BY <1>5, <1>6, <1>7 DEF Runs

\* A pump that finishes reads nothing and forgets nothing.
LEMMA StreamFinishes ==
  ASSUME StreamTypes, Published, NEW c \in SseChannel, PumpEnds(c) \/ PumpFails(c),
         UNCHANGED feed_vars
  PROVE  /\ StreamTypes' /\ Published'
         /\ Runs => Runs'
<1>1. /\ UNCHANGED <<published, cursor, queue, resumeIds, stopped>>
      /\ pump' = [pump EXCEPT ![c] = "finished"]
  BY DEF PumpEnds, PumpFails, Finish, feed_vars
<1>2. StreamTypes' /\ \A d \in SseChannel : pump'[d] = "opening" => pump[d] = "opening"
  BY <1>1 DEF StreamTypes
<1>3. Published'
  BY <1>1 DEF Published
<1> QED
  BY <1>1, <1>2, <1>3, RunsKept

LEMMA StreamPublishes ==
  ASSUME StreamTypes, Published, NEW c \in SseChannel, Publish(c), UNCHANGED feed_vars
  PROVE  /\ StreamTypes' /\ Published'
         /\ Runs => Runs'
<1>0. published[c] \in Nat /\ MaxPublished[c] \in Nat /\ published[c] < MaxPublished[c]
  BY ConnectorAssumption DEF Publish, StreamTypes
<1>1. /\ UNCHANGED <<pump, cursor, queue, resumeIds, stopped>>
      /\ published' = [published EXCEPT ![c] = published[c] + 1]
      /\ published[c] + 1 <= MaxPublished[c]
  BY <1>0 DEF Publish, stream_vars, feed_vars
<1>2. StreamTypes'
  BY <1>1 DEF StreamTypes
<1>3. Published'
  BY <1>1 DEF StreamTypes, Published
<1> QED
  BY <1>1, <1>2, <1>3, RunsKept

\* A new connection resumes each channel from the id the feed took last.
LEMMA StreamConnects ==
  ASSUME StreamTypes, Published, Connect(ResumeId), UNCHANGED <<resumeIds, stopped>>
  PROVE  StreamTypes' /\ Published' /\ Runs'
<1>1. /\ queue' = <<>> /\ cursor' = resumeIds /\ resumeIds' = resumeIds /\ published' = published
      /\ pump' = [c \in SseChannel |-> "opening"]
  BY DEF Connect, ResumeId
<1>2. queue' \in Seq([channel : SseChannel, id : Nat])
  BY <1>1
<1>3. StreamTypes'
  BY <1>1, <1>2 DEF StreamTypes
<1>4. Published'
  BY <1>1 DEF Published
<1>5. ASSUME NEW c \in SseChannel PROVE Unread(c)' /\ \E b \in Nat : RunAfter(c, b)'
  <2>1. resumeIds[c] \in Nat /\ \A i : ~Holds(i, c)'
    BY <1>1 DEF StreamTypes, Holds
  <2>2. RunAfter(c, resumeIds[c])'
    BY <1>1, <2>1 DEF RunAfter
  <2> QED
    BY <1>1, <2>1, <2>2 DEF Unread
<1> QED
  BY <1>3, <1>4, <1>5 DEF Runs

\* The feed takes a frame.
LEMMA StreamTaken ==
  ASSUME StreamTypes, Published, Runs, TakeFrame, ~stopped
  PROVE  StreamTypes' /\ Published' /\ Runs'
<1> DEFINE h == Head(queue)
<1>1. /\ queue # <<>> /\ queue' = Tail(queue) /\ UNCHANGED <<published, pump, cursor, stopped>>
      /\ resumeIds' = [resumeIds EXCEPT ![h.channel] = h.id]
  BY DEF TakeFrame, Shift, ingest
<1>2. h.channel \in SseChannel /\ h.id \in Nat
  BY <1>1, FramesTyped
<1>3. PICK b \in Nat : RunAfter(h.channel, b)
  BY <1>2 DEF Runs
<1>4. h.id = b + 1 /\ h.id <= cursor[h.channel]
  BY <1>1, <1>3, HeadIsNext
<1>5. resumeIds' \in [SseChannel -> Nat]
  BY <1>1, <1>2 DEF StreamTypes
<1>6. queue' \in Seq([channel : SseChannel, id : Nat])
  BY <1>1 DEF StreamTypes
<1>7. StreamTypes'
  BY <1>1, <1>5, <1>6 DEF StreamTypes
<1>8. Published'
  <2>1. ASSUME NEW d \in SseChannel PROVE resumeIds'[d] <= published[d]
    <3>1. resumeIds'[d] = resumeIds[d] \/ (d = h.channel /\ resumeIds'[d] = h.id)
      BY <1>1, <1>2 DEF StreamTypes
    <3>2. /\ cursor[d] \in Nat /\ published[d] \in Nat
          /\ cursor[d] <= published[d] /\ resumeIds[d] <= published[d]
      BY DEF StreamTypes, Published
    <3> QED
      BY <1>2, <1>4, <3>1, <3>2
  <2> QED
    BY <1>1, <2>1 DEF Published
<1>9. ASSUME NEW c \in SseChannel PROVE Unread(c)' /\ \E e \in Nat : RunAfter(c, e)'
  <2>1. \E e \in Nat : RunAfter(c, e)'
    BY <1>1, RunShifts DEF Runs
  <2>2. CASE c # h.channel
    <3>1. Unread(c)'
      BY <1>1, <2>2 DEF Runs, Unread, StreamTypes
    <3> QED
      BY <2>1, <3>1
  <2>3. CASE c = h.channel
    <3>1. pump[c] # "opening"
      <4> SUFFICES ASSUME cursor[c] = resumeIds[c] PROVE FALSE
        BY DEF Runs, Unread
      <4>1. b + 1 <= resumeIds[c] /\ resumeIds[c] \in Nat /\ (resumeIds[c] # 0 => b = resumeIds[c])
        BY <1>3, <1>4, <2>3 DEF RunAfter, StreamTypes
      <4> QED
        BY <4>1
    <3>2. Unread(c)'
      BY <1>1, <3>1 DEF Unread
    <3> QED
      BY <2>1, <3>2
  <2> QED
    BY <2>1, <2>2, <2>3
<1> QED
  BY <1>7, <1>8, <1>9 DEF Runs

\* A record that is marked seen is emitted, reported or counted in the same step.
LEMMA AccountedTaken ==
  ASSUME EmitInv, SeenAccounted, TakeFrame, NEW r \in Record, ingest(r)
  PROVE  /\ SeenAccounted'
         /\ emitted'[r] > 0 \/ r \in gaps' \cup counted'
<1>1. counted' = counted
  BY DEF TakeFrame
<1>2. emitted \in [Record -> Nat] /\ \A x \in Record : emitted[x] \in Nat
  BY DEF EmitInv, EmittedIsSeen
<1>3. CASE r \in Malformed
  BY <1>1, <1>3 DEF ingest, SeenAccounted
<1>4. CASE r \notin Malformed /\ r \in seen
  BY <1>1, <1>4 DEF ingest, SeenAccounted
<1>5. CASE r \notin Malformed \cup seen /\ r \in Unmappable
  BY <1>1, <1>5 DEF ingest, SeenAccounted
<1>6. CASE r \notin Malformed \cup seen /\ r \notin Unmappable
  <2>1. emitted' = [emitted EXCEPT ![r] = emitted[r] + 1] /\ gaps' = gaps /\ seen' = seen \cup {r}
    BY <1>6 DEF ingest, Emit
  <2>2. emitted'[r] > 0 /\ \A x \in Record \ {r} : emitted'[x] = emitted[x]
    BY <1>2, <2>1
  <2> QED
    BY <1>1, <2>1, <2>2 DEF SeenAccounted
<1> QED
  BY <1>3, <1>4, <1>5, <1>6

LEMMA AccountedBackfill ==
  ASSUME EmitInv, SeenAccounted, backfill
  PROVE  SeenAccounted'
<1> DEFINE r == <<Head(todo)[1], Head(todo)[2]>>
<1>1. emitted \in [Record -> Nat] /\ \A x \in Record : emitted[x] \in Nat
  BY DEF EmitInv, EmittedIsSeen
<1>2. /\ gaps \subseteq gaps'
      /\ \/ UNCHANGED <<seen, emitted, counted>>
         \/ seen' = seen \cup {r} /\ counted' = counted \cup {r} /\ UNCHANGED emitted
         \/ seen' = seen \cup {r} /\ counted' = counted /\ Emit(r)
  BY DEF backfill, BackfillRecord
<1>3. CASE UNCHANGED <<seen, emitted, counted>>
  BY <1>2, <1>3 DEF SeenAccounted
<1>4. CASE seen' = seen \cup {r} /\ counted' = counted \cup {r} /\ UNCHANGED emitted
  BY <1>2, <1>4 DEF SeenAccounted
<1>5. CASE seen' = seen \cup {r} /\ counted' = counted /\ Emit(r)
  <2>1. \A x \in Record : emitted'[x] = IF x = r THEN emitted[x] + 1 ELSE emitted[x]
    BY <1>1, <1>5 DEF Emit
  <2>2. ASSUME NEW x \in seen' \cap Record PROVE emitted'[x] > 0 \/ x \in gaps' \cup counted'
    BY <1>1, <1>2, <1>5, <2>1, <2>2 DEF SeenAccounted
  <2> QED
    BY <2>2 DEF SeenAccounted
<1> QED
  BY <1>2, <1>3, <1>4, <1>5

\* What the feed takes is a record, and the next of its channel.
LEMMA TakenIsNext ==
  ASSUME StreamInv, TakeFrame, ~stopped
  PROVE  /\ <<Head(queue).channel, Head(queue).id>> \in Record
         /\ resumeIds[Head(queue).channel] # 0 =>
              Head(queue).id = resumeIds[Head(queue).channel] + 1
<1> DEFINE h == Head(queue)
           c == h.channel
<1>1. queue # <<>> /\ StreamTypes /\ Runs /\ Published
  BY DEF StreamInv, TakeFrame, Shift
<1>2. c \in SseChannel /\ h.id \in Nat
  BY <1>1, FramesTyped
<1>3. PICK b \in Nat : RunAfter(c, b)
  BY <1>1, <1>2 DEF Runs
<1>4. h.id = b + 1 /\ h.id <= cursor[c]
  BY <1>1, <1>3, HeadIsNext
<1>5. /\ cursor[c] <= published[c] /\ published[c] <= MaxPublished[c]
      /\ cursor[c] \in Nat /\ published[c] \in Nat /\ MaxPublished[c] \in Nat
  BY <1>1, <1>2, ConnectorAssumption DEF Published, StreamTypes
<1>6. h.id \in 1..MaxPublished[c]
  BY <1>4, <1>5
<1>7. <<c, h.id>> \in Record
  BY <1>2, <1>6 DEF Record
<1>8. resumeIds[c] # 0 => h.id = resumeIds[c] + 1
  BY <1>3, <1>4 DEF RunAfter
<1> QED
  BY <1>7, <1>8

\* The steps that touch neither the streams nor what was seen.
LEMMA StreamKept ==
  ASSUME StreamTypes, Published, Runs \/ stopped, stopped => stopped',
         UNCHANGED <<published, pump, cursor, queue, resumeIds>>, stopped' \in BOOLEAN
  PROVE  StreamTypes' /\ Published' /\ (~stopped' => Runs')
<1>1. StreamTypes' /\ Published'
  BY DEF StreamTypes, Published
<1>2. Runs => Runs'
  BY RunsKept
<1> QED
  BY <1>1, <1>2 DEF StreamTypes

LEMMA StreamStep == ResumeHonoured /\ StreamInv /\ [Next]_vars => StreamInv'
<1> SUFFICES ASSUME ResumeHonoured, StreamInv, [Next]_vars PROVE StreamInv'
  OBVIOUS
<1>1. EmitInv'
  BY EmitStep DEF StreamInv
<1>2. /\ StreamTypes /\ Published /\ SeenAccounted /\ EmitInv
      /\ Runs \/ stopped
      /\ stopped \in BOOLEAN
  BY DEF StreamInv, StreamTypes
<1>3. CASE \E c \in SseChannel : PumpOpens(c) /\ UNCHANGED feed_vars
  <2>1. StreamTypes' /\ Published' /\ (Runs => Runs') /\ UNCHANGED <<seen, emitted, gaps, counted, stopped>>
    BY <1>2, <1>3, StreamOpens DEF feed_vars
  <2> QED
    BY <1>1, <1>2, <2>1 DEF StreamInv, SeenAccounted
<1>4. CASE \E c \in SseChannel : PumpReads(c) /\ UNCHANGED feed_vars
  <2>1. StreamTypes' /\ Published' /\ (Runs => Runs') /\ UNCHANGED <<seen, emitted, gaps, counted, stopped>>
    BY <1>2, <1>4, StreamReads DEF feed_vars
  <2> QED
    BY <1>1, <1>2, <2>1 DEF StreamInv, SeenAccounted
<1>5. CASE \E c \in SseChannel : (PumpEnds(c) \/ PumpFails(c)) /\ UNCHANGED feed_vars
  <2>1. StreamTypes' /\ Published' /\ (Runs => Runs') /\ UNCHANGED <<seen, emitted, gaps, counted, stopped>>
    BY <1>2, <1>5, StreamFinishes DEF feed_vars
  <2> QED
    BY <1>1, <1>2, <2>1 DEF StreamInv, SeenAccounted
<1>6. CASE \E c \in SseChannel : Publish(c) /\ UNCHANGED feed_vars
  <2>1. StreamTypes' /\ Published' /\ (Runs => Runs') /\ UNCHANGED <<seen, emitted, gaps, counted, stopped>>
    BY <1>2, <1>6, StreamPublishes DEF feed_vars
  <2> QED
    BY <1>1, <1>2, <2>1 DEF StreamInv, SeenAccounted
<1>7. CASE Open
  <2>1. UNCHANGED <<resumeIds, stopped, seen, emitted, gaps, counted>>
    BY <1>7 DEF Open
  <2>2. CASE stopped
    <3>1. UNCHANGED <<published, pump, cursor, queue>>
      BY <1>7, <2>2 DEF Open, connector_vars, stream_vars
    <3> QED
      BY <1>1, <1>2, <2>1, <2>2, <3>1, StreamKept DEF StreamInv, SeenAccounted
  <2>3. CASE ~stopped
    <3>1. StreamTypes' /\ Published' /\ Runs'
      BY <1>2, <1>7, <2>1, <2>3, StreamConnects DEF Open
    <3> QED
      BY <1>1, <1>2, <2>1, <3>1 DEF StreamInv, SeenAccounted
  <2> QED
    BY <2>2, <2>3
<1>8. CASE TakeFrame
  <2>1. CASE stopped
    <3>1. /\ queue # <<>> /\ queue' = Tail(queue)
          /\ UNCHANGED <<published, pump, cursor, resumeIds, stopped, seen, emitted, gaps, counted>>
      BY <1>8, <2>1 DEF TakeFrame, Shift
    <3>2. queue' \in Seq([channel : SseChannel, id : Nat])
      BY <1>2, <3>1 DEF StreamTypes
    <3>3. StreamTypes' /\ Published'
      BY <1>2, <3>1, <3>2 DEF StreamTypes, Published
    <3> QED
      BY <1>1, <1>2, <2>1, <3>1, <3>3 DEF StreamInv, SeenAccounted
  <2>2. CASE ~stopped
    <3>1. StreamTypes' /\ Published' /\ Runs'
      BY <1>2, <1>8, <2>2, StreamTaken
    <3>2. ingest(<<Head(queue).channel, Head(queue).id>>)
      BY <1>8, <2>2 DEF TakeFrame
    <3>3. SeenAccounted'
      BY <1>2, <1>8, <2>2, <3>2, TakenIsNext, AccountedTaken
    <3> QED
      BY <1>1, <3>1, <3>3 DEF StreamInv
  <2> QED
    BY <2>1, <2>2
<1>9. CASE backfill
  <2>1. UNCHANGED <<published, pump, cursor, queue, resumeIds, stopped>>
    BY <1>9 DEF backfill, connector_vars, stream_vars
  <2>2. StreamTypes' /\ Published' /\ (~stopped' => Runs')
    BY <1>2, <2>1, StreamKept
  <2>3. SeenAccounted'
    BY <1>2, <1>9, AccountedBackfill
  <2> QED
    BY <1>1, <2>2, <2>3 DEF StreamInv
<1>10. CASE \/ StreamOver \/ BackfillDone \/ BackoffOver \/ stop
            \/ (LoopStep /\ UNCHANGED feed_vars) \/ UNCHANGED vars
  <2>1. /\ UNCHANGED <<published, pump, cursor, queue, resumeIds, seen, emitted, gaps, counted>>
        /\ stopped' \in {stopped, TRUE}
    BY <1>10 DEF StreamOver, Closed, Goto, BackfillDone, BackoffOver, stop, LoopStep, Resume, Await,
                 Woken, Break, connector_vars, stream_vars, feed_vars, vars
  <2>2. StreamTypes' /\ Published' /\ (~stopped' => Runs')
    BY <1>2, <2>1, StreamKept
  <2> QED
    BY <1>1, <1>2, <2>1, <2>2 DEF StreamInv, SeenAccounted
<1> QED
  BY <1>3, <1>4, <1>5, <1>6, <1>7, <1>8, <1>9, <1>10 DEF Next, FeedStep, Environment, Transport

\* Only a frame that is taken moves a resume id, and it moves it to the next one.
LEMMA ResumeMoves ==
  ASSUME StreamInv, [Next]_vars, NEW c \in SseChannel, resumeIds'[c] # resumeIds[c]
  PROVE  /\ resumeIds[c] # 0 => resumeIds'[c] = resumeIds[c] + 1
         /\ \/ emitted'[<<c, resumeIds'[c]>>] > 0
            \/ <<c, resumeIds'[c]>> \in gaps' \cup counted'
<1> DEFINE h == Head(queue)
<1>1. TakeFrame /\ ~stopped
  BY DEF Next, FeedStep, Environment, Open, TakeFrame, StreamOver, backfill, BackfillDone,
         BackoffOver, stop, vars, feed_vars
<1>2. ingest(<<h.channel, h.id>>) /\ queue # <<>>
  BY <1>1 DEF TakeFrame, Shift
<1>3. h.channel \in SseChannel /\ resumeIds \in [SseChannel -> Nat]
  <2>1. StreamTypes /\ resumeIds \in [SseChannel -> Nat]
    BY DEF StreamInv, StreamTypes
  <2> HIDE DEF h
  <2>2. h = Head(queue)
    BY DEF h
  <2> QED
    BY <1>2, <2>1, <2>2, FramesTyped
<1>4. resumeIds' = [resumeIds EXCEPT ![h.channel] = h.id]
  BY <1>2 DEF ingest
<1>5. c = h.channel /\ resumeIds'[c] = h.id
  BY <1>3, <1>4
<1>6. <<c, h.id>> \in Record /\ (resumeIds[c] # 0 => h.id = resumeIds[c] + 1)
  BY <1>1, <1>5, TakenIsNext
<1>7. emitted'[<<c, h.id>>] > 0 \/ <<c, h.id>> \in gaps' \cup counted'
  BY <1>1, <1>2, <1>5, <1>6, AccountedTaken DEF StreamInv
<1> QED
  BY <1>5, <1>6, <1>7

\* With a server that honours Last-Event-ID the feed moves past no record of
\* either stream, over any number of drops, chunks and interleavings of the two:
\* the next one is emitted, reported by a gap event, or was taken first by a
\* backfill that could not map it and only counted it (LiveSseFeed).
THEOREM NoRecordIsSkipped ==
  ASSUME ResumeHonoured
  PROVE  Spec => NothingSkipped
<1> DEFINE Moves == \A c \in SseChannel :
             resumeIds'[c] # resumeIds[c] =>
               /\ resumeIds[c] # 0 => resumeIds'[c] = resumeIds[c] + 1
               /\ \/ emitted'[<<c, resumeIds'[c]>>] > 0
                  \/ <<c, resumeIds'[c]>> \in gaps' \cup counted'
<1>1. StreamInv /\ [Next]_vars => StreamInv'
  BY StreamStep
<1>2. StreamInv /\ [Next]_vars => [Moves]_vars
  BY ResumeMoves
<1> QED
  BY <1>1, <1>2, StreamInit, PTL DEF Spec, NothingSkipped
----------------------------------------------------------------------------
(***************************************************************************)
(* Types.  What is in the queue are records the server has published, and  *)
(* the backfill asks for intervals from the first on.                      *)
(***************************************************************************)
RecordFrame == {f \in [channel : SseChannel, id : Nat] : <<f.channel, f.id>> \in Record}

FirstOn == SseChannel \X (Nat \ {0})
Failures == SseChannel \X Nat \X {"failed"}

PumpsTyped ==
  /\ published \in [SseChannel -> Nat]
  /\ \A c \in SseChannel : published[c] <= MaxPublished[c]
  /\ pump \in [SseChannel -> {"opening", "reading", "finished"}]
  /\ cursor \in [SseChannel -> Nat]
  /\ queue \in Seq(RecordFrame)
  /\ wake \in BOOLEAN /\ failure \in BOOLEAN
  /\ conn \in {"idle", "running", "waiting", "yielded", "closing"}

FeedTyped ==
  /\ pc \in {"top", "streaming", "backfilling", "sleeping", "done"}
  /\ stopped \in BOOLEAN /\ resumeIds \in [SseChannel -> Nat] /\ lastTs \in Nat
  /\ seen \subseteq Record /\ emitted \in [Record -> Nat]
  /\ gaps \subseteq Record \cup Failures /\ counted \subseteq Record
  /\ reconnects \in 0..maxReconnects
  /\ todo \in Seq(FirstOn)

LEMMA RecordsAre ==
  /\ Record \subseteq SseChannel \X Nat
  /\ \A c \in SseChannel, n \in Nat : n # 0 /\ n <= MaxPublished[c] => <<c, n>> \in Record
<1>1. \A c \in SseChannel : MaxPublished[c] \in Nat
  BY ConnectorAssumption
<1> QED
  BY <1>1 DEF Record

LEMMA TypesFollow == PumpsTyped /\ FeedTyped => TypeOK
<1> SUFFICES ASSUME PumpsTyped, FeedTyped PROVE TypeOK
  OBVIOUS
<1>1. queue \in Seq([channel : SseChannel, id : Nat])
  <2>1. RecordFrame \subseteq [channel : SseChannel, id : Nat]
    BY DEF RecordFrame
  <2>2. queue \in Seq(RecordFrame)
    BY DEF PumpsTyped
  <2> DEFINE Frame == [channel : SseChannel, id : Nat]
  <2> HIDE DEF Frame
  <2>3. RecordFrame \subseteq Frame
    BY <2>1 DEF Frame
  <2>4. queue \in Seq(Frame)
    BY <2>2, <2>3
  <2> QED
    BY <2>4 DEF Frame
<1>2. todo \in Seq(SseChannel \X Nat)
  <2>1. FirstOn \subseteq SseChannel \X Nat /\ todo \in Seq(FirstOn)
    BY DEF FirstOn, FeedTyped
  <2> DEFINE Call == SseChannel \X Nat
  <2> HIDE DEF Call
  <2>2. FirstOn \subseteq Call
    BY <2>1 DEF Call
  <2>3. todo \in Seq(Call)
    BY <2>1, <2>2
  <2> QED
    BY <2>3 DEF Call
<1> QED
  BY <1>1, <1>2 DEF TypeOK, ConnectorTypeOK, PumpsTyped, FeedTyped, Failures

LEMMA TypesInit == Init => PumpsTyped /\ FeedTyped
<1> SUFFICES ASSUME Init PROVE PumpsTyped /\ FeedTyped
  OBVIOUS
<1>1. queue \in Seq(RecordFrame) /\ todo \in Seq(FirstOn)
  BY DEF Init, ConnectorInit
<1>2. 0 \in 0..maxReconnects /\ \A c \in SseChannel : MaxPublished[c] \in Nat
  BY LiveFeedAssumption, ConnectorAssumption
<1>3. PumpsTyped
  <2>1. ASSUME NEW c \in SseChannel PROVE published[c] <= MaxPublished[c]
    BY <1>2 DEF Init, ConnectorInit
  <2>2. /\ published \in [SseChannel -> Nat] /\ cursor \in [SseChannel -> Nat]
        /\ pump \in [SseChannel -> {"opening", "reading", "finished"}]
        /\ wake = FALSE /\ failure = FALSE /\ conn = "idle"
    BY DEF Init, ConnectorInit
  <2> QED
    BY <1>1, <2>1, <2>2 DEF PumpsTyped
<1>4. emitted \in [Record -> Nat] /\ seen = {} /\ gaps = {} /\ counted = {}
  BY DEF Init
<1>5. FeedTyped
  BY <1>1, <1>2, <1>4 DEF Init, FeedTyped
<1> QED
  BY <1>3, <1>5

\* A chunk is of records: its ids end at most where the server has come.
LEMMA ChunkTyped ==
  ASSUME PumpsTyped, NEW c \in SseChannel, NEW n \in Nat, cursor[c] + n <= published[c]
  PROVE  /\ [i \in 1..n |-> [channel |-> c, id |-> cursor[c] + i]] \in Seq(RecordFrame)
         /\ Len([i \in 1..n |-> [channel |-> c, id |-> cursor[c] + i]]) = n
<1>1. /\ cursor[c] \in Nat /\ published[c] \in Nat /\ MaxPublished[c] \in Nat
      /\ published[c] <= MaxPublished[c]
  BY ConnectorAssumption DEF PumpsTyped
<1>2. ASSUME NEW i \in 1..n PROVE [channel |-> c, id |-> cursor[c] + i] \in RecordFrame
  <2>1. cursor[c] + i \in Nat /\ cursor[c] + i # 0 /\ cursor[c] + i <= MaxPublished[c]
    BY <1>1
  <2>2. <<c, cursor[c] + i>> \in Record
    BY <2>1, RecordsAre
  <2> QED
    BY <2>1, <2>2 DEF RecordFrame
<1> QED
  BY <1>2

LEMMA PumpsTransport ==
  ASSUME PumpsTyped, NEW c \in SseChannel,
         PumpOpens(c) \/ PumpReads(c) \/ PumpEnds(c) \/ PumpFails(c) \/ Publish(c)
  PROVE  PumpsTyped'
<1>1. CASE PumpOpens(c)
  <2>1. published[c] \in Nat /\ cursor' \in [SseChannel -> Nat]
    BY <1>1 DEF PumpOpens, PumpsTyped
  <2>2. pump' \in [SseChannel -> {"opening", "reading", "finished"}]
    BY <1>1 DEF PumpOpens, PumpsTyped
  <2> QED
    BY <1>1, <2>1, <2>2 DEF PumpOpens, PumpsTyped
<1>2. CASE PumpReads(c)
  <2>1. PICK n \in 1..MaxChunk :
          /\ cursor[c] + n <= published[c]
          /\ queue' = queue \o [i \in 1..n |-> [channel |-> c, id |-> cursor[c] + i]]
          /\ cursor' = [cursor EXCEPT ![c] = cursor[c] + n]
    BY <1>2 DEF PumpReads
  <2> DEFINE chunk == [i \in 1..n |-> [channel |-> c, id |-> cursor[c] + i]]
  <2>2. n \in Nat /\ cursor[c] \in Nat
    BY ConnectorAssumption DEF PumpsTyped
  <2>3. chunk \in Seq(RecordFrame) /\ queue \in Seq(RecordFrame) /\ queue' = queue \o chunk
    BY <2>1, <2>2, ChunkTyped DEF PumpsTyped
  <2> HIDE DEF chunk
  <2>4. queue' \in Seq(RecordFrame)
    BY <2>3
  <2>5. cursor' \in [SseChannel -> Nat]
    BY <2>1, <2>2 DEF PumpsTyped
  <2> QED
    BY <1>2, <2>4, <2>5 DEF PumpReads, notify, PumpsTyped
<1>3. CASE PumpEnds(c) \/ PumpFails(c)
  <2>1. /\ pump' = [pump EXCEPT ![c] = "finished"] /\ wake' = FALSE
        /\ failure' \in {failure, TRUE}
        /\ UNCHANGED <<published, cursor, queue, conn>>
    BY <1>3 DEF PumpEnds, PumpFails, Finish, notify
  <2>2. pump' \in [SseChannel -> {"opening", "reading", "finished"}]
    BY <2>1 DEF PumpsTyped
  <2> QED
    BY <2>1, <2>2 DEF PumpsTyped
<1>4. CASE Publish(c)
  <2>1. published[c] \in Nat /\ MaxPublished[c] \in Nat /\ published[c] < MaxPublished[c]
    BY <1>4, ConnectorAssumption DEF Publish, PumpsTyped
  <2>2. /\ published' \in [SseChannel -> Nat]
        /\ \A d \in SseChannel : published'[d] = IF d = c THEN published[c] + 1 ELSE published[d]
    BY <1>4, <2>1 DEF Publish, PumpsTyped
  <2> QED
    BY <1>4, <2>1, <2>2 DEF Publish, stream_vars, PumpsTyped
<1> QED
  BY <1>1, <1>2, <1>3, <1>4

LEMMA HeadTyped ==
  ASSUME PumpsTyped, queue # <<>>
  PROVE  /\ <<Head(queue).channel, Head(queue).id>> \in Record
         /\ Head(queue).channel \in SseChannel /\ Head(queue).id \in Nat
         /\ Tail(queue) \in Seq(RecordFrame)
<1>1. Head(queue) \in RecordFrame /\ Tail(queue) \in Seq(RecordFrame)
  BY DEF PumpsTyped
<1> QED
  BY <1>1 DEF RecordFrame

LEMMA EmitTyped ==
  ASSUME NEW r \in Record, emitted \in [Record -> Nat], Emit(r)
  PROVE  emitted' \in [Record -> Nat]
<1>1. emitted[r] + 1 \in Nat
  OBVIOUS
<1> QED
  BY <1>1 DEF Emit

LEMMA IngestTyped ==
  ASSUME FeedTyped, NEW r \in Record, ingest(r)
  PROVE  /\ resumeIds' \in [SseChannel -> Nat] /\ lastTs' \in Nat
         /\ seen' \subseteq Record /\ emitted' \in [Record -> Nat]
         /\ gaps' \subseteq Record \cup Failures
<1>1. r \in SseChannel \X Nat /\ r[1] \in SseChannel /\ r[2] \in Nat
  BY RecordsAre
<1>2. resumeIds' \in [SseChannel -> Nat]
  BY <1>1 DEF ingest, FeedTyped
<1>3. CASE UNCHANGED emitted
  BY <1>1, <1>2, <1>3 DEF ingest, FeedTyped
<1>4. CASE Emit(r)
  <2>1. emitted' \in [Record -> Nat]
    BY <1>4, EmitTyped DEF FeedTyped
  <2> QED
    BY <1>1, <1>2, <2>1 DEF ingest, FeedTyped
<1> QED
  BY <1>3, <1>4 DEF ingest

\* The hour of the last event begins with a positive interval.
LEMMA IntervalsTyped == FeedTyped => backfillIntervalsFromTs \in Seq(FirstOn)
<1> SUFFICES ASSUME FeedTyped PROVE backfillIntervalsFromTs \in Seq(FirstOn)
  OBVIOUS
<1>1. lastTs \in Nat /\ IntervalsPerHour \in Nat \ {0}
  BY LiveFeedAssumption DEF FeedTyped
<1>2. CASE lastTs = 0
  BY <1>2 DEF backfillIntervalsFromTs
<1>3. CASE lastTs # 0
  <2> DEFINE start == Hour(lastTs) * IntervalsPerHour
             m == 2 * IntervalsPerHour
  <2>1. lastTs - 1 \in Nat /\ Hour(lastTs) \in Nat
    BY <1>1, <1>3 DEF Hour
  <2>2. start \in Nat
    BY <1>1, <2>1
  <2>3. m \in Nat
    BY <1>1
  <2>4. ASSUME NEW i \in 1..m
        PROVE  <<IF i % 2 = 1 THEN "odds" ELSE "scores", start + ((i + 1) \div 2)>> \in FirstOn
    <3>1. (i + 1) \div 2 \in Nat /\ (i + 1) \div 2 # 0
      BY <2>3
    <3> HIDE DEF start
    <3>2. start + ((i + 1) \div 2) \in Nat \ {0}
      BY <2>2, <3>1
    <3> QED
      BY <3>2 DEF FirstOn, SseChannel
  <2>5. backfillIntervalsFromTs =
          [i \in 1..m |-> <<IF i % 2 = 1 THEN "odds" ELSE "scores", start + ((i + 1) \div 2)>>]
    BY <1>3 DEF backfillIntervalsFromTs
  <2> HIDE DEF start, m
  <2> QED
    BY <2>3, <2>4, <2>5
<1> QED
  BY <1>2, <1>3

LEMMA BackfillTyped ==
  ASSUME PumpsTyped, FeedTyped, backfill
  PROVE  FeedTyped'
<1>1. todo # <<>> /\ todo' = Tail(todo) /\ UNCHANGED <<pc, stopped, resumeIds, lastTs, reconnects>>
  BY DEF backfill
<1>2. Head(todo) \in FirstOn /\ todo' \in Seq(FirstOn)
  BY <1>1 DEF FeedTyped
<1> DEFINE c == Head(todo)[1]
           slot == Head(todo)[2]
<1>3. /\ c \in SseChannel /\ slot \in Nat /\ slot # 0 /\ Head(todo) = <<c, slot>>
      /\ MaxPublished[c] \in Nat /\ published[c] \in Nat /\ published[c] <= MaxPublished[c]
  BY <1>2, ConnectorAssumption DEF FirstOn, PumpsTyped
<1>4. /\ Head(todo) \in SseChannel \X Nat
      /\ slot <= published[c] => <<c, slot>> \in Record
  BY <1>2, <1>3, RecordsAre DEF FirstOn
<1> DEFINE r == <<c, slot>>
<1>5. r = Head(todo)
  BY <1>3
<1>6. \/ slot <= published[c] /\ BackfillRecord(r)
      \/ UNCHANGED <<seen, emitted, counted>>
  BY DEF backfill
<1>7. gaps' \subseteq Record \cup Failures
  <2>1. gaps' = gaps \/ gaps' = gaps \cup {<<c, slot, "failed">>}
    BY DEF backfill
  <2>2. <<c, slot, "failed">> \in Failures
    BY <1>3 DEF Failures
  <2> QED
    BY <2>1, <2>2 DEF FeedTyped
<1> HIDE DEF r, c, slot
<1>8. \/ UNCHANGED <<seen, emitted, counted>>
      \/ r \in Record /\ seen' = seen \cup {r} /\ counted' = counted \cup {r} /\ UNCHANGED emitted
      \/ r \in Record /\ seen' = seen \cup {r} /\ counted' = counted /\ Emit(r)
  BY <1>4, <1>5, <1>6 DEF BackfillRecord, r
<1>9. seen' \subseteq Record /\ counted' \subseteq Record
  BY <1>8 DEF FeedTyped
<1>10. emitted' \in [Record -> Nat]
  BY <1>8, EmitTyped DEF FeedTyped
<1> QED
  BY <1>1, <1>2, <1>9, <1>10, <1>7 DEF FeedTyped

LEMMA TypesStep == PumpsTyped /\ FeedTyped /\ [Next]_vars => PumpsTyped' /\ FeedTyped'
<1> SUFFICES ASSUME PumpsTyped, FeedTyped, [Next]_vars PROVE PumpsTyped' /\ FeedTyped'
  OBVIOUS
<1>1. CASE \E c \in SseChannel :
             /\ PumpOpens(c) \/ PumpReads(c) \/ PumpEnds(c) \/ PumpFails(c) \/ Publish(c)
             /\ UNCHANGED feed_vars
  <2>1. PumpsTyped'
    BY <1>1, PumpsTransport
  <2> QED
    BY <1>1, <2>1 DEF feed_vars, FeedTyped
<1>2. CASE Open
  <2>1. FeedTyped'
    BY <1>2 DEF Open, FeedTyped
  <2>2. CASE UNCHANGED connector_vars
    BY <2>1, <2>2 DEF connector_vars, stream_vars, PumpsTyped
  <2>3. CASE Connect(ResumeId)
    <3>1. queue' \in Seq(RecordFrame)
      BY <2>3 DEF Connect
    <3>2. pump' \in [SseChannel -> {"opening", "reading", "finished"}]
      BY <2>3 DEF Connect
    <3> QED
      BY <2>1, <2>3, <3>1, <3>2 DEF Connect, ResumeId, PumpsTyped, FeedTyped
  <2> QED
    BY <1>2, <2>2, <2>3 DEF Open
<1>3. CASE TakeFrame
  <2>1. /\ queue # <<>> /\ queue' = Tail(queue) /\ conn' \in {"closing", "yielded"}
        /\ UNCHANGED <<published, pump, cursor, failure, wake, pc, stopped, counted,
                       reconnects, todo>>
    BY <1>3 DEF TakeFrame, Shift
  <2>2. PumpsTyped'
    BY <2>1, HeadTyped DEF PumpsTyped
  <2>3. CASE UNCHANGED <<resumeIds, lastTs, seen, emitted, gaps>>
    BY <2>1, <2>2, <2>3 DEF FeedTyped
  <2>4. CASE ingest(<<Head(queue).channel, Head(queue).id>>)
    <3>1. <<Head(queue).channel, Head(queue).id>> \in Record
      BY <2>1, HeadTyped
    <3> QED
      BY <2>1, <2>2, <2>4, <3>1, IngestTyped DEF FeedTyped
  <2> QED
    BY <1>3, <2>3, <2>4 DEF TakeFrame
<1>4. CASE StreamOver
  <2>1. PumpsTyped'
    BY <1>4 DEF StreamOver, Closed, Goto, stream_vars, PumpsTyped
  <2>2. CASE pc' = "done" /\ UNCHANGED <<reconnects, todo>>
    BY <1>4, <2>1, <2>2 DEF StreamOver, FeedTyped
  <2>3. CASE /\ ~(stopped \/ reconnects >= maxReconnects)
             /\ reconnects' = reconnects + 1 /\ todo' = backfillIntervalsFromTs
             /\ pc' = "backfilling"
    <3>1. reconnects' \in 0..maxReconnects
      BY <2>3, LiveFeedAssumption DEF FeedTyped
    <3>2. todo' \in Seq(FirstOn)
      BY <2>3, IntervalsTyped
    <3> QED
      BY <1>4, <2>1, <2>3, <3>1, <3>2 DEF StreamOver, FeedTyped
  <2> QED
    BY <1>4, <2>2, <2>3 DEF StreamOver
<1>5. CASE backfill
  <2>1. PumpsTyped'
    BY <1>5 DEF backfill, connector_vars, stream_vars, PumpsTyped
  <2> QED
    BY <1>5, <2>1, BackfillTyped
<1>6. CASE BackfillDone \/ BackoffOver \/ stop \/ UNCHANGED vars
  <2>1. PumpsTyped'
    BY <1>6 DEF BackfillDone, BackoffOver, stop, vars, connector_vars, stream_vars, PumpsTyped
  <2>2. FeedTyped'
    BY <1>6 DEF BackfillDone, BackoffOver, stop, vars, feed_vars, FeedTyped
  <2> QED
    BY <2>1, <2>2
<1>7. CASE LoopStep /\ UNCHANGED feed_vars
  <2>1. FeedTyped'
    BY <1>7 DEF feed_vars, FeedTyped
  <2>2. PumpsTyped'
    BY <1>7 DEF LoopStep, Resume, Await, Woken, Break, Goto, stream_vars, PumpsTyped
  <2> QED
    BY <2>1, <2>2
<1> QED
  BY <1>1, <1>2, <1>3, <1>4, <1>5, <1>6, <1>7 DEF Next, FeedStep, Environment, Transport

\* Connector and feed keep their types and make at most maxReconnects
\* reconnects; what they see, emit and ask for are records of the two streams.
THEOREM FeedTypeSafety == Spec => []TypeOK
  BY TypesInit, TypesStep, TypesFollow, PTL DEF Spec
----------------------------------------------------------------------------
(***************************************************************************)
(* The order of the queue, whether or not the server honours the resume    *)
(* id.  A stream that is still opening has put nothing in the queue, so    *)
(* the cursor it starts from can be any.                                   *)
(***************************************************************************)
RunsUp(c) ==
  /\ \A i, j : Holds(i, c) /\ Holds(j, c) /\ i < j => queue[i].id < queue[j].id
  /\ \A i : Holds(i, c) => queue[i].id <= cursor[c]
  /\ \A i, n : Holds(i, c) /\ n \in queue[i].id..cursor[c] => \E j : Holds(j, c) /\ queue[j].id = n

EmptyWhileOpening == \A c \in SseChannel : pump[c] = "opening" => \A i : ~Holds(i, c)

OrderInv == PumpsTyped /\ FeedTyped /\ EmptyWhileOpening /\ \A c \in SseChannel : RunsUp(c)

LEMMA FramesNumbered ==
  ASSUME PumpsTyped
  PROVE  /\ Len(queue) \in Nat /\ DOMAIN queue = 1..Len(queue)
         /\ \A i \in 1..Len(queue) : queue[i].id \in Nat
<1>1. queue \in Seq(RecordFrame)
  BY DEF PumpsTyped
<1>2. Len(queue) \in Nat /\ DOMAIN queue = 1..Len(queue)
      /\ \A i \in 1..Len(queue) : queue[i] \in RecordFrame
  BY <1>1
<1>3. \A f \in RecordFrame : f.id \in Nat
  BY DEF RecordFrame
<1> QED
  BY <1>2, <1>3

LEMMA OrderIsContiguous == OrderInv => QueueIsContiguous
<1> SUFFICES ASSUME OrderInv, NEW c \in SseChannel
             PROVE  LET mine == {i \in DOMAIN queue : queue[i].channel = c} IN
                    /\ \A i, j \in mine : i < j => queue[i].id < queue[j].id
                    /\ \A i \in mine :
                         /\ queue[i].id <= cursor[c]
                         /\ \A n \in queue[i].id..cursor[c] : \E j \in mine : queue[j].id = n
  BY DEF QueueIsContiguous
<1> DEFINE mine == {i \in DOMAIN queue : queue[i].channel = c}
<1>1. \A i : i \in mine <=> Holds(i, c)
  BY FramesNumbered DEF OrderInv, Holds
<1>2. RunsUp(c)
  BY DEF OrderInv
<1> HIDE DEF mine
<1> SUFFICES /\ \A i, j \in mine : i < j => queue[i].id < queue[j].id
             /\ \A i \in mine :
                  /\ queue[i].id <= cursor[c]
                  /\ \A n \in queue[i].id..cursor[c] : \E j \in mine : queue[j].id = n
  BY DEF mine
<1> QED
  BY <1>1, <1>2 DEF RunsUp

\* A chunk goes on where the pump's own frames end.
LEMMA OrderReads ==
  ASSUME PumpsTyped, NEW c \in SseChannel, NEW d \in SseChannel, RunsUp(d), PumpReads(c)
  PROVE  RunsUp(d)'
<1>1. PICK n \in 1..MaxChunk :
        /\ cursor[c] + n <= published[c]
        /\ queue' = queue \o [i \in 1..n |-> [channel |-> c, id |-> cursor[c] + i]]
        /\ cursor' = [cursor EXCEPT ![c] = cursor[c] + n]
  BY DEF PumpReads
<1>2. n \in Nat /\ cursor[c] \in Nat /\ cursor[d] \in Nat /\ Len(queue) \in Nat
  BY ConnectorAssumption, FramesNumbered DEF PumpsTyped
<1> DEFINE chunk == [i \in 1..n |-> [channel |-> c, id |-> cursor[c] + i]]
           L == Len(queue)
<1>3. chunk \in Seq(RecordFrame) /\ Len(chunk) = n /\ queue \in Seq(RecordFrame)
  BY <1>1, <1>2, ChunkTyped DEF PumpsTyped
<1>4. \A i \in 1..n : chunk[i].channel = c /\ chunk[i].id = cursor[c] + i
  OBVIOUS
<1>5. queue' = queue \o chunk
  BY <1>1
<1> HIDE DEF chunk
<1>6. Len(queue') = L + n /\ \A i \in 1..L : queue'[i] = queue[i]
  BY <1>2, <1>3, <1>5
<1>7. \A i \in (L + 1)..(L + n) : queue'[i].channel = c /\ queue'[i].id = cursor[c] + (i - L)
  <2> SUFFICES ASSUME NEW i \in (L + 1)..(L + n)
               PROVE  queue'[i].channel = c /\ queue'[i].id = cursor[c] + (i - L)
    OBVIOUS
  <2>1. i - L \in 1..n /\ i \in L + 1..L + n
    BY <1>2
  <2>2. queue'[i] = chunk[i - L]
    BY <1>2, <1>3, <1>5, <2>1
  <2> QED
    BY <1>4, <2>1, <2>2
<1>8. \A i \in 1..L : queue[i].id \in Nat
  BY FramesNumbered
<1> HIDE DEF L
<1>9. L \in Nat /\ L = Len(queue)
  BY <1>2 DEF L
<1>10. \A i : Holds(i, d)' <=> Holds(i, d) \/ (d = c /\ i \in (L + 1)..(L + n))
  <2> SUFFICES ASSUME NEW i
               PROVE  Holds(i, d)' <=> Holds(i, d) \/ (d = c /\ i \in (L + 1)..(L + n))
    OBVIOUS
  <2>1. i \in 1..(L + n) <=> i \in 1..L \/ i \in (L + 1)..(L + n)
    BY <1>2, <1>9
  <2>2. Holds(i, d)' <=> i \in 1..(L + n) /\ queue'[i].channel = d
    BY <1>6 DEF Holds
  <2>3. Holds(i, d) <=> i \in 1..L /\ queue[i].channel = d
    BY <1>9 DEF Holds
  <2> QED
    BY <1>6, <1>7, <2>1, <2>2, <2>3
<1>11. \A i : Holds(i, d) => i \in 1..L /\ queue'[i].id = queue[i].id /\ queue[i].id \in Nat
  BY <1>6, <1>8, <1>9 DEF Holds
<1>12. CASE d # c
  <2>1. cursor'[d] = cursor[d] /\ \A i : Holds(i, d)' <=> Holds(i, d)
    BY <1>1, <1>10, <1>12 DEF PumpsTyped
  <2> QED
    BY <1>11, <2>1 DEF RunsUp
<1>13. CASE d = c
  <2> DEFINE k == cursor[c]
  <2>1. cursor'[d] = k + n /\ k \in Nat
    BY <1>1, <1>2, <1>13 DEF PumpsTyped
  <2>2. \A i : Holds(i, d) => queue[i].id <= k
    BY <1>13 DEF RunsUp
  <2>3. \A i \in (L + 1)..(L + n) :
          /\ queue'[i].id = k + (i - L)
          /\ k < queue'[i].id /\ queue'[i].id <= k + n /\ queue'[i].id \in Nat
    <3> SUFFICES ASSUME NEW i \in (L + 1)..(L + n)
                 PROVE  k + (i - L) \in Nat /\ k < k + (i - L) /\ k + (i - L) <= k + n
      BY <1>7
    <3> QED
      BY <1>2, <1>9, <2>1
  <2> HIDE DEF k
  <2>4. \A i : Holds(i, d)' => queue'[i].id <= k + n /\ queue'[i].id \in Nat
    <3> SUFFICES ASSUME NEW i, Holds(i, d)'
                 PROVE  queue'[i].id <= k + n /\ queue'[i].id \in Nat
      OBVIOUS
    <3>1. CASE Holds(i, d)
      <4>1. queue'[i].id = queue[i].id /\ queue[i].id \in Nat /\ queue[i].id <= k
        BY <1>11, <2>2, <3>1
      <4> QED
        BY <1>2, <2>1, <4>1
    <3> QED
      BY <1>10, <2>3, <3>1
  <2>5. ASSUME NEW i, NEW j, Holds(i, d)', Holds(j, d)', i < j
        PROVE  queue'[i].id < queue'[j].id
    <3>1. CASE Holds(i, d) /\ Holds(j, d)
      <4>1. queue[i].id < queue[j].id
        BY <2>5, <3>1 DEF RunsUp
      <4> QED
        BY <1>11, <3>1, <4>1
    <3>2. CASE Holds(i, d) /\ j \in (L + 1)..(L + n)
      <4>1. queue'[i].id = queue[i].id /\ queue[i].id \in Nat /\ queue[i].id <= k
        BY <1>11, <2>2, <3>2
      <4>2. k < queue'[j].id /\ queue'[j].id \in Nat
        BY <2>3, <3>2
      <4> QED
        BY <2>1, <4>1, <4>2
    <3>3. CASE i \in (L + 1)..(L + n) /\ j \in (L + 1)..(L + n)
      <4>1. queue'[i].id = k + (i - L) /\ queue'[j].id = k + (j - L)
        BY <2>3, <3>3
      <4>2. i \in Int /\ j \in Int
        BY <3>3
      <4> QED
        BY <1>9, <2>1, <2>5, <4>1, <4>2
    <3>4. CASE i \in (L + 1)..(L + n) /\ Holds(j, d)
      <4>1. j \in Int /\ j <= L /\ i \in Int /\ L + 1 <= i
        BY <1>9, <1>11, <3>4
      <4> QED
        BY <1>9, <2>5, <4>1
    <3> QED
      BY <1>10, <2>5, <3>1, <3>2, <3>3, <3>4
  <2>6. ASSUME NEW i, NEW m, Holds(i, d)', m \in queue'[i].id..(k + n)
        PROVE  \E j : Holds(j, d)' /\ queue'[j].id = m
    <3>1. m \in Int /\ queue'[i].id <= m /\ m <= k + n /\ queue'[i].id \in Nat
      BY <2>4, <2>6
    <3>2. CASE m <= k
      <4>1. Holds(i, d)
        <5>1. ~(i \in (L + 1)..(L + n))
          BY <2>1, <2>3, <3>1, <3>2
        <5> QED
          BY <1>10, <2>6, <5>1
      <4>2. m \in queue[i].id..cursor[d]
        BY <1>11, <1>13, <2>1, <3>1, <3>2, <4>1 DEF k
      <4>3. PICK j : Holds(j, d) /\ queue[j].id = m
        BY <4>1, <4>2 DEF RunsUp
      <4> QED
        BY <1>10, <1>11, <4>3
    <3>3. CASE m > k
      <4>1. L + (m - k) \in (L + 1)..(L + n) /\ k + ((L + (m - k)) - L) = m
        BY <1>2, <1>9, <2>1, <3>1, <3>3
      <4> QED
        BY <1>10, <1>13, <2>3, <4>1
    <3> QED
      BY <2>1, <3>1, <3>2, <3>3
  <2> QED
    BY <2>1, <2>4, <2>5, <2>6 DEF RunsUp
<1> QED
  BY <1>12, <1>13

\* Taking the head leaves the rest as it was.
LEMMA OrderShifts ==
  ASSUME PumpsTyped, queue # <<>>, queue' = Tail(queue), UNCHANGED cursor,
         NEW c \in SseChannel, RunsUp(c)
  PROVE  /\ RunsUp(c)'
         /\ (\A i : ~Holds(i, c)) => \A i : ~Holds(i, c)'
<1> DEFINE L == Len(queue)
<1>1. queue \in Seq(RecordFrame) /\ L \in Nat \ {0}
  BY DEF PumpsTyped
<1>2. Len(queue') = L - 1 /\ \A i \in 1..(L - 1) : queue'[i] = queue[i + 1]
  BY <1>1
<1>3. \A i \in 1..L : queue[i].id \in Nat
  BY FramesNumbered
<1> HIDE DEF L
<1>4. L = Len(queue)
  BY DEF L
<1>5. \A i : Holds(i, c)' => i \in Int /\ Holds(i + 1, c) /\ queue'[i] = queue[i + 1]
  <2> SUFFICES ASSUME NEW i, Holds(i, c)'
               PROVE  i \in Int /\ Holds(i + 1, c) /\ queue'[i] = queue[i + 1]
    OBVIOUS
  <2>1. i \in 1..(L - 1) /\ queue'[i].channel = c
    BY <1>2 DEF Holds
  <2>2. i + 1 \in 1..L /\ i \in Int
    BY <1>1, <2>1
  <2> QED
    BY <1>2, <1>4, <2>1, <2>2 DEF Holds
<1>6. \A j : Holds(j, c) /\ j # 1 =>
        j \in 1..L /\ Holds(j - 1, c)' /\ queue'[j - 1] = queue[j]
  <2> SUFFICES ASSUME NEW j, Holds(j, c), j # 1
               PROVE  j \in 1..L /\ Holds(j - 1, c)' /\ queue'[j - 1] = queue[j]
    OBVIOUS
  <2>1. j \in 1..L /\ queue[j].channel = c
    BY <1>4 DEF Holds
  <2>2. j - 1 \in 1..(L - 1) /\ (j - 1) + 1 = j
    BY <1>1, <2>1
  <2>3. queue'[j - 1] = queue[j]
    BY <1>2, <2>2
  <2> QED
    BY <1>2, <2>1, <2>2, <2>3 DEF Holds
<1>7. \A i, j : Holds(i, c)' /\ Holds(j, c)' /\ i < j => queue'[i].id < queue'[j].id
  <2> SUFFICES ASSUME NEW i, NEW j, Holds(i, c)', Holds(j, c)', i < j
               PROVE  queue'[i].id < queue'[j].id
    OBVIOUS
  <2>1. i + 1 < j + 1
    BY <1>5
  <2>2. queue[i + 1].id < queue[j + 1].id
    BY <1>5, <2>1 DEF RunsUp
  <2> QED
    BY <1>5, <2>2
<1>8. \A i : Holds(i, c)' => queue'[i].id <= cursor[c]
  BY <1>5 DEF RunsUp
<1>9. ASSUME NEW i, NEW n, Holds(i, c)', n \in queue'[i].id..cursor[c]
      PROVE  \E j : Holds(j, c)' /\ queue'[j].id = n
  <2>1. i \in Int /\ Holds(i + 1, c) /\ queue'[i] = queue[i + 1]
    BY <1>5, <1>9
  <2>2. PICK j : Holds(j, c) /\ queue[j].id = n
    BY <1>9, <2>1 DEF RunsUp
  <2>3. j # 1
    <3> SUFFICES ASSUME j = 1 PROVE FALSE
      OBVIOUS
    <3>1. i + 1 \in 1..L /\ 1 \in 1..L
      BY <1>4, <2>1, <2>2 DEF Holds
    <3>2. i \in 1..(L - 1)
      BY <1>2, <1>9 DEF Holds
    <3>3. 1 < i + 1
      BY <1>1, <3>2
    <3>4. queue[1].id < queue[i + 1].id
      BY <2>1, <2>2, <3>3 DEF RunsUp
    <3>5. queue[1].id = n /\ queue[1].id \in Nat /\ queue[i + 1].id \in Nat /\ cursor[c] \in Nat
      BY <1>3, <2>2, <3>1 DEF PumpsTyped
    <3>6. n \in queue[i + 1].id..cursor[c]
      BY <1>9, <2>1
    <3> QED
      BY <3>4, <3>5, <3>6
  <2> QED
    BY <1>6, <2>2, <2>3
<1> QED
  BY <1>5, <1>7, <1>8, <1>9 DEF RunsUp

LEMMA OrderKept ==
  ASSUME EmptyWhileOpening, \A c \in SseChannel : RunsUp(c), UNCHANGED <<cursor, queue>>,
         \A c \in SseChannel : pump'[c] = "opening" => pump[c] = "opening"
  PROVE  EmptyWhileOpening' /\ \A c \in SseChannel : RunsUp(c)'
  BY DEF EmptyWhileOpening, RunsUp, Holds

LEMMA OrderPumps ==
  ASSUME OrderInv, NEW c \in SseChannel,
         PumpOpens(c) \/ PumpReads(c) \/ PumpEnds(c) \/ PumpFails(c) \/ Publish(c)
  PROVE  EmptyWhileOpening' /\ \A d \in SseChannel : RunsUp(d)'
<1>1. PumpsTyped /\ EmptyWhileOpening /\ (\A d \in SseChannel : RunsUp(d)) /\ pump = [d \in SseChannel |-> pump[d]]
  BY DEF OrderInv, PumpsTyped
<1>2. CASE PumpOpens(c)
  <2>1. /\ queue' = queue /\ pump'[c] = "reading" /\ \A i : ~Holds(i, c)
        /\ \A d \in SseChannel \ {c} : cursor'[d] = cursor[d] /\ pump'[d] = pump[d]
    BY <1>1, <1>2 DEF PumpOpens, PumpsTyped, EmptyWhileOpening
  <2>2. \A d, i : Holds(i, d)' <=> Holds(i, d)
    BY <2>1 DEF Holds
  <2>3. EmptyWhileOpening'
    BY <1>1, <2>1, <2>2 DEF EmptyWhileOpening
  <2>4. ASSUME NEW d \in SseChannel PROVE RunsUp(d)'
    <3>1. CASE d = c
      BY <2>1, <2>2, <3>1 DEF RunsUp
    <3>2. CASE d # c
      <4>1. cursor'[d] = cursor[d] /\ RunsUp(d)
        BY <1>1, <2>1, <3>2
      <4> QED
        BY <2>1, <2>2, <4>1 DEF RunsUp
    <3> QED
      BY <3>1, <3>2
  <2> QED
    BY <2>3, <2>4
<1>3. CASE PumpReads(c)
  <2>1. \A d \in SseChannel : RunsUp(d)'
    BY <1>1, <1>3, OrderReads
  <2>2. pump' = pump /\ pump[c] = "reading"
    BY <1>3 DEF PumpReads
  <2>3. PICK n \in 1..MaxChunk :
          queue' = queue \o [i \in 1..n |-> [channel |-> c, id |-> cursor[c] + i]]
          /\ cursor[c] + n <= published[c]
    BY <1>3 DEF PumpReads
  <2>4. n \in Nat /\ Len(queue) \in Nat
    BY ConnectorAssumption, <1>1, FramesNumbered
  <2> DEFINE chunk == [i \in 1..n |-> [channel |-> c, id |-> cursor[c] + i]]
  <2>5. chunk \in Seq(RecordFrame) /\ Len(chunk) = n /\ queue \in Seq(RecordFrame)
    BY <1>1, <2>3, <2>4, ChunkTyped DEF PumpsTyped
  <2>6. \A i \in 1..n : chunk[i].channel = c
    OBVIOUS
  <2>7. queue' = queue \o chunk
    BY <2>3
  <2> HIDE DEF chunk
  <2>8. ASSUME NEW d \in SseChannel, d # c, NEW i, Holds(i, d)' PROVE Holds(i, d)
    <3>1. i \in 1..(Len(queue) + n) /\ queue'[i].channel = d
      BY <2>4, <2>5, <2>7, <2>8 DEF Holds
    <3>2. CASE i \in 1..Len(queue)
      <4>1. queue'[i] = queue[i]
        BY <2>5, <2>7, <3>2
      <4> QED
        BY <3>1, <3>2, <4>1 DEF Holds
    <3>3. CASE i \notin 1..Len(queue)
      <4>1. i - Len(queue) \in 1..n /\ i \in Len(queue) + 1..Len(queue) + n
        BY <2>4, <3>1, <3>3
      <4>2. queue'[i] = chunk[i - Len(queue)]
        BY <2>4, <2>5, <2>7, <4>1
      <4> QED
        BY <2>6, <2>8, <3>1, <4>1, <4>2
    <3> QED
      BY <3>2, <3>3
  <2>9. EmptyWhileOpening'
    BY <1>1, <2>2, <2>8 DEF EmptyWhileOpening
  <2> QED
    BY <2>1, <2>9
<1>4. CASE PumpEnds(c) \/ PumpFails(c) \/ Publish(c)
  <2>1. /\ UNCHANGED <<cursor, queue>>
        /\ pump' = pump \/ pump' = [pump EXCEPT ![c] = "finished"]
    BY <1>4 DEF PumpEnds, PumpFails, Finish, Publish, stream_vars
  <2>2. \A d \in SseChannel : pump'[d] = "opening" => pump[d] = "opening"
    BY <1>1, <2>1
  <2> QED
    BY <1>1, <2>1, <2>2, OrderKept
<1> QED
  BY <1>2, <1>3, <1>4

LEMMA OrderStep == OrderInv /\ [Next]_vars => OrderInv'
<1> SUFFICES ASSUME OrderInv, [Next]_vars PROVE OrderInv'
  OBVIOUS
<1>1. PumpsTyped' /\ FeedTyped'
  BY TypesStep DEF OrderInv
<1>2. PumpsTyped /\ EmptyWhileOpening /\ \A d \in SseChannel : RunsUp(d)
  BY DEF OrderInv
<1>3. SUFFICES EmptyWhileOpening' /\ \A d \in SseChannel : RunsUp(d)'
  BY <1>1 DEF OrderInv
<1>4. CASE \E c \in SseChannel :
             PumpOpens(c) \/ PumpReads(c) \/ PumpEnds(c) \/ PumpFails(c) \/ Publish(c)
  BY <1>4, OrderPumps
<1>5. CASE UNCHANGED <<pump, cursor, queue>>
  BY <1>2, <1>5, OrderKept
<1>6. CASE Open
  <2>1. CASE UNCHANGED connector_vars
    BY <1>5, <2>1 DEF connector_vars, stream_vars
  <2>2. CASE Connect(ResumeId)
    <3>1. \A c, i : ~Holds(i, c)'
      BY <2>2 DEF Connect, Holds
    <3> QED
      BY <3>1 DEF EmptyWhileOpening, RunsUp
  <2> QED
    BY <1>6, <2>1, <2>2 DEF Open
<1>7. CASE TakeFrame
  <2>1. queue # <<>> /\ queue' = Tail(queue) /\ UNCHANGED <<pump, cursor>>
    BY <1>7 DEF TakeFrame, Shift
  <2>2. \A c \in SseChannel : RunsUp(c)' /\ ((\A i : ~Holds(i, c)) => \A i : ~Holds(i, c)')
    BY <1>2, <2>1, OrderShifts
  <2> QED
    BY <1>2, <2>1, <2>2 DEF EmptyWhileOpening
<1>8. CASE \/ StreamOver \/ backfill \/ BackfillDone \/ BackoffOver \/ stop
           \/ LoopStep \/ UNCHANGED vars
  <2>1. UNCHANGED <<pump, cursor, queue>>
    BY <1>8 DEF StreamOver, Closed, Goto, backfill, BackfillDone, BackoffOver, stop, LoopStep,
                Resume, Await, Woken, Break, connector_vars, stream_vars, vars
  <2> QED
    BY <1>5, <2>1
<1> QED
  BY <1>4, <1>6, <1>7, <1>8 DEF Next, FeedStep, Environment, Transport

\* Each channel keeps the order of its stream on the shared queue, without gaps
\* and up to what its pump has read, whatever the other does (connect of
\* FetchSseConnector).
THEOREM ChannelsKeepOrder == Spec => []QueueIsContiguous
<1>1. Init => OrderInv
  <2> SUFFICES ASSUME Init PROVE OrderInv
    OBVIOUS
  <2>1. \A c, i : ~Holds(i, c)
    BY DEF Init, ConnectorInit, Holds
  <2> QED
    BY <2>1, TypesInit DEF OrderInv, EmptyWhileOpening, RunsUp
<1> QED
  BY <1>1, OrderStep, OrderIsContiguous, PTL DEF Spec
=============================================================================
