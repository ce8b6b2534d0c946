---------------------------- MODULE SseConnector ----------------------------
(***************************************************************************)
(* FetchSseConnector.connect of packages/txline: two pumps, one per event  *)
(* stream, push the frames they read onto a shared queue; one generator    *)
(* loop shifts them off, yields them to its consumer and sleeps on a       *)
(* promise when there is nothing to shift.                                 *)
(*                                                                         *)
(* A frame is its channel and its id, ids being numbered from 1 in the     *)
(* order the server publishes them.  The server side (Publish, the point a *)
(* stream starts from, when it ends or breaks) is external and free.       *)
(***************************************************************************)
EXTENDS Integers, Sequences, FiniteSets

CONSTANTS
  MaxPublished,    (* bound: records the server publishes, by channel       *)
  MaxChunk,        (* bound: frames one chunk of bytes completes            *)
  ResumeHonoured   (* whether the server resumes after Last-Event-ID        *)

SseChannel == {"odds", "scores"}

ASSUME ConnectorAssumption ==
  /\ MaxPublished \in [SseChannel -> Nat]
  /\ MaxChunk \in Nat \ {0} /\ ResumeHonoured \in BOOLEAN

VARIABLES
  published,   (* last id the server has published, by channel              *)
  pump,        (* "opening", "reading" or "finished", by channel            *)
  cursor,      (* last id read by a pump; the id it resumes from, 0 if none *)
  queue,       (* frames read and not yet yielded                           *)
  wake,        (* whether the loop's promise has a resolver waiting         *)
  failure,     (* whether a pump recorded an error                          *)
  conn         (* where the generator is: "idle" before and after           *)

stream_vars == <<pump, cursor, queue, failure>>
connector_vars == <<published, stream_vars, wake, conn>>

Finished == {c \in SseChannel : pump[c] = "finished"}
AllFinished == Finished = SseChannel
----------------------------------------------------------------------------
\* The server.
Publish(c) ==
  /\ published[c] < MaxPublished[c]
  /\ published' = [published EXCEPT ![c] = @ + 1]
  /\ UNCHANGED <<stream_vars, wake, conn>>
----------------------------------------------------------------------------
\* The pumps.  notify() resolves the promise the loop may be waiting on.
notify == wake' = FALSE

\* A stream opened with Last-Event-ID goes on after that id, if the server
\* honours it; any other starts with the next record to be published.
PumpOpens(c) ==
  /\ pump[c] = "opening"
  /\ pump' = [pump EXCEPT ![c] = "reading"]
  /\ cursor' = IF ResumeHonoured /\ cursor[c] # 0 THEN cursor
               ELSE [cursor EXCEPT ![c] = published[c]]
  /\ UNCHANGED <<published, queue, failure, wake, conn>>

PumpReadsLastFirst(c) ==                                               \* mutant
  /\ pump[c] = "reading"
  /\ \E n \in 1..MaxChunk :
       /\ cursor[c] + n <= published[c]
       /\ queue' = queue \o [i \in 1..n |-> [channel |-> c, id |-> cursor[c] + n + 1 - i]]
       /\ cursor' = [cursor EXCEPT ![c] = @ + n]
  /\ notify
  /\ UNCHANGED <<published, pump, failure, conn>>

PumpReads(c) ==
  /\ pump[c] = "reading"
  /\ \E n \in 1..MaxChunk :
       /\ cursor[c] + n <= published[c]
       /\ queue' = queue \o [i \in 1..n |-> [channel |-> c, id |-> cursor[c] + i]]
       /\ cursor' = [cursor EXCEPT ![c] = @ + n]
  /\ notify
  /\ UNCHANGED <<published, pump, failure, conn>>

FinishSilently(c) ==                                                   \* mutant
  /\ pump' = [pump EXCEPT ![c] = "finished"]
  /\ UNCHANGED wake

\* The finally block of a pump.
Finish(c) ==
  /\ pump' = [pump EXCEPT ![c] = "finished"]
  /\ notify

\* The server ends the stream.
PumpEnds(c) ==
  /\ pump[c] = "reading"
  /\ Finish(c)
  /\ UNCHANGED <<published, cursor, queue, failure, conn>>

\* A non-2xx status, no body, a broken connection, or the abort of the loop.
PumpFails(c) ==
  /\ pump[c] \in {"opening", "reading"}
  /\ failure' = TRUE
  /\ Finish(c)
  /\ UNCHANGED <<published, cursor, queue, conn>>

NeverAborts(c) == FALSE                                                \* mutant

\* controller.abort() makes a pump that is still open fail.
Unwind(c) == conn = "closing" /\ PumpFails(c)
----------------------------------------------------------------------------
\* The loop of the generator.
Connect(resume) ==
  /\ conn = "idle"
  /\ conn' = "running"
  /\ pump' = [c \in SseChannel |-> "opening"]
  /\ cursor' = resume
  /\ queue' = <<>> /\ wake' = FALSE /\ failure' = FALSE
  /\ UNCHANGED published

\* The loop hands Head(queue) to the consumer, which keeps it ("yielded") or
\* breaks out of its own loop ("closing": the generator's finally block).
Shift(to) ==
  /\ conn = "running" /\ queue # <<>>
  /\ queue' = Tail(queue)
  /\ conn' = to
  /\ UNCHANGED <<published, pump, cursor, failure, wake>>

Goto(from, to) ==
  /\ conn = from
  /\ conn' = to
  /\ UNCHANGED <<published, stream_vars>>

\* The consumer asks for the next frame.
Resume == Goto("yielded", "running") /\ UNCHANGED wake

Await == /\ queue = <<>> /\ ~AllFinished
         /\ Goto("running", "waiting") /\ wake' = TRUE

Woken == ~wake /\ Goto("waiting", "running") /\ UNCHANGED wake

BreakOnFailure ==                                                      \* mutant
  /\ queue = <<>> /\ AllFinished /\ failure
  /\ Goto("running", "closing") /\ UNCHANGED wake

\* finishedPumps >= pumps.length: the loop ends when both pumps have.
Break == /\ queue = <<>> /\ AllFinished
         /\ Goto("running", "closing") /\ UNCHANGED wake

\* Promise.allSettled(pumps): the generator is over, with failure thrown.
Closed == AllFinished /\ Goto("closing", "idle") /\ UNCHANGED wake

Transport == \E c \in SseChannel : PumpOpens(c) \/ PumpReads(c) \/ PumpEnds(c) \/ PumpFails(c)
LoopStep == Resume \/ Await \/ Woken \/ Break

ConnectorInit ==
  /\ published = [c \in SseChannel |-> 0]
  /\ pump = [c \in SseChannel |-> "finished"]
  /\ cursor = [c \in SseChannel |-> 0]
  /\ queue = <<>> /\ wake = FALSE /\ failure = FALSE /\ conn = "idle"
----------------------------------------------------------------------------
ConnectorTypeOK ==
  /\ published \in [SseChannel -> Nat]
  /\ pump \in [SseChannel -> {"opening", "reading", "finished"}]
  /\ cursor \in [SseChannel -> Nat]
  /\ queue \in Seq([channel : SseChannel, id : Nat])
  /\ wake \in BOOLEAN /\ failure \in BOOLEAN
  /\ conn \in {"idle", "running", "waiting", "yielded", "closing"}

\* The loop never sleeps through a frame or through the end of the streams:
\* while its promise is unresolved there is nothing to shift and some pump is
\* still there to resolve it.  A pump pushes and finishes while the loop may be
\* anywhere between finding the queue empty and storing its resolver.
NoLostWakeup == conn = "waiting" /\ wake => queue = <<>> /\ ~AllFinished

\* Frames of one channel are yielded in the order and without the gaps of the
\* stream they were read from ("order is preserved within a channel even though
\* the two streams are merged", sse-connector.test.ts): what waits in the queue
\* is in order and runs without a gap up to the pump's cursor.
QueueIsContiguous ==
  \A c \in SseChannel :
    LET mine == {i \in DOMAIN queue : queue[i].channel = c} IN
    /\ \A i, j \in mine : i < j => queue[i].id < queue[j].id
    /\ \A i \in mine :
         /\ queue[i].id <= cursor[c]
         /\ \A n \in queue[i].id..cursor[c] : \E j \in mine : queue[j].id = n
=============================================================================
