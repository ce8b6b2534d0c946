----------------------------- MODULE SseFrames -----------------------------
(***************************************************************************)
(* SseFrameParser of packages/txline/src/feed/sse-parse.ts, fed the text   *)
(* of one event stream in chunks cut wherever the network cuts them.       *)
(*                                                                         *)
(* Text is a sequence of pieces: a carriage return, a line feed, a colon,  *)
(* a space, a field name or a value.  The parser never looks inside a name *)
(* or a value, so a chunk boundary there is the boundary beside it.        *)
(***************************************************************************)
EXTENDS Integers, Sequences, SequencesExt

CONSTANTS
  Pieces,     (* what a text is made of                                     *)
  Streams,    (* the texts a server may send                                *)
  MaxPieces   (* bound: pieces in a chunk                                   *)

ASSUME FramesAssumption == Streams \subseteq Seq(Pieces) /\ MaxPieces \in Nat

CR == "\r"
LF == "\n"
Absent == <<>>

VARIABLES
  stream,    (* the text, as sent                                           *)
  received,  (* how much of it has been pushed                              *)
  buffer,    (* SseFrameParser.buffer                                       *)
  frames,    (* the frames push has returned so far                         *)
  torn       (* history: whether a chunk ended between a CR and its LF      *)

vars == <<stream, received, buffer, frames, torn>>
----------------------------------------------------------------------------
\* chunk.replace(/\r\n/g, '\n'): of a CR and an LF, the LF is kept.
Kept(chunk, n) ==
  IF chunk[n] = CR /\ n < Len(chunk) /\ chunk[n + 1] = LF THEN <<>> ELSE <<chunk[n]>>

NormalizeCrlf(chunk) ==
  LET text[n \in 0..Len(chunk)] == IF n = 0 THEN <<>> ELSE text[n - 1] \o Kept(chunk, n)
  IN  text[Len(chunk)]

\* raw.split('\n')
Lines(raw) ==
  LET add(lines, piece) == IF piece = LF THEN Append(lines, <<>>)
                           ELSE [lines EXCEPT ![Len(lines)] = Append(lines[Len(lines)], piece)]
  IN  FoldLeft(add, << <<>> >>, raw)

\* The first position of what Is, one past the end when there is none.
FirstAt(text, Is(_)) ==
  CHOOSE i \in 1..(Len(text) + 1) :
    /\ i <= Len(text) => Is(i)
    /\ \A j \in 1..(i - 1) : ~Is(j)

\* A line is a field and its value, without the one space after the colon.
Field(line) == LET colon == FirstAt(line, LAMBDA i : line[i] = ":")
               IN  SubSeq(line, 1, colon - 1)
Value(line) ==
  LET after == SubSeq(line, FirstAt(line, LAMBDA i : line[i] = ":") + 1, Len(line))
  IN  IF after # <<>> /\ Head(after) = " " THEN Tail(after) ELSE after

Blank == [id |-> Absent, event |-> Absent, data |-> Absent]

ReadLine(frame, line) ==
  IF line = <<>> \/ line[1] = ":" THEN frame
  ELSE CASE Field(line) = <<"id">> -> [frame EXCEPT !.id = <<Value(line)>>]
         [] Field(line) = <<"event">> -> [frame EXCEPT !.event = <<Value(line)>>]
         [] Field(line) = <<"data">> -> [frame EXCEPT !.data = Append(@, Value(line))]
         [] OTHER -> frame

parseFrame(raw) == FoldLeft(ReadLine, Blank, Lines(raw))

\* buffer.indexOf('\n\n') in what is left from a position on; one past the end
\* when there is none.
IsSeparator(text, i) == i < Len(text) /\ text[i] = LF /\ text[i + 1] = LF
Separator(text, from) ==
  CHOOSE i \in from..(Len(text) + 1) :
    /\ i <= Len(text) => IsSeparator(text, i)
    /\ \A j \in from..(i - 1) : ~IsSeparator(text, j)

\* A frame without a field of its own is none.
FrameOf(raw) == IF parseFrame(raw) = Blank THEN <<>> ELSE <<parseFrame(raw)>>

\* What push takes off the buffer: the frames that are complete, and the rest.
Drain(text) ==
  LET drained[from \in 1..(Len(text) + 1)] ==
        LET separator == Separator(text, from)
        IN  IF separator > Len(text)
            THEN [frames |-> <<>>, buffer |-> SubSeq(text, from, Len(text))]
            ELSE [frames |-> FrameOf(SubSeq(text, from, separator - 1))
                             \o drained[separator + 2].frames,
                  buffer |-> drained[separator + 2].buffer]
  IN  drained[1]

ParsedAlone(chunk) == Drain(NormalizeCrlf(chunk))                      \* mutant
Parsed(chunk) == Drain(buffer \o NormalizeCrlf(chunk))

\* One chunk arrives.
push ==
  \E n \in 1..MaxPieces :
    /\ received + n <= Len(stream)
    /\ LET parsed == Parsed(SubSeq(stream, received + 1, received + n))
       IN  buffer' = parsed.buffer /\ frames' = frames \o parsed.frames
    /\ received' = received + n
    /\ torn' = (torn \/ (received' < Len(stream)
                         /\ stream[received'] = CR /\ stream[received' + 1] = LF))
    /\ UNCHANGED stream

Init ==
  /\ stream \in Streams
  /\ received = 0 /\ buffer = <<>> /\ frames = <<>> /\ torn = FALSE

Spec == Init /\ [][push]_vars
----------------------------------------------------------------------------
\* How the text is cut into chunks does not show in the frames: at any moment
\* they are those of the text received so far, read as one chunk.
AsOneChunk == Drain(NormalizeCrlf(SubSeq(stream, 1, received))).frames
ChunksDoNotShow == ~torn => frames = AsOneChunk

\* "Frames are separated by a blank line; CRLF is normalized to LF"
\* (sse-parse.ts:51-52): true of a CRLF within a chunk only.
CrlfIsNormalized == frames = AsOneChunk
=============================================================================
