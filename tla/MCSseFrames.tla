---------------------------- MODULE MCSseFrames ----------------------------
(***************************************************************************)
(* Instances of SseFrames for TLC.                                         *)
(***************************************************************************)
EXTENDS SseFrames

\* A record with an id, a heartbeat after a comment, one of two data lines, and
\* a line without a colon; ended by eol.
Record(eol) == <<"id", ":", " ", "100", ":", "0">> \o eol \o <<"data", ":", " ", "a">> \o eol \o eol
Heartbeat(eol) == <<":", " ", "ka">> \o eol \o <<"event", ":", "heartbeat">> \o eol \o eol
TwoLines(eol) == <<"data", ":", "a">> \o eol \o <<"data", ":", " ", " ", "b">> \o eol
                 \o <<"retry">> \o eol \o eol

Texts(eol) == {Record(eol) \o Heartbeat(eol), Heartbeat(eol) \o TwoLines(eol),
               eol \o TwoLines(eol) \o Record(eol), Record(eol) \o Record(eol)}
Both == Texts(<<LF>>) \cup Texts(<<CR, LF>>)
Sent == UNION {{text[i] : i \in DOMAIN text} : text \in Both}
=============================================================================
