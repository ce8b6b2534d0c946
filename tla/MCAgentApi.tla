----------------------------- MODULE MCAgentApi -----------------------------
(***************************************************************************)
(* An instance of AgentApi for TLC.                                        *)
(***************************************************************************)
EXTENDS AgentApi

WinAndLose == [p \in Positions |-> IF p = 0 THEN 3 ELSE -2]

\* One decision committed and a commit that failed; two decisions committed, the
\* later one settled.
Committed == recordCommit(recordEvent(Empty(1)), 0)
SettledOrCommitted ==
  {recordError(Committed, "commit"), markSettled(recordCommit(Committed, 1), 1, 2)}
=============================================================================
