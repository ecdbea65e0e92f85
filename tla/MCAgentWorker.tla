--------------------------- MODULE MCAgentWorker ---------------------------
(***************************************************************************)
(* Small instances of AgentWorker: one worker and one other in the pool.   *)
(***************************************************************************)
EXTENDS AgentWorker

CONSTANTS w, v

OnePeer == {v}

\* Both sources with disconnect-after-job; polling with the idle monitor, the
\* uptime limit and a context that may be cancelled; an acquire-job agent;
\* streaming only.
Modes ==
  {[mode |-> "auto", acquire |-> FALSE, once |-> TRUE, uptime |-> FALSE,
    idle |-> FALSE, ctx |-> FALSE],
   [mode |-> "poll-only", acquire |-> FALSE, once |-> FALSE, uptime |-> TRUE,
    idle |-> TRUE, ctx |-> TRUE],
   [mode |-> "poll-only", acquire |-> TRUE, once |-> FALSE, uptime |-> TRUE,
    idle |-> TRUE, ctx |-> FALSE],
   [mode |-> "stream-only", acquire |-> FALSE, once |-> FALSE, uptime |-> FALSE,
    idle |-> FALSE, ctx |-> TRUE]}

\* Both sources, nothing else configured.
Auto == {[mode |-> "auto", acquire |-> FALSE, once |-> FALSE, uptime |-> FALSE,
          idle |-> FALSE, ctx |-> FALSE]}
=============================================================================
