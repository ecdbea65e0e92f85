------------------------- MODULE AgentWorkerProofs --------------------------
(***************************************************************************)
(* Proofs, for a pool with any workers and for any configurations, of the  *)
(* safety properties of one worker: the baton keeps its two sources of     *)
(* actions apart, one-shot agents run no further job, and the idle monitor *)
(* does not send the pool home while the worker has a job or is paused.    *)
(***************************************************************************)
EXTENDS AgentWorker, TLAPS

\* The leaves are for Zenon, but for those that name another prover.
USE Zenon

Early == {"connect", "acquire", "acquired"}
Late == {"collect", "disconnect", "dead"}

\* The action loop runs only while Start waits for its loops.
StartInv ==
  /\ mainPc \in Early => actPc = "off" /\ ~inProgress
  /\ mainPc \in Late => actPc \in {"off", "gone"}

\* Only a loop that listens can be paused.
PauseInv == actPc \in {"off", "accept", "run", "sendErr", "blocked", "gone"} => ~paused

\* The monitor counts a worker that is paused or has a job as busy.
IdleInv ==
  /\ idleAt \in [Workers -> {"busy", "idle", "dead"}]
  /\ (paused \/ actPc \in {"accept", "run"}) /\ cfg.idle /\ ~exiting => idleAt[Self] = "busy"

AgentInv == BatonGuardsActions /\ OneShotAgents /\ StartInv /\ PauseInv /\ IdleInv

-----------------------------------------------------------------------------
(* Marks and results *)

\* What a mark leaves in the monitor's table.
LEMMA Marking ==
  ASSUME idleAt \in [Workers -> {"busy", "idle", "dead"}], NEW w \in Workers,
         NEW state \in {"busy", "idle", "dead"}, Mark(w, state)
  PROVE  /\ idleAt' \in [Workers -> {"busy", "idle", "dead"}]
         /\ \A v \in Workers \ {w} : idleAt'[v] = idleAt[v]
         /\ ~exiting /\ exiting' => \A v \in Workers : idleAt'[v] = "dead"
         /\ exiting => exiting'
         /\ cfg.idle /\ ~exiting /\ (state # "idle" \/ idleAt[w] = "busy") =>
              idleAt'[w] = state
<1>1. CASE ~cfg.idle \/ exiting
  BY <1>1 DEF Mark, idleVars
<1>2. CASE ~(~cfg.idle \/ exiting)
  BY <1>2 DEF Mark
<1> QED
  BY <1>1, <1>2

\* A goroutine that returns is gone, or blocked in its last statement.
LEMMA Returning == Returned \in {"gone", "blocked"}
  BY DEF Returned

\* The worker is one of the pool's.
LEMMA SelfWorks == Self \in Workers
  BY DEF Workers

\* Before anything is started.
LEMMA AgentInit == Init => AgentInv
  BY DEF Init, AgentInv, BatonGuardsActions, OneShotAgents, StartInv, PauseInv, IdleInv, Early,
     Late

-----------------------------------------------------------------------------
(* The baton *)

\* The baton of the two sources, whoever takes a step.
LEMMA BatonStep == AgentInv /\ [Next]_vars => BatonGuardsActions'
<1> SUFFICES ASSUME AgentInv, [Next]_vars PROVE BatonGuardsActions'
  OBVIOUS
<1> USE DEF BatonGuardsActions
<1>1. BatonGuardsActions /\ (mainPc \in Early => ~inProgress)
  BY DEF AgentInv, StartInv
<1>2. CASE StartLoops /\ mainPc \in Early
  BY <1>1, <1>2 DEF StartLoops
<1>3. CASE PingLoop
  BY <1>1, <1>3, Returning, SMT DEF PingLoop, PingTakeBaton, PingReply, PingUnrecoverable, PingSend,
     PingResult, PingStop, PingExit, Release, PingUnchanged, debVars
<1>4. CASE StreamConnect \/ StreamReceive \/ StreamEnds \/ StreamStop
  BY <1>1, <1>4, SMT DEF StreamConnect, StreamReceive, StreamEnds, StreamStop, StreamUnchanged,
     pingVars, debVars
<1>5. CASE StreamSend
  BY <1>1, <1>5 DEF StreamSend, GiveUpBaton, Release, DebouncerSends, DebUnchanged, pingVars
<1>6. CASE Debouncer
  BY <1>1, <1>6, Returning DEF Debouncer, DebouncerTakeBaton, DebouncerResult, DebouncerSend,
     DebouncerStop, DebouncerExit, DebouncerSends, Release, DebUnchanged, pingVars
<1>7. CASE UNCHANGED <<baton, pingPc, debPc, inProgress>>
  BY <1>1, <1>7
<1>8. ActionLoop \/ Heartbeat \/ Outside \/ UNCHANGED vars =>
        UNCHANGED <<baton, pingPc, debPc, inProgress>>
  BY DEF ActionLoop, ActionGoes, ActSourceClosed, ActStop, ActDisconnect, ActPause, ActIdle,
     ActJob, JobAccepted, JobFails, JobEnds, ActSendErr, ActUptime, SourcesUnchanged,
     Heartbeat, HeartbeatUnrecoverable, HeartbeatEnds, NoLoops, Outside, StopGracefully,
     StopUngracefully, CtxCancel, PeerMark, MonitorReturns, vars, pingVars, debVars
<1>9. Start => \/ StartLoops /\ mainPc \in Early
               \/ UNCHANGED <<baton, pingPc, debPc, inProgress>>
  BY DEF Start, Connect, Acquire, AcquiredJobEnds, LoopsStopped, ResultsCollected, Disconnect,
     NoLoops, pingVars, debVars, Early
<1> QED
  BY <1>2, <1>3, <1>4, <1>5, <1>6, <1>7, <1>8, <1>9 DEF Next, StreamLoop

-----------------------------------------------------------------------------
(* The action loop and the idle monitor *)

LoopInv == OneShotAgents /\ StartInv /\ PauseInv /\ IdleInv

\* What IdleExitOnlyWhenQuiet says of a step.
QuietExit ==
  ~exiting /\ exiting' => ctxDone \/ (~paused /\ actPc \notin {"accept", "run"})

\* A message is handed to the action loop, or nothing it looks at is touched.
LEMMA SourceStep ==
  ASSUME LoopInv,
         UNCHANGED <<cfg, mainPc, paused, ranJob, idleAt, exiting>>,
         \/ actPc' = actPc /\ (inProgress' => inProgress)
         \/ actPc = "select" /\ actPc' = "handle"
  PROVE  LoopInv' /\ QuietExit
<1>1. OneShotAgents' /\ PauseInv'
  BY DEF LoopInv, OneShotAgents, PauseInv
<1>2. StartInv'
  BY DEF LoopInv, StartInv, Early, Late
<1>3. IdleInv'
  BY DEF LoopInv, IdleInv
<1> QED
  BY <1>1, <1>2, <1>3 DEF LoopInv, QuietExit

\* The sources, the heartbeat and those who stop the worker take such steps.
LEMMA SourcesHand ==
  ASSUME PingLoop \/ StreamLoop \/ Debouncer \/ Heartbeat \/ StopGracefully \/ StopUngracefully
         \/ CtxCancel \/ UNCHANGED vars
  PROVE  /\ UNCHANGED <<cfg, mainPc, paused, ranJob, idleAt, exiting>>
         /\ \/ actPc' = actPc /\ (inProgress' => inProgress)
            \/ actPc = "select" /\ actPc' = "handle"
<1> USE DEF debVars, actVars, idleVars
<1>1. CASE PingLoop
  <2>1. CASE PingTakeBaton \/ PingReply \/ PingResult
    BY <2>1, SMT DEF PingTakeBaton, PingReply, PingResult, PingUnchanged
  <2>2. CASE PingUnrecoverable \/ PingStop
    BY <2>2, SMT DEF PingUnrecoverable, PingStop, PingExit, PingUnchanged
  <2>3. CASE PingSend
    BY <2>3 DEF PingSend, PingUnchanged
  <2> QED
    BY <1>1, <2>1, <2>2, <2>3 DEF PingLoop
<1>2. CASE StreamLoop
  <2>1. CASE StreamSend
    BY <2>1 DEF StreamSend, DebUnchanged
  <2>2. CASE StreamConnect \/ StreamReceive \/ StreamEnds \/ StreamStop
    BY <2>2, SMT DEF StreamConnect, StreamReceive, StreamEnds, StreamStop, StreamUnchanged
  <2> QED
    BY <1>2, <2>1, <2>2 DEF StreamLoop
<1>3. CASE Debouncer
  <2>1. CASE DebouncerSend
    BY <2>1 DEF DebouncerSend, DebUnchanged
  <2>2. CASE DebouncerTakeBaton \/ DebouncerResult
    BY <2>2, SMT DEF DebouncerTakeBaton, DebouncerResult, DebUnchanged
  <2>3. CASE DebouncerStop
    BY <2>3 DEF DebouncerStop, DebouncerExit, DebUnchanged
  <2> QED
    BY <1>3, <2>1, <2>2, <2>3 DEF Debouncer
<1>4. CASE Heartbeat
  BY <1>4, SMT DEF Heartbeat, HeartbeatUnrecoverable, HeartbeatEnds, NoLoops
<1>5. CASE StopGracefully \/ StopUngracefully \/ CtxCancel \/ UNCHANGED vars
  <2>1. UNCHANGED <<cfg, mainPc, debVars, actVars, idleVars>>
    BY <1>5 DEF StopGracefully, StopUngracefully, CtxCancel, vars
  <2> QED
    BY <2>1
<1> QED
  BY <1>1, <1>2, <1>3, <1>4, <1>5

\* Start begins and ends the loops.
LEMMA StartStep == LoopInv /\ Start => LoopInv' /\ QuietExit
<1> SUFFICES ASSUME LoopInv, Start PROVE LoopInv' /\ QuietExit
  OBVIOUS
<1> USE DEF LoopInv, OneShotAgents, StartInv, PauseInv, IdleInv, QuietExit
<1>1. CASE StartLoops /\ mainPc \in Early /\ UNCHANGED <<cfg, idleVars>>
  BY <1>1 DEF StartLoops, Early, Late, idleVars
<1>2. CASE /\ mainPc \in Early /\ mainPc' \in Early \cup {"disconnect"}
           /\ NoLoops /\ UNCHANGED <<cfg, idleVars>>
  BY <1>2 DEF NoLoops, Early, Late, idleVars, actVars, debVars
<1>3. CASE /\ mainPc \in Early \cup Late /\ mainPc' = "dead" /\ Mark(Self, "dead")
           /\ NoLoops /\ UNCHANGED cfg
  <2>1. idleAt' \in [Workers -> {"busy", "idle", "dead"}] /\ (exiting => exiting')
    BY <1>3, Marking, SelfWorks
  <2>2. ~paused /\ actPc \in {"off", "gone"}
    BY <1>3 DEF Late
  <2> QED
    BY <1>3, <2>1, <2>2 DEF NoLoops, Early, Late, actVars, debVars
<1>4. CASE LoopsStopped
  <2>1. "action" \in Sent
    BY <1>4 DEF LoopsStopped, Loops
  <2>2. actPc = "gone"
    BY <2>1 DEF Sent, Pc
  <2> QED
    BY <1>4, <2>2 DEF LoopsStopped, NoLoops, Early, Late, idleVars, actVars, debVars
<1>5. CASE ResultsCollected
  BY <1>5 DEF ResultsCollected, NoLoops, Early, Late, idleVars, actVars, debVars
<1>6. CASE Connect
  BY <1>1, <1>2, <1>3, <1>6 DEF Connect, Early
<1>7. CASE Acquire \/ AcquiredJobEnds
  BY <1>1, <1>2, <1>7 DEF Acquire, AcquiredJobEnds, Early
<1>8. CASE Disconnect
  BY <1>3, <1>8 DEF Disconnect, Late
<1> QED
  BY <1>4, <1>5, <1>6, <1>7, <1>8 DEF Start

\* The monitor returns, or counts what other workers do.
LEMMA MonitorStep ==
  LoopInv /\ (MonitorReturns \/ PeerMark) => LoopInv' /\ QuietExit
<1> SUFFICES ASSUME LoopInv, MonitorReturns \/ PeerMark PROVE LoopInv' /\ QuietExit
  OBVIOUS
<1> USE DEF LoopInv, OneShotAgents, StartInv, PauseInv, IdleInv, QuietExit
<1>1. CASE MonitorReturns
  <2>1. ctxDone \/ idleAt[Self] # "busy"
    BY <1>1, SelfWorks DEF MonitorReturns, Quiet
  <2> QED
    BY <1>1, <2>1 DEF MonitorReturns, actVars, debVars
<1>2. CASE PeerMark
  <2>1. PICK w \in Peers, state \in {"busy", "idle", "dead"} : Mark(w, state)
    BY <1>2 DEF PeerMark
  <2>2. w \in Workers /\ Self \in Workers \ {w}
    BY SelfIsNoPeer DEF Workers
  <2>3. /\ idleAt' \in [Workers -> {"busy", "idle", "dead"}] /\ idleAt'[Self] = idleAt[Self]
        /\ ~exiting /\ exiting' => idleAt'[Self] = "dead"
        /\ exiting => exiting'
    BY <2>1, <2>2, Marking
  <2> QED
    BY <1>2, <2>3 DEF PeerMark, actVars, debVars
<1> QED
  BY <1>1, <1>2

\* The action loop itself.
LEMMA ActionStep == LoopInv /\ ActionLoop => LoopInv' /\ QuietExit
<1> SUFFICES ASSUME LoopInv, ActionLoop PROVE LoopInv' /\ QuietExit
  OBVIOUS
<1> USE DEF ActUnchanged, SourcesUnchanged, FlagsUnchanged, idleVars
<1>1. cfg' = cfg /\ mainPc' = mainPc /\ inProgress' = inProgress
  BY DEF ActionLoop, ActionGoes, ActSourceClosed, ActStop, ActDisconnect, ActPause, ActIdle,
     ActJob, JobAccepted, JobFails, JobEnds, ActSendErr, ActUptime
<1>2. mainPc \notin Early \cup Late
  <2>1. actPc \in {"select", "handle", "accept", "run", "sendErr"}
    BY DEF ActionLoop, ActionGoes, ActSourceClosed, ActStop, ActDisconnect, ActPause, ActIdle,
       ActJob, JobAccepted, JobFails, JobEnds, ActSendErr, ActUptime
  <2> QED
    BY <2>1 DEF LoopInv, StartInv
<1>3. StartInv'
  BY <1>1, <1>2 DEF StartInv
<1>4. CASE ActExit /\ UNCHANGED idleVars
  <2>1. actPc' \in {"gone", "blocked"} /\ ~paused'
    BY <1>4, Returning DEF ActExit
  <2> QED
    BY <1>1, <1>3, <1>4, <2>1 DEF LoopInv, OneShotAgents, PauseInv, IdleInv, QuietExit
<1>5. CASE actPc' = actPc /\ UNCHANGED <<paused, ranJob, idleVars>>
  BY <1>1, <1>5, SourceStep
<1>6. ActSourceClosed \/ ActStop \/ ActDisconnect \/ ActUptime =>
        \/ ActExit /\ UNCHANGED idleVars
        \/ actPc' = actPc /\ UNCHANGED <<paused, ranJob, idleVars>>
  BY DEF ActSourceClosed, ActStop, ActDisconnect, ActUptime
<1>7. CASE ActPause \/ ActJob
  <2>1. Mark(Self, "busy") /\ ranJob' = ranJob
    BY <1>7 DEF ActPause, MarkPaused, ActJob
  <2>2. /\ idleAt' \in [Workers -> {"busy", "idle", "dead"}]
        /\ ~exiting /\ exiting' => idleAt'[Self] = "dead"
        /\ exiting => exiting'
        /\ cfg.idle /\ ~exiting => idleAt'[Self] = "busy"
        /\ ~cfg.idle => exiting' = exiting
    BY <2>1, Marking, SelfWorks DEF LoopInv, IdleInv, Mark
  <2>3. OneShotAgents' /\ PauseInv'
    BY <1>1, <1>7, <2>1 DEF ActPause, ActJob, MessageEnds, OneShotAgents, PauseInv
  <2> QED
    BY <1>1, <1>3, <2>2, <2>3 DEF LoopInv, IdleInv, QuietExit
<1>8. CASE ActIdle \/ JobFails \/ JobEnds
  <2>1. Mark(Self, "idle") /\ ~paused' /\ actPc' \in {"select", "sendErr"}
    BY <1>8, SMT DEF ActIdle, JobFails, JobEnds, LoopInv, PauseInv
  <2>2. /\ idleAt' \in [Workers -> {"busy", "idle", "dead"}]
        /\ ~exiting /\ exiting' => idleAt'[Self] = "dead"
        /\ cfg.idle /\ ~exiting /\ idleAt[Self] = "busy" => idleAt'[Self] = "idle"
        /\ ~cfg.idle => exiting' = exiting
    BY <2>1, Marking, SelfWorks DEF LoopInv, IdleInv, Mark
  <2> QED
    BY <1>1, <1>3, <2>1, <2>2, SMT DEF LoopInv, OneShotAgents, PauseInv, IdleInv, QuietExit
<1>9. CASE JobAccepted \/ ActSendErr
  BY <1>1, <1>3, <1>9, SMT DEF JobAccepted, ActSendErr, LoopInv, OneShotAgents, PauseInv, IdleInv,
     QuietExit
<1> QED
  BY <1>4, <1>5, <1>6, <1>7, <1>8, <1>9 DEF ActionLoop, ActionGoes

\* Every step keeps the loops' invariant, and lets the monitor return only
\* when it may.
LEMMA LoopStep == LoopInv /\ [Next]_vars => LoopInv' /\ QuietExit
<1> SUFFICES ASSUME LoopInv, [Next]_vars PROVE LoopInv' /\ QuietExit
  OBVIOUS
<1>1. CASE PingLoop \/ StreamLoop \/ Debouncer \/ Heartbeat \/ StopGracefully
           \/ StopUngracefully \/ CtxCancel \/ UNCHANGED vars
  BY <1>1, SourcesHand, SourceStep
<1>2. CASE ActionLoop \/ Start \/ MonitorReturns \/ PeerMark
  BY <1>2, ActionStep, StartStep, MonitorStep
<1> QED
  BY <1>1, <1>2 DEF Next, Outside

\* The invariant holds throughout.
LEMMA AgentInvariant == Spec => []AgentInv
<1>1. AgentInv /\ [Next]_vars => AgentInv'
  BY BatonStep, LoopStep DEF AgentInv, LoopInv
<1> QED
  BY <1>1, AgentInit, PTL DEF Spec

-----------------------------------------------------------------------------
(* Types, in five parts *)

\* Start, the heartbeat loop, those who stop the worker, the idle monitor.
CoreTypes ==
  /\ cfg \in Config
  /\ mainPc \in {"connect", "acquire", "acquired", "loops", "collect", "disconnect", "dead"}
  /\ stop \in BOOLEAN /\ ctxDone \in BOOLEAN
  /\ runner \in {"none", "running", "cancelled"}
  /\ hbPc \in {"off", "beat", "cancel", "blocked", "gone"}
  /\ idleAt \in [Workers -> {"busy", "idle", "dead"}] /\ exiting \in BOOLEAN

\* The ping loop and the baton.
PingTypes ==
  /\ baton \in {"free", "ping", "debouncer"}
  /\ pingPc \in {"off", "wait", "ping", "send", "result", "blocked", "gone"}
  /\ pingMsg \in Instruction \cup {"none"} /\ pingClosed \in BOOLEAN

\* The streaming loop.
StreamTypes ==
  /\ strPc \in {"off", "wait", "recv", "send", "blocked", "gone"}
  /\ strMsg \in Instruction \cup {"unhealthy", "none"}

\* The debouncer.
DebTypes ==
  /\ debPc \in {"off", "select", "send", "blocked", "gone"}
  /\ healthy \in BOOLEAN /\ inProgress \in BOOLEAN /\ debClosed \in BOOLEAN
  /\ pending \in Instruction \cup {"none"}

\* The action loop.
ActTypes ==
  /\ actPc \in {"off", "select", "handle", "accept", "run", "sendErr", "blocked", "gone"}
  /\ src \in {"ping", "debouncer", "none"} /\ msg \in Instruction \cup {"none"}
  /\ paused \in BOOLEAN /\ exitWhenNotPaused \in BOOLEAN /\ ranJob \in BOOLEAN
  /\ fromPing \in BOOLEAN /\ fromDeb \in BOOLEAN
  /\ uptime \in {"off", "armed"}

AgentTypes == CoreTypes /\ PingTypes /\ StreamTypes /\ DebTypes /\ ActTypes

\* The parts say together what TypeOK says.
LEMMA TypeParts == AgentTypes <=> TypeOK
  BY DEF TypeOK, AgentTypes, CoreTypes, PingTypes, StreamTypes, DebTypes, ActTypes

\* A part whose variables do not change stays as it is.
LEMMA PartsStay ==
  /\ CoreTypes /\ UNCHANGED <<cfg, mainPc, stop, ctxDone, runner, hbPc, idleVars>> => CoreTypes'
  /\ PingTypes /\ UNCHANGED <<baton, pingVars>> => PingTypes'
  /\ StreamTypes /\ UNCHANGED strVars => StreamTypes'
  /\ DebTypes /\ UNCHANGED debVars => DebTypes'
  /\ ActTypes /\ UNCHANGED actVars => ActTypes'
<1>1. CoreTypes /\ UNCHANGED <<cfg, mainPc, stop, ctxDone, runner, hbPc, idleVars>> => CoreTypes'
  BY DEF CoreTypes, idleVars
<1>2. PingTypes /\ UNCHANGED <<baton, pingVars>> => PingTypes'
  BY DEF PingTypes, pingVars
<1>3. StreamTypes /\ UNCHANGED strVars => StreamTypes'
  BY DEF StreamTypes, strVars
<1>4. DebTypes /\ UNCHANGED debVars => DebTypes'
  BY DEF DebTypes, debVars
<1>5. ActTypes /\ UNCHANGED actVars => ActTypes'
  BY DEF ActTypes, actVars
<1> QED
  BY <1>1, <1>2, <1>3, <1>4, <1>5

\* A mark keeps the types of the monitor's table and of its flag.
LEMMA MarkTyped ==
  ASSUME CoreTypes, NEW w \in Workers, NEW state \in {"busy", "idle", "dead"}, Mark(w, state)
  PROVE  idleAt' \in [Workers -> {"busy", "idle", "dead"}] /\ exiting' \in BOOLEAN
<1>1. idleAt' \in [Workers -> {"busy", "idle", "dead"}]
  BY Marking DEF CoreTypes
<1>2. CASE ~cfg.idle \/ exiting
  BY <1>2 DEF Mark, idleVars, CoreTypes
<1>3. CASE ~(~cfg.idle \/ exiting)
  <2>1. exiting' = \A v \in Workers : idleAt'[v] = "dead"
    BY <1>3, Zenon DEF Mark
  <2> QED
    BY <1>1, <2>1
<1> QED
  BY <1>1, <1>2, <1>3

\* Before anything is started.
LEMMA TypeInit == Init => AgentTypes
<1> SUFFICES ASSUME Init PROVE AgentTypes
  OBVIOUS
<1>1. CoreTypes
  BY DEF Init, CoreTypes
<1>2. PingTypes /\ StreamTypes
  BY DEF Init, PingTypes, StreamTypes
<1>3. DebTypes
  BY DEF Init, DebTypes
<1>4. ActTypes
  BY DEF Init, ActTypes
<1> QED
  BY <1>1, <1>2, <1>3, <1>4 DEF AgentTypes

\* The loops start in their first states.
LEMMA LoopsTyped ==
  ASSUME AgentTypes, StartLoops
  PROVE  PingTypes' /\ StreamTypes' /\ DebTypes' /\ ActTypes' /\ mainPc' = "loops"
<1>1. mainPc' = "loops" /\ PingTypes'
  BY DEF AgentTypes, PingTypes, StartLoops
<1>2. StreamTypes'
  BY DEF AgentTypes, StreamTypes, StartLoops
<1>3. DebTypes'
  BY DEF AgentTypes, DebTypes, StartLoops
<1>4. fromPing' \in BOOLEAN /\ fromDeb' \in BOOLEAN
  BY DEF StartLoops, PingOn, StreamOn
<1>5. /\ actPc' = "select" /\ uptime' \in {"off", "armed"}
      /\ UNCHANGED <<src, msg, paused, exitWhenNotPaused, ranJob>>
  BY DEF StartLoops
<1>6. ActTypes'
  BY <1>4, <1>5 DEF AgentTypes, ActTypes
<1> QED
  BY <1>1, <1>2, <1>3, <1>6

\* A step that touches no loop.
LEMMA NoLoopsTyped == ASSUME AgentTypes, NoLoops, CoreTypes' PROVE AgentTypes'
  BY PartsStay DEF AgentTypes, NoLoops

\* Start and the heartbeat loop.
LEMMA StartTyped == ASSUME AgentTypes, Start \/ Heartbeat PROVE AgentTypes'
<1>0. CoreTypes
  BY DEF AgentTypes
<1>1. CASE Connect
  <2>0. UNCHANGED <<cfg, stop, ctxDone, runner>>
    BY <1>1 DEF Connect
  <2>1. CASE mainPc' = "dead" /\ Mark(Self, "dead") /\ NoLoops /\ UNCHANGED hbPc
    <3>1. idleAt' \in [Workers -> {"busy", "idle", "dead"}] /\ exiting' \in BOOLEAN
      BY <1>0, <2>1, MarkTyped, SelfWorks
    <3>2. CoreTypes'
      BY <1>0, <2>0, <2>1, <3>1 DEF CoreTypes
    <3> QED
      BY <2>1, <3>2, NoLoopsTyped
  <2>2. CASE /\ hbPc' = "beat" /\ mainPc' = "acquire" /\ NoLoops
             /\ UNCHANGED idleVars
    <3>1. CoreTypes'
      BY <1>0, <2>0, <2>2 DEF CoreTypes, idleVars
    <3> QED
      BY <2>2, <3>1, NoLoopsTyped
  <2>3. CASE hbPc' = "beat" /\ StartLoops /\ UNCHANGED idleVars
    <3>1. CoreTypes'
      BY <1>0, <2>0, <2>3, LoopsTyped DEF CoreTypes, idleVars
    <3> QED
      BY <2>3, <3>1, LoopsTyped DEF AgentTypes
  <2> QED
    BY <1>1, <2>1, <2>2, <2>3, Zenon DEF Connect
<1>2. CASE Acquire
  <2>1. UNCHANGED <<cfg, stop, ctxDone, hbPc, idleVars>>
    BY <1>2 DEF Acquire
  <2>2. CASE StartLoops /\ UNCHANGED runner
    <3>1. CoreTypes'
      BY <1>0, <2>1, <2>2, LoopsTyped DEF CoreTypes, idleVars
    <3> QED
      BY <2>2, <3>1, LoopsTyped DEF AgentTypes
  <2>3. CASE /\ NoLoops /\ mainPc' \in {"acquired", "disconnect"}
             /\ runner' \in {"running", runner}
    <3>1. CoreTypes'
      BY <1>0, <2>1, <2>3 DEF CoreTypes, idleVars
    <3> QED
      BY <2>3, <3>1, NoLoopsTyped
  <2> QED
    BY <1>2, <2>2, <2>3 DEF Acquire
<1>3. CASE AcquiredJobEnds
  <2>1. StartLoops /\ runner' = "none" /\ UNCHANGED <<cfg, stop, ctxDone, hbPc, idleVars>>
    BY <1>3 DEF AcquiredJobEnds
  <2>2. CoreTypes'
    BY <1>0, <2>1, LoopsTyped DEF CoreTypes, idleVars
  <2> QED
    BY <2>1, <2>2, LoopsTyped DEF AgentTypes
<1>4. CASE LoopsStopped \/ ResultsCollected
  <2>1. CoreTypes' /\ NoLoops
    BY <1>0, <1>4 DEF LoopsStopped, ResultsCollected, CoreTypes, idleVars
  <2> QED
    BY <2>1, NoLoopsTyped
<1>5. CASE Disconnect
  <2>1. idleAt' \in [Workers -> {"busy", "idle", "dead"}] /\ exiting' \in BOOLEAN
    BY <1>0, <1>5, MarkTyped, SelfWorks DEF Disconnect
  <2>2. CoreTypes' /\ NoLoops
    BY <1>0, <1>5, <2>1 DEF Disconnect, CoreTypes
  <2> QED
    BY <2>2, NoLoopsTyped
<1>6. CASE HeartbeatUnrecoverable
  <2>1. stop' \in BOOLEAN
    BY <1>6 DEF HeartbeatUnrecoverable
  <2>2. runner' \in {runner, "cancelled"}
    BY <1>6 DEF HeartbeatUnrecoverable, CancelRunner
  <2>3. hbPc' = "cancel" /\ NoLoops /\ UNCHANGED <<cfg, mainPc, ctxDone, idleVars>>
    BY <1>6, Zenon DEF HeartbeatUnrecoverable
  <2>4. CoreTypes'
    BY <1>0, <2>1, <2>2, <2>3 DEF CoreTypes, idleVars
  <2> QED
    BY <2>3, <2>4, NoLoopsTyped
<1>7. CASE HeartbeatEnds
  <2>1. /\ hbPc' = Returned /\ NoLoops
        /\ UNCHANGED <<cfg, mainPc, stop, ctxDone, runner, idleVars>>
    BY <1>7, Zenon DEF HeartbeatEnds
  <2>2. CoreTypes'
    BY <1>0, <2>1, Returning DEF CoreTypes, idleVars
  <2> QED
    BY <2>1, <2>2, NoLoopsTyped
<1> QED
  BY <1>1, <1>2, <1>3, <1>4, <1>5, <1>6, <1>7, Zenon DEF Start, Heartbeat

\* The ping loop.
LEMMA PingTyped == ASSUME AgentTypes, PingLoop PROVE AgentTypes'
<1>1. PingUnchanged
  BY DEF PingLoop, PingTakeBaton, PingReply, PingUnrecoverable, PingSend, PingResult, PingStop,
     PingExit
<1>2. CoreTypes' /\ StreamTypes' /\ DebTypes'
  BY <1>1, PartsStay DEF AgentTypes, PingUnchanged
<1>3. CASE UNCHANGED actVars
  <2>1. pingClosed' \in BOOLEAN
    BY <1>3 DEF PingLoop, PingTakeBaton, PingReply, PingUnrecoverable, PingSend, PingResult,
       PingStop, PingExit, AgentTypes, PingTypes
  <2>2. PingUnrecoverable \/ PingResult \/ PingStop =>
          Release("ping") /\ pingPc' \in {"wait", Returned} /\ pingMsg' \in {pingMsg, "none"}
    BY DEF PingUnrecoverable, PingResult, PingStop, PingExit
  <2>3. PingTypes'
    <3>1. CASE PingTakeBaton \/ PingReply
      BY <2>1, <3>1 DEF PingTakeBaton, PingReply, AgentTypes, PingTypes
    <3>2. CASE PingSend
      BY <2>1, <3>2 DEF PingSend, AgentTypes, PingTypes
    <3>3. CASE /\ Release("ping") /\ pingPc' \in {"wait", Returned}
               /\ pingMsg' \in {pingMsg, "none"}
      BY <2>1, <3>3, Returning DEF Release, AgentTypes, PingTypes
    <3> QED
      BY <2>2, <3>1, <3>2, <3>3 DEF PingLoop
  <2> QED
    BY <1>2, <1>3, <2>3, PartsStay DEF AgentTypes
<1>4. CASE PingSend
  <2>1. PingTypes'
    BY <1>4 DEF PingSend, AgentTypes, PingTypes
  <2>2. ActTypes'
    BY <1>4 DEF PingSend, AgentTypes, ActTypes, PingTypes
  <2> QED
    BY <1>2, <2>1, <2>2 DEF AgentTypes
<1> QED
  BY <1>3, <1>4 DEF PingLoop, PingTakeBaton, PingReply, PingUnrecoverable, PingResult, PingStop,
     PingExit

\* The streaming loop, while it keeps to itself.
LEMMA StreamTyped ==
  ASSUME AgentTypes, StreamConnect \/ StreamReceive \/ StreamEnds \/ StreamStop
  PROVE  AgentTypes'
<1>1. StreamUnchanged /\ UNCHANGED <<stop, baton, debVars>>
  BY DEF StreamConnect, StreamReceive, StreamEnds, StreamStop
<1>2. CoreTypes' /\ PingTypes' /\ DebTypes' /\ ActTypes'
  BY <1>1, PartsStay DEF AgentTypes, StreamUnchanged
<1>3. strPc' \in {"wait", "recv", "send", Returned}
  BY DEF StreamConnect, StreamReceive, StreamEnds, StreamStop
<1>4. strMsg' \in Instruction \cup {"unhealthy", "none", strMsg}
  BY DEF StreamConnect, StreamReceive, StreamEnds, StreamStop
<1>5. StreamTypes'
  BY <1>3, <1>4, Returning DEF AgentTypes, StreamTypes
<1> QED
  BY <1>2, <1>5 DEF AgentTypes

\* The message the streaming loop hands over, and the debouncer.
LEMMA DebouncerTyped == ASSUME AgentTypes, StreamSend \/ Debouncer PROVE AgentTypes'
<1>0. DebouncerSends => debPc' \in {"select", "send"}
  BY DEF DebouncerSends
<1>1. UNCHANGED <<cfg, mainPc, ctxDone, pingVars, runner, hbPc, idleVars>>
  BY DEF StreamSend, Debouncer, DebouncerTakeBaton, DebouncerResult, DebouncerSend,
     DebouncerStop, DebouncerExit, DebUnchanged
<1>2. CASE StreamSend
  <2>1. stop' \in BOOLEAN /\ healthy' \in BOOLEAN
    BY <1>2 DEF StreamSend
  <2>2. CoreTypes'
    BY <1>1, <2>1 DEF AgentTypes, CoreTypes, idleVars
  <2>3. baton' \in {"free", baton}
    BY <1>2 DEF StreamSend, GiveUpBaton, Release
  <2>4. PingTypes'
    BY <1>1, <2>3 DEF AgentTypes, PingTypes, pingVars
  <2>5. strPc' \in {"recv", "wait", Returned} /\ strMsg' = "none"
    BY <1>2 DEF StreamSend
  <2>6. StreamTypes'
    BY <2>5, Returning DEF StreamTypes
  <2>7. pending' \in Instruction \cup {"none"}
    BY <1>2 DEF StreamSend, KeepPending, AgentTypes, StreamTypes, DebTypes
  <2>8. DebouncerSends /\ UNCHANGED <<inProgress, debClosed, actVars>>
    BY <1>2 DEF StreamSend
  <2>9. DebTypes'
    BY <1>0, <2>1, <2>7, <2>8 DEF AgentTypes, DebTypes
  <2> QED
    BY <2>2, <2>4, <2>6, <2>8, <2>9, PartsStay DEF AgentTypes
<1>3. CASE Debouncer
  <2>1. CoreTypes' /\ StreamTypes'
    BY <1>1, <1>3, PartsStay DEF Debouncer, DebouncerTakeBaton, DebouncerResult, DebouncerSend,
       DebouncerStop, DebouncerExit, AgentTypes
  <2>2. baton' \in {"free", "debouncer", baton}
    BY <1>3 DEF Debouncer, DebouncerTakeBaton, DebouncerResult, DebouncerSend,
       DebouncerStop, DebouncerExit, Release
  <2>3. PingTypes'
    BY <1>1, <2>2 DEF AgentTypes, PingTypes, pingVars
  <2>4. healthy' \in BOOLEAN /\ inProgress' \in BOOLEAN /\ debClosed' \in BOOLEAN
    <3>1. CASE DebouncerTakeBaton \/ DebouncerResult \/ DebouncerSend
      BY <3>1 DEF DebouncerTakeBaton, DebouncerResult, DebouncerSend, AgentTypes, DebTypes
    <3>2. CASE DebouncerStop
      BY <3>2 DEF DebouncerStop, DebouncerExit
    <3> QED
      BY <1>3, <3>1, <3>2 DEF Debouncer
  <2>5. debPc' \in {"select", "send", Returned} /\ pending' \in {pending, "none"}
    BY <1>0, <1>3 DEF Debouncer, DebouncerTakeBaton, DebouncerResult, DebouncerSend,
       DebouncerStop, DebouncerExit
  <2>6. DebTypes'
    BY <2>4, <2>5, Returning DEF AgentTypes, DebTypes
  <2>7. ActTypes'
    <3>1. CASE UNCHANGED actVars
      BY <3>1, PartsStay DEF AgentTypes
    <3>2. CASE DebouncerSend
      BY <3>2 DEF DebouncerSend, AgentTypes, ActTypes, DebTypes
    <3> QED
      BY <1>3, <3>1, <3>2 DEF Debouncer, DebouncerTakeBaton, DebouncerResult, DebouncerStop,
         DebouncerExit
  <2> QED
    BY <2>1, <2>3, <2>6, <2>7 DEF AgentTypes
<1> QED
  BY <1>2, <1>3

\* What the action loop does to the flags, and what of the rest it changes.
ActMoves ==
  /\ ActUnchanged /\ SourcesUnchanged
  /\ actPc' \in {"select", "accept", "run", "sendErr", Returned}
  /\ src' \in {src, "none"} /\ msg' \in {msg, "none"}
  /\ uptime' \in {uptime, "off"}
  /\ runner' \in {"none", "running", runner}

ActFlags ==
  /\ stop' \in BOOLEAN /\ paused' \in BOOLEAN /\ exitWhenNotPaused' \in BOOLEAN
  /\ ranJob' \in BOOLEAN /\ fromPing' \in BOOLEAN /\ fromDeb' \in BOOLEAN
  /\ pingClosed' \in BOOLEAN /\ debClosed' \in BOOLEAN

\* Every step of the action loop is such a step.
LEMMA ActionMoves == ASSUME AgentTypes, ActionLoop PROVE ActMoves /\ ActFlags
<1>1. stop \in BOOLEAN
  BY DEF AgentTypes, CoreTypes
<1>2. pingClosed \in BOOLEAN /\ debClosed \in BOOLEAN
  BY DEF AgentTypes, PingTypes, DebTypes
<1>3. /\ paused \in BOOLEAN /\ exitWhenNotPaused \in BOOLEAN
      /\ ranJob \in BOOLEAN /\ fromPing \in BOOLEAN /\ fromDeb \in BOOLEAN
  BY DEF AgentTypes, ActTypes
<1>4. CASE ActSourceClosed
  BY <1>1, <1>2, <1>3, <1>4 DEF ActSourceClosed, ActMoves, ActFlags
<1>5. CASE ActExit /\ ActUnchanged /\ SourcesUnchanged
           /\ UNCHANGED <<runner, pingClosed, debClosed, idleVars>>
  <2>1. ActFlags
    BY <1>2, <1>5 DEF ActExit, ActFlags
  <2>2. ActMoves
    BY <1>5 DEF ActExit, ActMoves
  <2> QED
    BY <2>1, <2>2
<1>6. CASE ActUptime /\ paused
  <2>1. ActFlags
    BY <1>1, <1>2, <1>3, <1>6 DEF ActUptime, ActFlags
  <2>2. ActMoves
    BY <1>6 DEF ActUptime, ActMoves
  <2> QED
    BY <2>1, <2>2
<1>7. CASE ActPause \/ ActIdle
  <2>1. ActFlags
    BY <1>1, <1>2, <1>3, <1>7 DEF ActPause, ActIdle, CloseErrCh, ActFlags
  <2>2. ActMoves
    BY <1>7 DEF ActPause, ActIdle, CloseErrCh, ActMoves
  <2> QED
    BY <2>1, <2>2
<1>8. CASE ActJob
  <2>1. ActFlags
    BY <1>1, <1>2, <1>3, <1>8 DEF ActJob, ActFlags
  <2>2. ActMoves
    BY <1>8 DEF ActJob, ActMoves
  <2> QED
    BY <2>1, <2>2
<1>9. CASE JobAccepted \/ JobFails
  <2>1. ActFlags
    BY <1>1, <1>2, <1>3, <1>9 DEF JobAccepted, JobFails, FlagsUnchanged, ActFlags
  <2>2. ActMoves
    BY <1>9 DEF JobAccepted, JobFails, FlagsUnchanged, ActMoves
  <2> QED
    BY <2>1, <2>2
<1>10. CASE JobEnds \/ ActSendErr
  <2>1. ActFlags
    BY <1>1, <1>2, <1>3, <1>10 DEF JobEnds, ActSendErr, CloseErrCh, ActFlags
  <2>2. ActMoves
    BY <1>10 DEF JobEnds, ActSendErr, CloseErrCh, ActMoves
  <2> QED
    BY <2>1, <2>2
<1>11. ActStop \/ ActDisconnect \/ (ActUptime /\ ~paused) =>
         /\ ActExit /\ ActUnchanged /\ SourcesUnchanged
         /\ UNCHANGED <<runner, pingClosed, debClosed, idleVars>>
  BY Zenon DEF ActStop, ActDisconnect, ActUptime
<1> QED
  BY <1>4, <1>5, <1>6, <1>7, <1>8, <1>9, <1>10, <1>11, Zenon DEF ActionLoop, ActionGoes

\* The action loop.
LEMMA ActionTyped == ASSUME AgentTypes, ActionLoop PROVE AgentTypes'
<1>1. ActMoves /\ ActFlags
  BY ActionMoves
<1>2. ASSUME NEW state \in {"busy", "idle", "dead"}, Mark(Self, state)
      PROVE  idleAt' \in [Workers -> {"busy", "idle", "dead"}] /\ exiting' \in BOOLEAN
  BY <1>2, MarkTyped, SelfWorks DEF AgentTypes
<1>3. idleAt' \in [Workers -> {"busy", "idle", "dead"}] /\ exiting' \in BOOLEAN
  <2>1. CASE UNCHANGED idleVars
    BY <2>1 DEF idleVars, AgentTypes, CoreTypes
  <2>2. CASE \E state \in {"busy", "idle", "dead"} : Mark(Self, state)
    BY <1>2, <2>2
  <2>3. ActPause \/ ActIdle \/ ActJob \/ JobFails \/ JobEnds =>
          \E state \in {"busy", "idle", "dead"} : Mark(Self, state)
    BY DEF ActPause, MarkPaused, ActIdle, ActJob, JobFails, JobEnds
  <2>4. ActSourceClosed \/ ActStop \/ ActDisconnect \/ JobAccepted \/ ActSendErr \/ ActUptime =>
          UNCHANGED idleVars
    BY DEF ActSourceClosed, ActStop, ActDisconnect, JobAccepted, ActSendErr, ActUptime
  <2> QED
    BY <2>1, <2>2, <2>3, <2>4, Zenon DEF ActionLoop, ActionGoes
<1>4. CoreTypes'
  BY <1>1, <1>3 DEF AgentTypes, CoreTypes, ActMoves, ActFlags, ActUnchanged
<1>5. PingTypes'
  BY <1>1 DEF AgentTypes, PingTypes, ActMoves, ActFlags, SourcesUnchanged
<1>6. StreamTypes'
  BY <1>1, PartsStay DEF AgentTypes, ActMoves, ActUnchanged
<1>7. DebTypes'
  BY <1>1 DEF AgentTypes, DebTypes, ActMoves, ActFlags, SourcesUnchanged
<1>8. ActTypes'
  BY <1>1, Returning DEF AgentTypes, ActTypes, ActMoves, ActFlags
<1> QED
  BY <1>4, <1>5, <1>6, <1>7, <1>8 DEF AgentTypes

\* Those who stop the worker, the other workers and the monitor.
LEMMA OutsideTyped == ASSUME AgentTypes, Outside PROVE AgentTypes'
<1>0. CoreTypes
  BY DEF AgentTypes
<1>1. NoLoops
  BY DEF Outside, StopGracefully, StopUngracefully, CtxCancel, PeerMark, MonitorReturns, NoLoops
<1>2. CASE StopGracefully \/ CtxCancel
  <2>1. stop' \in BOOLEAN /\ ctxDone' \in BOOLEAN
    BY <1>0, <1>2 DEF StopGracefully, CtxCancel, CoreTypes
  <2>2. UNCHANGED <<cfg, mainPc, runner, hbPc, idleVars>>
    BY <1>2 DEF StopGracefully, CtxCancel
  <2>3. CoreTypes'
    BY <1>0, <2>1, <2>2 DEF CoreTypes, idleVars
  <2> QED
    BY <1>1, <2>3, NoLoopsTyped
<1>3. CASE StopUngracefully
  <2>1. stop' \in BOOLEAN
    BY <1>3 DEF StopUngracefully
  <2>2. runner' \in {runner, "cancelled"} /\ UNCHANGED <<cfg, mainPc, ctxDone, hbPc, idleVars>>
    BY <1>3 DEF StopUngracefully, CancelRunner
  <2>3. CoreTypes'
    BY <1>0, <2>1, <2>2 DEF CoreTypes, idleVars
  <2> QED
    BY <1>1, <2>3, NoLoopsTyped
<1>4. CASE PeerMark
  <2>1. PICK w \in Peers, state \in {"busy", "idle", "dead"} : Mark(w, state)
    BY <1>4, Zenon DEF PeerMark
  <2>2. idleAt' \in [Workers -> {"busy", "idle", "dead"}] /\ exiting' \in BOOLEAN
    BY <1>0, <2>1, MarkTyped DEF Workers
  <2>3. UNCHANGED <<cfg, mainPc, stop, ctxDone, runner, hbPc>>
    BY <1>4, Zenon DEF PeerMark
  <2>4. CoreTypes'
    BY <1>0, <2>2, <2>3 DEF CoreTypes
  <2> QED
    BY <1>1, <2>4, NoLoopsTyped
<1>5. CASE MonitorReturns
  <2>1. exiting' \in BOOLEAN
    BY <1>5 DEF MonitorReturns
  <2>2. UNCHANGED <<cfg, mainPc, stop, ctxDone, runner, hbPc, idleAt>>
    BY <1>5, Zenon DEF MonitorReturns
  <2>3. CoreTypes'
    BY <1>0, <2>1, <2>2 DEF CoreTypes
  <2> QED
    BY <1>1, <2>3, NoLoopsTyped
<1> QED
  BY <1>2, <1>3, <1>4, <1>5 DEF Outside

\* Every goroutine of the worker stays at one of its places and every message,
\* flag and mark is one the code uses, for a pool of any size.
THEOREM WorkerStateTyped == Spec => []TypeOK
<1>1. AgentTypes /\ [Next]_vars => AgentTypes'
  <2> SUFFICES ASSUME AgentTypes, [Next]_vars PROVE AgentTypes'
    OBVIOUS
  <2>1. CASE Next
    BY <2>1, PingTyped, StreamTyped, DebouncerTyped, ActionTyped, StartTyped, OutsideTyped, Zenon
       DEF Next, StreamLoop
  <2>2. CASE UNCHANGED vars
    BY <2>2, PartsStay DEF vars, AgentTypes
  <2> QED
    BY <2>1, <2>2
<1> QED
  BY <1>1, TypeInit, TypeParts, PTL DEF Spec

-----------------------------------------------------------------------------
(* What the worker promises *)

\* The ping loop and the debouncer have actions under way only while they hold
\* the baton, however often the stream breaks and whoever stops the worker.
THEOREM BatonAlwaysGuards == Spec => []BatonGuardsActions
<1>1. AgentInv => BatonGuardsActions
  BY DEF AgentInv
<1> QED
  BY <1>1, AgentInvariant, PTL

\* An acquire-job agent runs no dispatched job, a disconnect-after-job agent
\* none after its first, in every ping mode.
THEOREM OneShotAgentsStop == Spec => []OneShotAgents
<1>1. AgentInv => OneShotAgents
  BY DEF AgentInv
<1> QED
  BY <1>1, AgentInvariant, PTL

\* The idle monitor of a pool of any size does not end the pool while this
\* worker has a job or is paused.
THEOREM PoolWaitsForWorker == Spec => IdleExitOnlyWhenQuiet
<1>1. AgentInv /\ [Next]_vars => [QuietExit]_vars
  BY LoopStep DEF AgentInv, LoopInv
<1> QED
  BY <1>1, AgentInvariant, PTL DEF Spec, IdleExitOnlyWhenQuiet, QuietExit

=============================================================================
