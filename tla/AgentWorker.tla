---------------------------- MODULE AgentWorker ----------------------------
(***************************************************************************)
(* One worker of the buildkite agent (src/m/v/buildkite--agent/agent):     *)
(* AgentWorker.Start with its five goroutines - ping loop, streaming loop, *)
(* debouncer, action loop, heartbeat - the baton the two sources of        *)
(* actions share, the result channel errCh of capacity four, the stop      *)
(* channel and the context, and the pool's idle monitor, which watches     *)
(* this worker (Self) and the other workers (Peers).                       *)
(*                                                                         *)
(* A send on an unbuffered channel is one step of the two goroutines that  *)
(* meet.  A select with several ready cases may take any of them, so the   *)
(* stop case never has priority over a message that is also ready.  A      *)
(* goroutine's return and the send of its result on errCh are one step.    *)
(***************************************************************************)
EXTENDS Integers, FiniteSets

CONSTANTS Config,  \* the configurations to start in
          Self,    \* this worker, in the idle monitor
          Peers    \* the other workers of the pool

ASSUME SelfIsNoPeer == Self \notin Peers

VARIABLES
  cfg,           \* ping mode and the modes that end the worker
  mainPc,        \* runWorker and Start
  stop, ctxDone, \* a.stop closed; the context cancelled
  baton,         \* who holds the baton
  pingPc, pingMsg, pingClosed,      \* ping loop; its message; errCh closed
  strPc, strMsg,                    \* streaming loop; message for debouncer
  debPc, healthy, pending, inProgress, debClosed,  \* debouncer
  actPc, src, msg, paused, exitWhenNotPaused, ranJob, fromPing, fromDeb,
  uptime,        \* the disconnect-after-uptime timer
  runner,        \* a.jobRunner
  hbPc,          \* heartbeat loop
  idleAt, exiting  \* idle monitor

pingVars == <<pingPc, pingMsg, pingClosed>>
strVars == <<strPc, strMsg>>
debVars == <<debPc, healthy, pending, inProgress, debClosed>>
actVars == <<actPc, src, msg, paused, exitWhenNotPaused, ranJob, fromPing,
             fromDeb, uptime>>
idleVars == <<idleAt, exiting>>
vars == <<cfg, mainPc, stop, ctxDone, baton, pingVars, strVars, debVars,
          actVars, runner, hbPc, idleVars>>

Workers == {Self} \cup Peers

\* What Buildkite may ask for.  A message without action is idle, or a job
\* when it has a job id.
Instruction == {"idle", "pause", "disconnect", "job"}

\* The capacity of errCh.
ErrChSize == 4

\* The loops the ping mode starts.
PingOn == cfg.mode # "stream-only"
StreamOn == cfg.mode # "poll-only"
Loops == (IF PingOn THEN {"ping"} ELSE {})
         \cup (IF StreamOn THEN {"stream", "debouncer"} ELSE {})
         \cup {"action"}

TypeOK ==
  /\ cfg \in Config
  /\ mainPc \in {"connect", "acquire", "acquired", "loops", "collect",
                 "disconnect", "dead"}
  /\ stop \in BOOLEAN /\ ctxDone \in BOOLEAN
  /\ baton \in {"free", "ping", "debouncer"}
  /\ pingPc \in {"off", "wait", "ping", "send", "result", "blocked", "gone"}
  /\ pingMsg \in Instruction \cup {"none"} /\ pingClosed \in BOOLEAN
  /\ strPc \in {"off", "wait", "recv", "send", "blocked", "gone"}
  /\ strMsg \in Instruction \cup {"unhealthy", "none"}
  /\ debPc \in {"off", "select", "send", "blocked", "gone"}
  /\ healthy \in BOOLEAN /\ inProgress \in BOOLEAN /\ debClosed \in BOOLEAN
  /\ pending \in Instruction \cup {"none"}
  /\ actPc \in {"off", "select", "handle", "accept", "run", "sendErr", "blocked", "gone"}
  /\ src \in {"ping", "debouncer", "none"} /\ msg \in Instruction \cup {"none"}
  /\ paused \in BOOLEAN /\ exitWhenNotPaused \in BOOLEAN /\ ranJob \in BOOLEAN
  /\ fromPing \in BOOLEAN /\ fromDeb \in BOOLEAN
  /\ uptime \in {"off", "armed"}
  /\ runner \in {"none", "running", "cancelled"}
  /\ hbPc \in {"off", "beat", "cancel", "blocked", "gone"}
  /\ idleAt \in [Workers -> {"busy", "idle", "dead"}] /\ exiting \in BOOLEAN

Init ==
  /\ cfg \in Config
  /\ mainPc = "connect"
  /\ stop = FALSE /\ ctxDone = FALSE
  /\ baton = "free"
  /\ pingPc = "off" /\ pingMsg = "none" /\ pingClosed = FALSE
  /\ strPc = "off" /\ strMsg = "none"
  /\ debPc = "off" /\ healthy = TRUE /\ pending = "none"
  /\ inProgress = FALSE /\ debClosed = FALSE
  /\ actPc = "off" /\ src = "none" /\ msg = "none" /\ paused = FALSE
  /\ exitWhenNotPaused = FALSE /\ ranJob = FALSE
  /\ fromPing = FALSE /\ fromDeb = FALSE
  /\ uptime = "off"
  /\ runner = "none"
  /\ hbPc = "off"
  /\ idleAt = [w \in Workers |-> "busy"] /\ exiting = FALSE

-----------------------------------------------------------------------------
(* The idle monitor.  A worker missing from the code's map is "busy" here. *)

Quiet(at) == \A w \in Workers : at[w] # "busy"

\* MarkIdle, MarkBusy, MarkDead: meet the monitor, unless it has returned.
\* Idleness counts from the first mark, and a dead worker stays dead.
Mark(w, state) ==
  IF ~cfg.idle \/ exiting THEN UNCHANGED idleVars
  ELSE /\ idleAt' = [idleAt EXCEPT ![w] =
                       IF state = "idle" /\ @ # "busy" THEN @ ELSE state]
       /\ exiting' = \A v \in Workers : idleAt'[v] = "dead"

\* The time-out runs only while every worker is idle or dead.
MonitorReturns ==
  /\ cfg.idle /\ ~exiting
  /\ ctxDone \/ Quiet(idleAt)
  /\ exiting' = TRUE
  /\ UNCHANGED <<cfg, mainPc, stop, ctxDone, baton, pingVars, strVars, debVars,
                 actVars, runner, hbPc, idleAt>>

\* Another worker of the pool becomes idle, busy or dead.
PeerMark ==
  /\ \E w \in Peers, state \in {"busy", "idle", "dead"} :
       /\ idleAt[w] # "dead" /\ state # idleAt[w]
       /\ Mark(w, state)
  /\ cfg.idle /\ ~exiting
  /\ UNCHANGED <<cfg, mainPc, stop, ctxDone, baton, pingVars, strVars, debVars,
                 actVars, runner, hbPc>>
-----------------------------------------------------------------------------
(* Stopping.  internalStop closes the channel once.                        *)

Release(by) == baton' = IF baton = by THEN "free" ELSE baton

\* A job runner that exists is cancelled.
CancelRunner == runner' = IF runner = "running" THEN "cancelled" ELSE runner

StopGracefully ==
  /\ mainPc # "dead" /\ ~stop
  /\ stop' = TRUE
  /\ UNCHANGED <<cfg, mainPc, ctxDone, baton, pingVars, strVars, debVars,
                 actVars, runner, hbPc, idleVars>>

StopUngracefully ==
  /\ mainPc # "dead" /\ (~stop \/ runner = "running")
  /\ stop' = TRUE
  /\ CancelRunner
  /\ UNCHANGED <<cfg, mainPc, ctxDone, baton, pingVars, strVars, debVars,
                 actVars, hbPc, idleVars>>

CtxCancel ==
  /\ cfg.ctx /\ mainPc # "dead" /\ ~ctxDone
  /\ ctxDone' = TRUE
  /\ UNCHANGED <<cfg, mainPc, stop, baton, pingVars, strVars, debVars,
                 actVars, runner, hbPc, idleVars>>

-----------------------------------------------------------------------------
(* runWorker and Start.                                                    *)

\* The loops of the ping mode; streaming starts with the baton.
StartLoops ==
  /\ mainPc' = "loops"
  /\ pingPc' = IF PingOn THEN "wait" ELSE "off"
  /\ strPc' = IF StreamOn THEN "wait" ELSE "off"
  /\ debPc' = IF StreamOn THEN "select" ELSE "off"
  /\ baton' = IF StreamOn THEN "debouncer" ELSE "free"
  /\ fromPing' = PingOn /\ fromDeb' = StreamOn
  /\ actPc' = "select"
  /\ uptime' = IF cfg.uptime THEN "armed" ELSE "off"
  /\ UNCHANGED <<pingMsg, pingClosed, strMsg, healthy, pending, inProgress,
                 debClosed, src, msg, paused, exitWhenNotPaused, ranJob>>

\* A goroutine returns and sends its result on errCh.  Nobody receives before
\* wg.Wait is over, so without room it stays in its last statement.
Pc == [ping |-> pingPc, stream |-> strPc, debouncer |-> debPc,
       action |-> actPc, heartbeat |-> hbPc]
Sent == {g \in DOMAIN Pc : Pc[g] = "gone"}
ErrChRoom == Cardinality(Sent) < ErrChSize
             \/ mainPc \in {"collect", "disconnect", "dead"}
Returned == IF ErrChRoom THEN "gone" ELSE "blocked"
Over == {"gone", "blocked"}

NoLoops == UNCHANGED <<baton, pingVars, strVars, debVars, actVars>>

Connect ==
  /\ mainPc = "connect"
  /\ \/ /\ mainPc' = "dead" /\ Mark(Self, "dead")     \* refused
        /\ NoLoops /\ UNCHANGED hbPc
     \/ /\ hbPc' = "beat"
        /\ IF cfg.acquire THEN mainPc' = "acquire" /\ NoLoops ELSE StartLoops
        /\ UNCHANGED idleVars
  /\ UNCHANGED <<cfg, stop, ctxDone, runner>>

\* AcquireAndRunJob before the loops; a rejected acquisition ends Start.
Acquire ==
  /\ mainPc = "acquire"
  /\ \/ mainPc' = "acquired" /\ runner' = "running" /\ NoLoops
     \/ StartLoops /\ UNCHANGED runner
     \/ mainPc' = "disconnect" /\ NoLoops /\ UNCHANGED runner
  /\ UNCHANGED <<cfg, stop, ctxDone, hbPc, idleVars>>

AcquiredJobEnds ==
  /\ mainPc = "acquired"
  /\ runner' = "none"
  /\ StartLoops
  /\ UNCHANGED <<cfg, stop, ctxDone, hbPc, idleVars>>

\* wg.Wait returns; then one result is received per goroutine.
LoopsStopped ==
  /\ mainPc = "loops" /\ Loops \subseteq Sent
  /\ mainPc' = "collect"
  /\ NoLoops /\ UNCHANGED <<cfg, stop, ctxDone, runner, hbPc, idleVars>>

ResultsCollected ==
  /\ mainPc = "collect" /\ "heartbeat" \in Sent
  /\ mainPc' = "disconnect"
  /\ NoLoops /\ UNCHANGED <<cfg, stop, ctxDone, runner, hbPc, idleVars>>

\* Disconnect, then the deferred MarkDead.
Disconnect ==
  /\ mainPc = "disconnect"
  /\ mainPc' = "dead"
  /\ Mark(Self, "dead")
  /\ NoLoops /\ UNCHANGED <<cfg, stop, ctxDone, runner, hbPc>>

-----------------------------------------------------------------------------
(* The heartbeat loop.  StopUngracefully blocks in Cancel.                 *)

StoppingHeartbeats == ctxDone \/ mainPc \in {"collect", "disconnect", "dead"}

HeartbeatUnrecoverable ==
  /\ hbPc = "beat"
  /\ stop' = TRUE
  /\ CancelRunner
  /\ hbPc' = "cancel"
  /\ NoLoops /\ UNCHANGED <<cfg, mainPc, ctxDone, idleVars>>

HeartbeatEnds ==
  /\ \/ hbPc = "cancel"
     \/ hbPc = "beat" /\ StoppingHeartbeats
     \/ hbPc = "blocked" /\ ErrChRoom
  /\ hbPc' = Returned
  /\ NoLoops /\ UNCHANGED <<cfg, mainPc, stop, ctxDone, runner, idleVars>>

-----------------------------------------------------------------------------
(* The ping loop: runPingLoop, pingLoopInner, Ping.                        *)

PingUnchanged == UNCHANGED <<cfg, mainPc, stop, ctxDone, strVars, debVars,
                             runner, hbPc, idleVars>>

\* After the ticker and the jitter, wait for the baton.
PingTakeBaton ==
  /\ pingPc = "wait" /\ baton = "free"
  /\ baton' = "ping"
  /\ pingPc' = "ping"
  /\ PingUnchanged /\ UNCHANGED <<pingMsg, pingClosed, actVars>>

\* A failed ping carries no action and no job: the same as idle.
PingReply ==
  /\ pingPc = "ping"
  /\ pingMsg' \in Instruction
  /\ pingPc' = "send"
  /\ PingUnchanged /\ UNCHANGED <<pingClosed, baton, actVars>>

\* Return from the loop: its locals are gone, the baton is given back.
PingExit ==
  /\ pingPc' = Returned /\ pingMsg' = "none" /\ pingClosed' = FALSE
  /\ Release("ping")
  /\ PingUnchanged /\ UNCHANGED actVars

PingUnrecoverable == pingPc = "ping" /\ PingExit

PingSend ==
  /\ pingPc = "send" /\ actPc = "select" /\ fromPing
  /\ pingPc' = "result" /\ pingMsg' = "none"
  /\ actPc' = "handle" /\ src' = "ping" /\ msg' = pingMsg
  /\ PingUnchanged
  /\ UNCHANGED <<pingClosed, baton, paused, exitWhenNotPaused, ranJob,
                 fromPing, fromDeb, uptime>>

\* The action is complete; the baton goes back with the deferred release.
PingResult ==
  /\ pingPc = "result" /\ pingClosed
  /\ pingPc' = "wait" /\ pingClosed' = FALSE
  /\ Release("ping")
  /\ PingUnchanged /\ UNCHANGED <<pingMsg, actVars>>

MutPingStop ==
  /\ pingPc \in {"wait", "send"} /\ (stop \/ ctxDone)
  /\ PingExit

PingStop ==
  /\ pingPc \in {"wait", "send", "result"} /\ (stop \/ ctxDone)
  /\ PingExit

-----------------------------------------------------------------------------
(* The streaming loop: runStreamingPingLoop, startStream, handle.          *)

StreamUnchanged == UNCHANGED <<cfg, mainPc, ctxDone, pingVars, actVars,
                               runner, hbPc, idleVars>>

\* After the jittered back-off: connected, unreachable, or refused for good.
StreamConnect ==
  /\ strPc = "wait"
  /\ \/ strPc' = "recv" /\ UNCHANGED strMsg
     \/ strPc' = "send" /\ strMsg' = "unhealthy"
     \/ strPc' = Returned /\ UNCHANGED strMsg
  /\ StreamUnchanged /\ UNCHANGED <<stop, baton, debVars>>

\* An instruction, or an error or a nil message that breaks the stream.
StreamReceive ==
  /\ strPc = "recv"
  /\ strPc' = "send" /\ strMsg' \in Instruction \cup {"unhealthy"}
  /\ StreamUnchanged /\ UNCHANGED <<stop, baton, debVars>>

\* The stream ends or times out, or fails with an unrecoverable error.
StreamEnds ==
  /\ strPc = "recv"
  /\ strPc' \in {"wait", Returned}
  /\ StreamUnchanged /\ UNCHANGED <<strMsg, stop, baton, debVars>>

StreamStop ==
  /\ strPc \in {"wait", "send"} /\ (stop \/ ctxDone)
  /\ strPc' = Returned /\ strMsg' = "none"
  /\ StreamUnchanged /\ UNCHANGED <<stop, baton, debVars>>

-----------------------------------------------------------------------------
(* The debouncer.  DebouncerSends is the end of its loop body: go on to    *)
(* send when healthy, holding the baton, with nothing in progress and a    *)
(* message pending.                                                        *)

DebUnchanged == UNCHANGED <<cfg, mainPc, ctxDone, pingVars, runner, hbPc,
                            idleVars>>

DebouncerSends ==
  debPc' = IF healthy' /\ baton' = "debouncer" /\ ~inProgress'
              /\ pending' # "none"
           THEN "send" ELSE "select"

DebouncerTakeBaton ==
  /\ debPc = "select" /\ healthy /\ baton = "free"
  /\ baton' = "debouncer"
  /\ UNCHANGED <<healthy, pending, inProgress, debClosed>>
  /\ DebouncerSends
  /\ DebUnchanged /\ UNCHANGED <<stop, strVars, actVars>>

\* Of the messages that arrive during an action the last healthy one is kept.
MutKeepPending == pending' = strMsg
KeepPending == pending' = IF strMsg = "unhealthy" THEN pending ELSE strMsg

\* An unhealthy stream gives the baton back, unless an action runs.
MutGiveUpBaton ==
  IF strMsg = "unhealthy" THEN Release("debouncer") ELSE UNCHANGED baton
GiveUpBaton ==
  IF strMsg = "unhealthy" /\ ~inProgress THEN Release("debouncer")
                                         ELSE UNCHANGED baton

\* The streaming loop hands over a message.  After a disconnect it stops the
\* worker and returns.
StreamSend ==
  /\ strPc = "send" /\ debPc = "select"
  /\ healthy' = (strMsg # "unhealthy")
  /\ KeepPending /\ GiveUpBaton
  /\ UNCHANGED <<inProgress, debClosed>>
  /\ DebouncerSends
  /\ strPc' = CASE strMsg = "disconnect" -> Returned
                [] strMsg = "unhealthy" -> "wait"
                [] OTHER -> "recv"
  /\ strMsg' = "none"
  /\ stop' = (stop \/ strMsg = "disconnect")
  /\ DebUnchanged /\ UNCHANGED actVars

\* close(lastActionResult) seen.
DebouncerResult ==
  /\ debPc = "select" /\ inProgress /\ debClosed
  /\ inProgress' = FALSE /\ debClosed' = FALSE
  /\ UNCHANGED <<healthy, pending, baton>>
  /\ DebouncerSends
  /\ DebUnchanged /\ UNCHANGED <<stop, strVars, actVars>>

DebouncerSend ==
  /\ debPc = "send" /\ actPc = "select" /\ fromDeb
  /\ debPc' = "select"
  /\ actPc' = "handle" /\ src' = "debouncer" /\ msg' = pending
  /\ pending' = "none" /\ inProgress' = TRUE
  /\ DebUnchanged
  /\ UNCHANGED <<stop, baton, healthy, debClosed, strVars, paused, exitWhenNotPaused,
                 ranJob, fromPing, fromDeb, uptime>>

\* Stop, cancelled context, or the streaming loop closed its channel; the
\* deferred release gives the baton back.
DebouncerExit ==
  /\ debPc' = Returned
  /\ healthy' = TRUE /\ pending' = "none" /\ inProgress' = FALSE /\ debClosed' = FALSE
  /\ Release("debouncer")
  /\ DebUnchanged /\ UNCHANGED <<stop, strVars, actVars>>

MutDebouncerStop ==
  /\ debPc \in {"select", "send"} /\ (stop \/ ctxDone)
  /\ DebouncerExit

DebouncerStop ==
  /\ \/ debPc \in {"select", "send"} /\ (stop \/ ctxDone)
     \/ debPc = "select" /\ strPc \in Over
  /\ DebouncerExit

-----------------------------------------------------------------------------
(* The action loop: runActionLoop, AcceptAndRunJob, RunJob.                *)

ActUnchanged == UNCHANGED <<cfg, mainPc, ctxDone, strVars, hbPc>>
SourcesUnchanged == UNCHANGED <<baton, pingPc, pingMsg, debPc, healthy,
                                pending, inProgress>>
FlagsUnchanged == UNCHANGED <<src, msg, paused, exitWhenNotPaused, ranJob,
                              fromPing, fromDeb, uptime>>

\* close(msg.errCh): seen by the source, if it still waits.
CloseErrCh ==
  /\ src' = "none" /\ msg' = "none"
  /\ pingClosed' = (pingClosed \/ (src = "ping" /\ pingPc = "result"))
  /\ debClosed' = (debClosed \/ (src = "debouncer" /\ inProgress))

\* Return: the locals are gone, the deferred internalStop stops the others.
ActExit ==
  /\ actPc' = Returned /\ stop' = TRUE
  /\ src' = "none" /\ msg' = "none" /\ paused' = FALSE
  /\ exitWhenNotPaused' = FALSE /\ ranJob' = FALSE
  /\ fromPing' = FALSE /\ fromDeb' = FALSE /\ uptime' = "off"

\* A source that has closed its channel is no longer listened to.
ActSourceClosed ==
  /\ actPc = "select"
  /\ \/ /\ fromPing /\ pingPc \in Over
        /\ fromPing' = FALSE /\ UNCHANGED fromDeb
     \/ /\ fromDeb /\ debPc \in Over
        /\ fromDeb' = FALSE /\ UNCHANGED fromPing
  /\ ActUnchanged /\ SourcesUnchanged
  /\ UNCHANGED <<actPc, stop, src, msg, paused, exitWhenNotPaused, ranJob,
                 uptime, runner, pingClosed, debClosed, idleVars>>

\* No source is left, or stop, context or the idle monitor say so.
ActStop ==
  /\ actPc = "select"
  /\ (~fromPing /\ ~fromDeb) \/ stop \/ ctxDone \/ exiting
  /\ ActExit
  /\ ActUnchanged /\ SourcesUnchanged
  /\ UNCHANGED <<runner, pingClosed, debClosed, idleVars>>

\* disconnect-after-uptime waits for a paused agent to be resumed.
ActUptime ==
  /\ actPc = "select" /\ uptime = "armed"
  /\ IF paused
     THEN /\ exitWhenNotPaused' = TRUE /\ uptime' = "off"
          /\ UNCHANGED <<actPc, stop, src, msg, paused, ranJob, fromPing, fromDeb>>
     ELSE ActExit
  /\ ActUnchanged /\ SourcesUnchanged
  /\ UNCHANGED <<runner, pingClosed, debClosed, idleVars>>

\* The message ends the loop: disconnect, or anything but pause in a mode
\* that was only waiting to be resumed.
MutMessageEnds == \/ msg = "disconnect"
                  \/ msg # "pause" /\ (exitWhenNotPaused \/ cfg.acquire)

MessageEnds == \/ msg = "disconnect"
               \/ /\ msg # "pause"
                  /\ exitWhenNotPaused \/ cfg.acquire \/ (ranJob /\ cfg.once)

ActDisconnect ==
  /\ actPc = "handle" /\ MessageEnds
  /\ ActExit
  /\ ActUnchanged /\ SourcesUnchanged
  /\ UNCHANGED <<runner, pingClosed, debClosed, idleVars>>

\* A paused agent counts as busy.
MutMarkPaused == UNCHANGED idleVars
MarkPaused == Mark(Self, "busy")

ActPause ==
  /\ actPc = "handle" /\ msg = "pause"
  /\ paused' = TRUE
  /\ MarkPaused
  /\ CloseErrCh
  /\ actPc' = "select"
  /\ ActUnchanged /\ SourcesUnchanged
  /\ UNCHANGED <<stop, exitWhenNotPaused, ranJob, fromPing, fromDeb,
                 uptime, runner>>

ActIdle ==
  /\ actPc = "handle" /\ msg = "idle" /\ ~MessageEnds
  /\ paused' = FALSE
  /\ Mark(Self, "idle")
  /\ CloseErrCh
  /\ actPc' = "select"
  /\ ActUnchanged /\ SourcesUnchanged
  /\ UNCHANGED <<stop, exitWhenNotPaused, ranJob, fromPing, fromDeb,
                 uptime, runner>>

ActJob ==
  /\ actPc = "handle" /\ msg = "job" /\ ~MessageEnds
  /\ paused' = FALSE
  /\ Mark(Self, "busy")
  /\ actPc' = "accept" /\ msg' = "none"
  /\ ActUnchanged /\ SourcesUnchanged
  /\ UNCHANGED <<stop, src, exitWhenNotPaused, ranJob, fromPing, fromDeb,
                 uptime, runner, pingClosed, debClosed>>

JobAccepted ==
  /\ actPc = "accept"
  /\ actPc' = "run" /\ runner' = "running"
  /\ ActUnchanged /\ SourcesUnchanged /\ FlagsUnchanged
  /\ UNCHANGED <<stop, pingClosed, debClosed, idleVars>>

\* The job was not accepted, could not be set up or could not be run: the
\* error is sent on msg.errCh, and somebody has to receive it.
JobFails ==
  /\ actPc \in {"accept", "run"}
  /\ actPc' = "sendErr" /\ runner' = "none"
  /\ Mark(Self, "idle")
  /\ ActUnchanged /\ SourcesUnchanged /\ FlagsUnchanged
  /\ UNCHANGED <<stop, pingClosed, debClosed>>

JobEnds ==
  /\ actPc = "run"
  /\ actPc' = "select" /\ runner' = "none" /\ ranJob' = TRUE
  /\ Mark(Self, "idle")
  /\ CloseErrCh
  /\ ActUnchanged /\ SourcesUnchanged
  /\ UNCHANGED <<stop, paused, exitWhenNotPaused, fromPing, fromDeb,
                 uptime>>

\* The source that sent the message still waits for its result.
Waiting == \/ src = "ping" /\ pingPc = "result"
           \/ src = "debouncer" /\ debPc = "select" /\ inProgress

ActSendErr ==
  /\ actPc = "sendErr" /\ Waiting
  /\ actPc' = "select"
  /\ CloseErrCh
  /\ ActUnchanged /\ SourcesUnchanged
  /\ UNCHANGED <<stop, paused, exitWhenNotPaused, ranJob, fromPing, fromDeb,
                 uptime, runner, idleVars>>

-----------------------------------------------------------------------------

PingLoop == PingTakeBaton \/ PingReply \/ PingUnrecoverable
            \/ PingSend \/ PingResult \/ PingStop
StreamLoop == StreamConnect \/ StreamReceive \/ StreamEnds
              \/ StreamSend \/ StreamStop
Debouncer == DebouncerTakeBaton \/ DebouncerResult \/ DebouncerSend
             \/ DebouncerStop
ActionGoes == ActSourceClosed \/ ActStop \/ ActDisconnect \/ ActPause
              \/ ActIdle \/ ActJob \/ JobAccepted \/ JobFails
              \/ JobEnds \/ ActSendErr
ActionLoop == ActionGoes \/ ActUptime
Heartbeat == HeartbeatUnrecoverable \/ HeartbeatEnds
Start == Connect \/ Acquire \/ AcquiredJobEnds \/ LoopsStopped
         \/ ResultsCollected \/ Disconnect
Outside == StopGracefully \/ StopUngracefully \/ CtxCancel \/ PeerMark
           \/ MonitorReturns

Next == PingLoop \/ StreamLoop \/ Debouncer \/ ActionLoop \/ Heartbeat
        \/ Start \/ Outside

Spec == Init /\ [][Next]_vars

\* Every goroutine keeps running, calls to Buildkite return and jobs end.
\* Go chooses among the ready cases of a select at random, so a stop case
\* that is ready again and again is taken.  Nothing obliges Buildkite to send
\* on the stream, until the stop cancels it.
Fairness ==
  /\ WF_vars(PingLoop) /\ SF_vars(PingStop)
  /\ WF_vars(StreamConnect \/ StreamSend \/ StreamStop)
  /\ WF_vars((stop \/ ctxDone) /\ (StreamReceive \/ StreamEnds))
  /\ SF_vars(StreamStop)
  /\ WF_vars(Debouncer) /\ SF_vars(DebouncerStop)
  /\ WF_vars(ActionGoes) /\ SF_vars(ActStop)
  /\ WF_vars(HeartbeatEnds)
  /\ WF_vars(Start)

FairSpec == Spec /\ Fairness

-----------------------------------------------------------------------------
(* Properties.                                                             *)

\* The baton keeps the two sources of actions apart: the ping loop talks to
\* Buildkite and waits for its action exactly while it holds the baton, and
\* as long as a streamed action is being sent or executed the debouncer has
\* it, however often the stream breaks meanwhile.
BatonGuardsActions ==
  /\ baton = "ping" <=> pingPc \in {"ping", "send", "result"}
  /\ inProgress \/ debPc = "send" => baton = "debouncer"
  /\ baton = "debouncer" => debPc \in {"select", "send"}

\* An acquire-job agent runs no dispatched job, and a disconnect-after-job
\* agent none after the first that ran, whatever it is sent, pauses and
\* resumes included.
OneShotAgents ==
  actPc \in {"accept", "run"} => ~cfg.acquire /\ ~(cfg.once /\ ranJob)

\* The idle monitor never sends the pool home while this worker has accepted
\* a job or is paused.
IdleExitOnlyWhenQuiet ==
  [][~exiting /\ exiting' =>
       ctxDone \/ (~paused /\ actPc \notin {"accept", "run"})]_vars

\* The action loop sends an error to a loop that has returned meanwhile.
UnheardError ==
  /\ actPc = "sendErr"
  /\ IF src = "ping" THEN pingPc \in Over
                     ELSE debPc \in Over

\* The heartbeat's result and three others fill errCh, and the last of the
\* four loops cannot send its own.
ErrChFull == /\ mainPc = "loops" /\ "heartbeat" \in Sent
             /\ ~ErrChRoom

\* A stopped or cancelled worker returns, disconnects and is marked dead,
\* except in two situations: an error nobody receives, and a full errCh.
StopReturns ==
  (stop \/ ctxDone) ~> (mainPc = "dead" \/ UnheardError \/ ErrChFull)

\* When streaming ends for good in auto mode the ping loop gets the baton.
PollingTakesOver ==
  (cfg.mode = "auto" /\ strPc \in Over)
    ~> (baton = "ping" \/ pingPc \in Over)

\* What Start and the heartbeat loop promise: once stopped, the worker ends.
StartReturns == (stop \/ ctxDone) ~> mainPc = "dead"
=============================================================================
