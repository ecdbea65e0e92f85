----------------------------- MODULE JobRunner -----------------------------
(***************************************************************************)
(* One job of the buildkite agent (src/m/v/buildkite--agent): JobRunner.Run*)
(* with its helper goroutines - the one that hands the output to the log   *)
(* streamer and the one that asks Buildkite whether the job was cancelled -*)
(* the log streamer and its upload workers, the header times streamer, the *)
(* bootstrap process and its output, and Cancel, called by the checker and *)
(* by an agent that stops.                                                 *)
(*                                                                         *)
(* The context Run is given lives as long as the agent and is never        *)
(* cancelled here; cctx, its child, is what Run cancels before cleanup.    *)
(* Output is a run of numbered pieces, so order and loss can be told.      *)
(***************************************************************************)
EXTENDS Integers, Sequences, FiniteSets

CONSTANTS Config,      \* [pty, ansi]: run-in-pty, ansi-timestamps
          MaxOutput,   \* bound on the pieces of output
          MaxChunk,    \* MaxChunkSizeBytes, in pieces
          QueueSize,   \* capacity of the chunk queue
          Workers      \* number of upload workers

ASSUME SizesPositive ==
  /\ MaxOutput \in Nat \ {0} /\ MaxChunk \in Nat \ {0}
  /\ QueueSize \in Nat \ {0} /\ Workers \in Nat \ {0}

VARIABLES
  cfg,
  runPc, reason,                   \* Run; the signal reason it reports
  cctxDone, envFiles,              \* child context; env files on disk
  proc, signal,                    \* process; what it was sent
  wrote, pipe, out, outClosed,     \* output so far, unread, r.output
  pwClosed,                        \* header pipe closed
  strPc, held,                     \* streamJobLogsAfterProcessStart
  final,                           \* cleanup's last output
  overtaken,                       \* both wait for the mutex with output
  mutex, order, queue, stopped,    \* LogStreamer
  uploading, sent,                 \* its workers: under way, over
  chkPc,                           \* jobCancellationChecker
  cancelPc, cancelBy, cancelled, agentStopping,   \* Cancel
  hdrPc, hdrStreaming              \* headerTimesStreamer

runVars == <<cfg, runPc, reason, cctxDone, envFiles>>
procVars == <<proc, signal>>
outVars == <<wrote, pipe, out, outClosed, pwClosed>>
strVars == <<strPc, held>>
logVars == <<final, overtaken, mutex, order, queue, stopped, uploading,
             sent>>
cancelVars == <<chkPc, cancelPc, cancelBy, cancelled, agentStopping>>
hdrVars == <<hdrPc, hdrStreaming>>
vars == <<runVars, procVars, outVars, strVars, logVars, cancelVars, hdrVars>>

Piece == 1..MaxOutput
Pieces == UNION {[1..n -> Piece] : n \in 0..MaxOutput}
Chunk == [seq : 1..MaxOutput, data : Pieces]

\* Where Run, its helpers, the process and Cancel are.
ControlTypes ==
  /\ cfg \in Config
  /\ runPc \in {"begin", "startJob", "checks", "process", "stopping",
                "cancelled", "cleanup", "lock", "push", "stop",
                "drain", "header", "headerWait", "join", "done", "error"}
  /\ reason \in {"none", "refused", "run_error", "cancel", "agent_stop"}
  /\ cctxDone \in BOOLEAN /\ envFiles \in BOOLEAN
  /\ proc \in {"none", "forked", "running", "dead", "reaped", "failed"}
  /\ signal \in {"none", "interrupt", "kill"}
  /\ outClosed \in BOOLEAN /\ pwClosed \in BOOLEAN /\ overtaken \in BOOLEAN
  /\ strPc \in {"off", "wait", "tick", "lock", "push", "gone"}
  /\ mutex \in {"free", "stream", "main"} /\ stopped \in BOOLEAN
  /\ chkPc \in {"off", "wait", "poll", "cancel", "gone"}
  /\ cancelPc \in {"none", "interrupt", "grace"}
  /\ cancelBy \in {"none", "checker", "agent"}
  /\ cancelled \in BOOLEAN /\ agentStopping \in BOOLEAN
  /\ hdrPc \in {"off", "new", "run", "gone"} /\ hdrStreaming \in BOOLEAN

TypeOK ==
  /\ ControlTypes
  /\ wrote \in 0..MaxOutput /\ order \in 0..MaxOutput
  /\ \A s \in {pipe, out, held, final} : s \in Pieces
  /\ \A i \in DOMAIN queue : queue[i] \in Chunk
  /\ Len(queue) <= QueueSize /\ Cardinality(uploading) <= Workers
  /\ \A c \in uploading \cup sent : c \in Chunk

\* NewJobRunner has created the env files and the writers.
Init ==
  /\ cfg \in Config
  /\ runPc = "begin" /\ reason = "none" /\ cctxDone = FALSE /\ envFiles = TRUE
  /\ proc = "none" /\ signal = "none"
  /\ wrote = 0 /\ pipe = <<>> /\ out = <<>>
  /\ outClosed = FALSE /\ pwClosed = FALSE
  /\ strPc = "off" /\ held = <<>>
  /\ final = <<>> /\ overtaken = FALSE
  /\ mutex = "free" /\ order = 0 /\ queue = <<>> /\ stopped = FALSE
  /\ uploading = {} /\ sent = {}
  /\ chkPc = "off"
  /\ cancelPc = "none" /\ cancelBy = "none"
  /\ cancelled = FALSE /\ agentStopping = FALSE
  /\ hdrPc = "off" /\ hdrStreaming = FALSE

Started == proc \in {"running", "dead", "reaped"}   \* Started() is closed
Done == proc = "reaped"                             \* Done() is closed

\* A line the agent itself adds to the job log.
WriteJobLog == wrote' = wrote + 1 /\ out' = Append(out, wrote + 1)

-----------------------------------------------------------------------------
(* Run, up to the process.                                                 *)

\* A job cancelled before Run is not run, nor is its cleanup.
Begin ==
  /\ runPc = "begin"
  /\ runPc' = IF cancelled THEN "error" ELSE "startJob"
  /\ UNCHANGED <<cfg, reason, cctxDone, envFiles, procVars, outVars, strVars,
                 logVars, cancelVars, hdrVars>>

\* Buildkite refuses the start, or the header streamer's goroutine is spawned;
\* a log streamer without a chunk size does not start.
StartJob ==
  /\ runPc = "startJob"
  /\ \/ runPc' = "error" /\ UNCHANGED hdrPc
     \/ runPc' \in {"checks", "error"} /\ hdrPc' = "new"
  /\ UNCHANGED <<cfg, reason, cctxDone, envFiles, procVars, outVars, strVars,
                 logVars, cancelVars, hdrStreaming>>

\* Signature, allow-lists or the pre-bootstrap hook refuse the job.
Refuse ==
  /\ runPc = "checks"
  /\ WriteJobLog
  /\ reason' = "refused"
  /\ runPc' = "cleanup"
  /\ UNCHANGED <<cfg, cctxDone, envFiles, procVars, pipe, outClosed, pwClosed,
                 strVars, logVars, cancelVars, hdrVars>>

\* The helpers are spawned and the process is run.
RunProcess ==
  /\ runPc = "checks"
  /\ runPc' = "process"
  /\ strPc' = "wait" /\ chkPc' = "wait"
  /\ UNCHANGED <<cfg, reason, cctxDone, envFiles, procVars, outVars, held,
                 logVars, cancelPc, cancelBy, cancelled, agentStopping,
                 hdrVars>>

-----------------------------------------------------------------------------
(* The process and its output.                                             *)

ProcUnchanged == UNCHANGED <<cfg, cctxDone, envFiles, strVars, logVars,
                             cancelVars, hdrVars>>

\* The command cannot be started.
ProcessFails ==
  /\ runPc = "process" /\ proc = "none"
  /\ proc' = "failed"
  /\ WriteJobLog
  /\ reason' = "run_error"
  /\ runPc' = "cleanup"
  /\ ProcUnchanged
  /\ UNCHANGED <<signal, pipe, outClosed, pwClosed>>

\* command.Process is set here, p.pid and started only in the next step.
Fork ==
  /\ runPc = "process" /\ proc = "none"
  /\ proc' = "forked"
  /\ ProcUnchanged /\ UNCHANGED <<runPc, reason, signal, outVars>>

RecordPid ==
  /\ proc = "forked"
  /\ proc' = "running"
  /\ ProcUnchanged /\ UNCHANGED <<runPc, reason, signal, outVars>>

ProcessWrites ==
  /\ proc = "running" /\ wrote < MaxOutput
  /\ wrote' = wrote + 1 /\ pipe' = Append(pipe, wrote + 1)
  /\ ProcUnchanged
  /\ UNCHANGED <<runPc, reason, procVars, out, outClosed, pwClosed>>

\* It ends of its own accord or because of a signal.
ProcessDies ==
  /\ proc = "running"
  /\ proc' = "dead"
  /\ ProcUnchanged /\ UNCHANGED <<runPc, reason, signal, outVars>>

\* The output is copied to the writers.  Without ansi-timestamps the header
\* pipe comes first, and a closed one refuses the output.
CopyOutput ==
  /\ pipe # <<>>
  /\ IF (pwClosed /\ ~cfg.ansi) \/ outClosed
     THEN pipe' = <<>> /\ UNCHANGED out
     ELSE pipe' = Tail(pipe) /\ out' = Append(out, Head(pipe))
  /\ ProcUnchanged
  /\ UNCHANGED <<runPc, reason, procVars, wrote, outClosed, pwClosed>>

\* Wait returns and Done is closed.  Without a pty Wait includes the copying.
Reap ==
  /\ proc = "dead" /\ (cfg.pty \/ pipe = <<>>)
  /\ proc' = "reaped"
  /\ ProcUnchanged /\ UNCHANGED <<runPc, reason, signal, outVars>>

\* Closing the pipe makes a difference only to output not copied yet.
ClosePipe ==
  /\ Done /\ ~pwClosed /\ pipe # <<>>
  /\ pwClosed' = TRUE
  /\ ProcUnchanged
  /\ UNCHANGED <<runPc, reason, procVars, wrote, pipe, out, outClosed>>

\* timeoutWait: the copying is over, or the pty's takes too long.
ProcessReturns ==
  /\ runPc = "process" /\ Done
  /\ cfg.pty \/ pipe = <<>>
  /\ runPc' = "stopping"
  /\ ProcUnchanged /\ UNCHANGED <<reason, procVars, outVars>>

\* The flags are read one after the other.  A bootstrap that failed in its
\* set-up exits with a status of its own.
ReadStopping ==
  /\ runPc = "stopping"
  /\ IF agentStopping THEN reason' = "agent_stop" /\ runPc' = "cleanup"
     ELSE reason' \in {"none", "run_error"} /\ runPc' = "cancelled"
  /\ ProcUnchanged /\ UNCHANGED <<procVars, outVars>>

MutReadCancelled ==
  /\ runPc = "cancelled"
  /\ reason' = IF cancelled /\ reason = "none" THEN "cancel" ELSE reason
  /\ runPc' = "cleanup"
  /\ ProcUnchanged /\ UNCHANGED <<procVars, outVars>>

ReadCancelled ==
  /\ runPc = "cancelled"
  /\ reason' = IF cancelled THEN "cancel" ELSE reason
  /\ runPc' = "cleanup"
  /\ ProcUnchanged /\ UNCHANGED <<procVars, outVars>>

-----------------------------------------------------------------------------
(* LogStreamer.  Process takes the mutex and queues one chunk at a time.   *)

\* The next chunk of what is left, and what is left after it.
MutNextChunk(left) == [seq |-> order,
                       data |-> SubSeq(left, 1, IF Len(left) < MaxChunk
                                                THEN Len(left) ELSE MaxChunk)]

NextChunk(left) == [seq |-> order + 1,
                    data |-> SubSeq(left, 1, IF Len(left) < MaxChunk
                                             THEN Len(left) ELSE MaxChunk)]
Rest(left) == SubSeq(left, MaxChunk + 1, Len(left))

Enqueue(left) ==
  /\ left # <<>> /\ Len(queue) < QueueSize
  /\ queue' = Append(queue, NextChunk(left))
  /\ order' = order + 1

WorkerTakes ==
  /\ queue # <<>> /\ Cardinality(uploading) < Workers
  /\ uploading' = uploading \cup {Head(queue)}
  /\ queue' = Tail(queue)
  /\ UNCHANGED <<runVars, procVars, outVars, strVars, final, overtaken, mutex,
                 order, stopped, sent, cancelVars, hdrVars>>

\* UploadChunk, its retries included: done, or given up and counted.
WorkerUploads ==
  /\ \E c \in uploading : uploading' = uploading \ {c} /\ sent' = sent \cup {c}
  /\ UNCHANGED <<runVars, procVars, outVars, strVars, final, overtaken, mutex,
                 order, queue, stopped, cancelVars, hdrVars>>

-----------------------------------------------------------------------------
(* streamJobLogsAfterProcessStart.                                         *)

StreamUnchanged == UNCHANGED <<runVars, procVars, wrote, pipe, pwClosed, final,
                               stopped, uploading, sent,
                               cancelVars, hdrVars>>

StreamWakes ==
  /\ strPc = "wait"
  /\ \/ Started /\ strPc' = "tick"
     \/ cctxDone /\ strPc' = "gone"
  /\ StreamUnchanged /\ UNCHANGED <<overtaken, out, outClosed, held, mutex, order, queue>>

\* The buffer is emptied before the mutex is taken.
StreamTakes ==
  /\ strPc = "tick" /\ out # <<>>
  /\ held' = out /\ out' = <<>>
  /\ strPc' = "lock"
  /\ overtaken' = (overtaken \/ runPc = "lock")
  /\ StreamUnchanged /\ UNCHANGED <<outClosed, mutex, order, queue>>

\* A stopped streamer refuses, and the goroutine closes the buffer.
StreamLocks ==
  /\ strPc = "lock" /\ mutex = "free"
  /\ IF stopped
     THEN /\ held' = <<>> /\ outClosed' = TRUE /\ strPc' = "gone"
          /\ UNCHANGED mutex
     ELSE /\ mutex' = "stream" /\ strPc' = "push"
          /\ UNCHANGED <<held, outClosed>>
  /\ StreamUnchanged /\ UNCHANGED <<overtaken, out, order, queue>>

StreamPushes ==
  /\ strPc = "push"
  /\ Enqueue(held)
  /\ held' = Rest(held)
  /\ IF held' = <<>> THEN mutex' = "free" /\ strPc' = "tick"
                     ELSE UNCHANGED <<mutex, strPc>>
  /\ StreamUnchanged /\ UNCHANGED <<overtaken, out, outClosed>>

\* The cancelled context drops a numbered chunk and what is left with it.
StreamDrops ==
  /\ strPc = "push" /\ cctxDone
  /\ order' = order + 1 /\ held' = <<>>
  /\ mutex' = "free" /\ outClosed' = TRUE
  /\ strPc' = "gone"
  /\ StreamUnchanged /\ UNCHANGED <<overtaken, out, queue>>

StreamEnds ==
  /\ strPc = "tick" /\ (cctxDone \/ Done)
  /\ strPc' = "gone"
  /\ StreamUnchanged /\ UNCHANGED <<overtaken, out, outClosed, held, mutex, order, queue>>

-----------------------------------------------------------------------------
(* cleanup.                                                                *)

CleanUnchanged == UNCHANGED <<cfg, reason, procVars, wrote, pipe, outClosed,
                              pwClosed, strVars, uploading, sent,
                              cancelVars>>

\* The helpers are cancelled and the buffer is emptied.
MutFlush ==
  /\ runPc = "cleanup"
  /\ cctxDone' = TRUE
  /\ final' = <<>> /\ UNCHANGED out
  /\ runPc' = "lock"
  /\ CleanUnchanged
  /\ UNCHANGED <<envFiles, overtaken, mutex, order, queue, stopped, hdrVars>>

Flush ==
  /\ runPc = "cleanup"
  /\ cctxDone' = TRUE
  /\ final' = out /\ out' = <<>>
  /\ runPc' = "lock"
  /\ CleanUnchanged
  /\ UNCHANGED <<envFiles, overtaken, mutex, order, queue, stopped, hdrVars>>

MutFlushLocks ==
  /\ runPc = "lock"
  /\ IF final = <<>> THEN runPc' = "stop" /\ UNCHANGED mutex
                     ELSE runPc' = "push" /\ mutex' = "main"
  /\ overtaken' = (overtaken \/ strPc = "lock")
  /\ CleanUnchanged
  /\ UNCHANGED <<cctxDone, envFiles, out, final, order, queue, stopped, hdrVars>>

FlushLocks ==
  /\ runPc = "lock" /\ mutex = "free"
  /\ IF final = <<>> THEN runPc' = "stop" /\ UNCHANGED mutex
                     ELSE runPc' = "push" /\ mutex' = "main"
  /\ overtaken' = (overtaken \/ strPc = "lock")
  /\ CleanUnchanged
  /\ UNCHANGED <<cctxDone, envFiles, out, final, order, queue, stopped, hdrVars>>

FlushPushes ==
  /\ runPc = "push"
  /\ Enqueue(final)
  /\ final' = Rest(final)
  /\ IF final' = <<>> THEN mutex' = "free" /\ runPc' = "stop"
                      ELSE UNCHANGED <<mutex, runPc>>
  /\ CleanUnchanged
  /\ UNCHANGED <<cctxDone, envFiles, out, overtaken, stopped, hdrVars>>

\* Stop closes the queue under the mutex and waits for the workers.
StopStreamer ==
  /\ runPc = "stop" /\ mutex = "free"
  /\ stopped' = TRUE /\ runPc' = "drain"
  /\ CleanUnchanged
  /\ UNCHANGED <<cctxDone, envFiles, out, final, overtaken, mutex, order,
                 queue, hdrVars>>

WorkersDone ==
  /\ runPc = "drain" /\ queue = <<>> /\ uploading = {}
  /\ runPc' = "header"
  /\ CleanUnchanged
  /\ UNCHANGED <<cctxDone, envFiles, out, final, overtaken, mutex, order,
                 queue, stopped, hdrVars>>

\* A streamer whose goroutine has not begun yet counts as stopped.
StopHeaderTimes ==
  /\ runPc = "header"
  /\ runPc' = IF hdrStreaming THEN "headerWait" ELSE "join"
  /\ hdrStreaming' = FALSE
  /\ CleanUnchanged
  /\ UNCHANGED <<cctxDone, envFiles, out, final, overtaken, mutex, order,
                 queue, stopped, hdrPc>>

HeaderTimesDone ==
  /\ runPc = "headerWait" /\ hdrPc = "gone"
  /\ runPc' = "join"
  /\ CleanUnchanged
  /\ UNCHANGED <<cctxDone, envFiles, out, final, overtaken, mutex, order,
                 queue, stopped, hdrVars>>

\* wg.Wait; the env files are removed and the job is finished.
MutFinishJob ==
  /\ runPc = "join"
  /\ envFiles' = FALSE
  /\ runPc' = "done"
  /\ CleanUnchanged
  /\ UNCHANGED <<cctxDone, out, final, overtaken, mutex, order, queue, stopped,
                 hdrVars>>

FinishJob ==
  /\ runPc = "join" /\ {strPc, chkPc} \subseteq {"off", "gone"}
  /\ envFiles' = FALSE
  /\ runPc' = "done"
  /\ CleanUnchanged
  /\ UNCHANGED <<cctxDone, out, final, overtaken, mutex, order, queue, stopped,
                 hdrVars>>

-----------------------------------------------------------------------------
(* The header times streamer's goroutine.                                  *)

HeaderTimesRun ==
  /\ hdrPc = "new"
  /\ hdrPc' = "run" /\ hdrStreaming' = TRUE
  /\ UNCHANGED <<runVars, procVars, outVars, strVars, logVars, cancelVars>>

\* The channel is closed: what is left is uploaded.
HeaderTimesEnd ==
  /\ hdrPc = "run" /\ ~hdrStreaming
  /\ hdrPc' = "gone"
  /\ UNCHANGED <<runVars, procVars, outVars, strVars, logVars, cancelVars,
                 hdrStreaming>>

-----------------------------------------------------------------------------
(* jobCancellationChecker and Cancel.                                      *)

CancelUnchanged == UNCHANGED <<runVars, outVars, strVars, logVars, hdrVars>>

CheckerWakes ==
  /\ chkPc = "wait"
  /\ \/ Started /\ chkPc' = "poll"
     \/ cctxDone /\ chkPc' = "gone"
  /\ CancelUnchanged
  /\ UNCHANGED <<procVars, cancelPc, cancelBy, cancelled, agentStopping>>

\* Buildkite says cancelled, or rejects the token.  To cancel a second time
\* changes nothing, unless the lock is held.
CheckerSeesCancel ==
  /\ chkPc = "poll" /\ (~cancelled \/ cancelPc # "none")
  /\ chkPc' = "cancel"
  /\ CancelUnchanged
  /\ UNCHANGED <<procVars, cancelPc, cancelBy, cancelled, agentStopping>>

CheckerEnds ==
  /\ chkPc = "poll" /\ (cctxDone \/ Done)
  /\ chkPc' = "gone"
  /\ CancelUnchanged
  /\ UNCHANGED <<procVars, cancelPc, cancelBy, cancelled, agentStopping>>

\* Cancel takes the lock; a second cancellation returns at once.
Cancel(by) ==
  /\ cancelPc = "none"
  /\ agentStopping' = (agentStopping \/ by = "agent")
  /\ cancelled' = TRUE
  /\ cancelPc' = IF cancelled THEN "none" ELSE "interrupt"
  /\ cancelBy' = IF cancelled THEN "none" ELSE by
  /\ chkPc' = IF cancelled /\ by = "checker" THEN "poll" ELSE chkPc
  /\ CancelUnchanged /\ UNCHANGED procVars

CheckerCancels == chkPc = "cancel" /\ cancelBy # "checker" /\ Cancel("checker")

\* StopUngracefully, of the signal handler or of the heartbeat loop.
AgentCancels == runPc \notin {"done", "error"} /\ ~agentStopping /\ Cancel("agent")

\* A signal for the process group p.pid.  Between fork and RecordPid p.pid is
\* still 0 and command.Process is read without a lock: nothing is sent, or
\* the agent's own group gets it, but not the job.
Send(sig) == signal' = IF proc = "running" THEN sig ELSE signal

CancelInterrupts ==
  /\ cancelPc = "interrupt"
  /\ Send("interrupt")
  /\ cancelPc' = "grace"
  /\ CancelUnchanged
  /\ UNCHANGED <<proc, chkPc, cancelBy, cancelled, agentStopping>>

CancelReturns ==
  /\ cancelPc' = "none" /\ cancelBy' = "none"
  /\ chkPc' = IF cancelBy = "checker" THEN "poll" ELSE chkPc
  /\ CancelUnchanged /\ UNCHANGED <<proc, cancelled, agentStopping>>

GraceDone ==
  /\ cancelPc = "grace" /\ Done
  /\ CancelReturns /\ UNCHANGED signal

MutGraceOver ==
  /\ cancelPc = "grace"
  /\ CancelReturns /\ UNCHANGED signal

GraceOver ==
  /\ cancelPc = "grace"
  /\ Send("kill")
  /\ CancelReturns

-----------------------------------------------------------------------------

Run == Begin \/ StartJob \/ Refuse \/ RunProcess \/ ProcessFails \/ Fork
       \/ RecordPid \/ Reap \/ ProcessReturns \/ ReadStopping \/ ReadCancelled
       \/ Flush \/ FlushLocks \/ FlushPushes \/ StopStreamer \/ WorkersDone \/ StopHeaderTimes
       \/ HeaderTimesDone \/ FinishJob
Process == ProcessWrites \/ ProcessDies
StreamLoop == StreamWakes \/ StreamTakes \/ StreamLocks \/ StreamPushes
              \/ StreamDrops \/ StreamEnds
UploadWorkers == WorkerTakes \/ WorkerUploads
HeaderTimes == HeaderTimesRun \/ HeaderTimesEnd
Checker == CheckerWakes \/ CheckerSeesCancel \/ CheckerEnds \/ CheckerCancels
Cancelling == CancelInterrupts \/ GraceDone \/ GraceOver

Next == Run \/ Process \/ CopyOutput \/ ClosePipe \/ StreamLoop \/ UploadWorkers
        \/ HeaderTimes \/ Checker \/ AgentCancels \/ Cancelling

Spec == Init /\ [][Next]_vars

\* Every goroutine runs, uploads return, mutexes are fair and a killed process
\* dies.  A job may run for ever, and nobody has to cancel it.
Fairness ==
  /\ WF_vars(Run) /\ WF_vars(CopyOutput) /\ WF_vars(UploadWorkers)
  /\ WF_vars(HeaderTimes)
  /\ WF_vars(StreamLoop)
  /\ WF_vars(CheckerWakes \/ CheckerEnds \/ CheckerCancels)
  /\ WF_vars(Cancelling)
  /\ WF_vars(signal = "kill" /\ ProcessDies)

FairSpec == Spec /\ Fairness

-----------------------------------------------------------------------------
(* Properties.                                                             *)

Reached(c) == {c.data[i] : i \in DOMAIN c.data}

\* When the job is reported finished all of its output has been uploaded or
\* counted as failed.  The exceptions: the streaming goroutine was refused
\* with output in hand and closed the buffer, and a pty whose copying Done
\* or the time-out cut short.
LogComplete ==
  runPc = "done" /\ ~outClosed /\ ~cfg.pty
    => UNION {Reached(c) : c \in sent} = 1..wrote

\* Chunk numbers follow the output, unless the final flush overtook the
\* streaming goroutine on its way to the mutex.
LogInOrder ==
  \A c, d \in sent \cup uploading :
    c.seq < d.seq /\ ~overtaken
      => \A i \in Reached(c), j \in Reached(d) : i < j

\* "Once we tell the API we're finished it might assign us new work, so make
\* sure everything else is done first": no helper, no chunk, no env file is
\* left, and a process that ran is gone.
FinishComesLast ==
  runPc = "done" =>
    /\ {strPc, chkPc} \subseteq {"off", "gone"}
    /\ queue = <<>> /\ uploading = {}
    /\ ~envFiles
    /\ proc \in {"none", "failed", "reaped"}

\* A job that was signalled is reported as cancelled or stopped, never as one
\* that failed by itself, and no other job is reported so.
ReasonHonest ==
  runPc = "done" =>
    /\ signal # "none" => reason \in {"cancel", "agent_stop"}
    /\ reason = "cancel" => cancelled
    /\ reason = "agent_stop" => agentStopping
    /\ reason = "refused" => proc = "none"

\* A job that is refused, cannot be started, ends or is interrupted is
\* reported finished.
JobFinishes ==
  (reason = "refused" \/ proc \in {"failed", "dead"} \/ signal # "none")
    ~> runPc = "done"

\* Cancel ends the job: it is interrupted, and terminated after the grace
\* period.
CancelEndsJob == cancelled ~> runPc \in {"done", "error"}
=============================================================================
