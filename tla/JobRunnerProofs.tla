-------------------------- MODULE JobRunnerProofs ---------------------------
(***************************************************************************)
(* Proofs, for any amount of output, chunk size, queue and number of       *)
(* upload workers, of the safety properties of one job: FinishJob comes    *)
(* last, the reason it reports is honest, and the log is complete and in   *)
(* order, short of the exceptions the properties name.                     *)
(***************************************************************************)
EXTENDS JobRunner, SequenceTheorems, FiniteSetTheorems, TLAPS

\* The leaves are for Zenon, but for those that name another prover.
USE Zenon

-----------------------------------------------------------------------------
(* Run, its helpers and Cancel *)

Early == {"begin", "startJob", "checks"}
Ending == {"cleanup", "lock", "push", "stop", "drain", "header", "headerWait", "join", "done"}
Drained == {"header", "headerWait", "join", "done"}

\* The process and the helpers exist only between the checks and cleanup, or
\* are on their way out.
HelperInv ==
  /\ runPc \in Early \cup {"error"} => strPc = "off" /\ chkPc = "off" /\ proc = "none"
  /\ runPc # "process" => proc \in {"none", "failed", "reaped"}
  /\ cancelBy = "checker" => chkPc = "cancel"
  /\ runPc = "done" => {strPc, chkPc} \subseteq {"off", "gone"} /\ ~envFiles

\* The mutex is held by who queues chunks, and nothing is queued after Stop.
StreamerInv ==
  /\ strPc = "push" <=> mutex = "stream"
  /\ runPc = "push" <=> mutex = "main"
  /\ stopped => strPc # "push"
  /\ runPc \in Drained \cup {"drain"} <=> stopped
  /\ runPc \in Drained => queue = <<>> /\ uploading = {}

\* A signal reaches a running process only, and comes from a cancellation.
ReasonInv ==
  /\ cancelPc # "none" => cancelled
  /\ signal # "none" => cancelled /\ proc \in {"running", "dead", "reaped"}
  /\ runPc \in Early \cup {"process", "stopping", "error"} => reason = "none"
  /\ runPc = "cancelled" => reason \in {"none", "run_error"}
  /\ runPc \in Ending /\ signal # "none" => reason \in {"cancel", "agent_stop"}
  /\ reason = "cancel" => cancelled
  /\ reason = "agent_stop" => agentStopping
  /\ reason = "refused" => proc = "none"

RunInv == HelperInv /\ StreamerInv /\ ReasonInv

\* Before Run.
LEMMA RunInit == Init => RunInv
  BY DEF Init, RunInv, HelperInv, StreamerInv, ReasonInv, Early, Ending, Drained

\* The helpers and the process.
LEMMA HelperStep == RunInv /\ [Next]_vars => HelperInv'
<1> SUFFICES ASSUME RunInv, [Next]_vars PROVE HelperInv'
  OBVIOUS
<1>1. HelperInv
  BY DEF RunInv
<1> USE DEF HelperInv, Early
<1>2. CASE Begin \/ StartJob \/ Refuse \/ RunProcess
  BY <1>1, <1>2 DEF Begin, StartJob, Refuse, RunProcess, procVars, strVars, cancelVars
<1>3. CASE ProcessFails \/ Fork \/ RecordPid \/ Reap \/ ProcessReturns
  BY <1>1, <1>3 DEF ProcessFails, Fork, RecordPid, Reap, ProcessReturns, ProcUnchanged, Done,
     procVars, strVars, cancelVars
<1>4. CASE ReadStopping \/ ReadCancelled \/ Process \/ CopyOutput \/ ClosePipe
  BY <1>1, <1>4, SMT DEF ReadStopping, ReadCancelled, Process, ProcessWrites, ProcessDies, CopyOutput,
     ClosePipe, ProcUnchanged, procVars, strVars, cancelVars
<1>5. CASE Flush \/ FlushLocks \/ FlushPushes \/ StopStreamer \/ WorkersDone
  BY <1>1, <1>5 DEF Flush, FlushLocks, FlushPushes, StopStreamer, WorkersDone, CleanUnchanged,
     procVars, strVars, cancelVars
<1>6. CASE StopHeaderTimes \/ HeaderTimesDone \/ FinishJob
  BY <1>1, <1>6 DEF StopHeaderTimes, HeaderTimesDone, FinishJob, CleanUnchanged, procVars,
     strVars, cancelVars
<1>7. CASE StreamLoop
  BY <1>1, <1>7 DEF StreamLoop, StreamWakes, StreamTakes, StreamLocks, StreamPushes, StreamDrops,
     StreamEnds, StreamUnchanged, runVars, procVars, cancelVars
<1>8. CASE UploadWorkers \/ HeaderTimes \/ UNCHANGED vars
  BY <1>1, <1>8, SMT DEF UploadWorkers, WorkerTakes, WorkerUploads, HeaderTimes, HeaderTimesRun,
     HeaderTimesEnd, vars, runVars, procVars, strVars, cancelVars
<1>9. CASE Checker \/ AgentCancels
  BY <1>1, <1>9 DEF Checker, CheckerWakes, CheckerSeesCancel, CheckerEnds, CheckerCancels,
     AgentCancels, Cancel, CancelUnchanged, runVars, procVars, strVars
<1>10. CASE Cancelling
  BY <1>1, <1>10, SMT DEF Cancelling, CancelInterrupts, GraceDone, GraceOver, CancelReturns,
     CancelUnchanged, runVars, strVars
<1> QED
  BY <1>2, <1>3, <1>4, <1>5, <1>6, <1>7, <1>8, <1>9, <1>10 DEF Next, Run

\* The log streamer and its mutex.
LEMMA StreamerStep == RunInv /\ [Next]_vars => StreamerInv'
<1> SUFFICES ASSUME RunInv, [Next]_vars PROVE StreamerInv'
  OBVIOUS
<1>1. StreamerInv /\ HelperInv
  BY DEF RunInv
<1> USE DEF StreamerInv, Drained
<1>2. CASE Begin \/ StartJob \/ Refuse \/ RunProcess
  BY <1>1, <1>2, SMT DEF Begin, StartJob, Refuse, RunProcess, strVars, logVars, HelperInv, Early
<1>3. CASE \/ ProcessFails \/ Fork \/ RecordPid \/ Reap \/ ProcessReturns
           \/ ReadStopping \/ ReadCancelled \/ Process \/ CopyOutput \/ ClosePipe
  <2>1. /\ UNCHANGED <<strPc, mutex, stopped, queue, uploading>>
        /\ \/ runPc' = runPc
           \/ /\ runPc \in {"process", "stopping", "cancelled"}
              /\ runPc' \in {"stopping", "cancelled", "cleanup"}
    BY <1>3 DEF ProcessFails, Fork, RecordPid, Reap, ProcessReturns, ReadStopping, ReadCancelled,
       Process, ProcessWrites, ProcessDies, CopyOutput, ClosePipe, ProcUnchanged, strVars, logVars
  <2> QED
    BY <1>1, <2>1
<1>4. CASE Flush \/ FlushLocks \/ StopStreamer \/ WorkersDone
  BY <1>1, <1>4, SMT DEF Flush, FlushLocks, StopStreamer, WorkersDone, CleanUnchanged, strVars
<1>5. CASE FlushPushes
  BY <1>1, <1>5 DEF FlushPushes, CleanUnchanged, strVars
<1>6. CASE StopHeaderTimes \/ HeaderTimesDone \/ FinishJob
  BY <1>1, <1>6 DEF StopHeaderTimes, HeaderTimesDone, FinishJob, CleanUnchanged, strVars
<1>7. CASE StreamWakes \/ StreamTakes \/ StreamLocks \/ StreamDrops \/ StreamEnds
  BY <1>1, <1>7, SMT DEF StreamWakes, StreamTakes, StreamLocks, StreamDrops, StreamEnds,
     StreamUnchanged, runVars
<1>8. CASE StreamPushes
  BY <1>1, <1>8 DEF StreamPushes, StreamUnchanged, runVars
<1>9. CASE UploadWorkers
  BY <1>1, <1>9, SMT DEF UploadWorkers, WorkerTakes, WorkerUploads, runVars, strVars
<1>10. CASE HeaderTimes \/ Checker \/ AgentCancels \/ Cancelling \/ UNCHANGED vars
  <2>1. UNCHANGED <<runPc, strPc, mutex, stopped, queue, uploading>>
    BY <1>10 DEF HeaderTimes, HeaderTimesRun, HeaderTimesEnd, Checker, CheckerWakes,
       CheckerSeesCancel, CheckerEnds, CheckerCancels, AgentCancels, Cancel, Cancelling,
       CancelInterrupts, GraceDone, GraceOver, CancelReturns, CancelUnchanged, vars, runVars,
       strVars, logVars
  <2> QED
    BY <1>1, <2>1
<1> QED
  BY <1>2, <1>3, <1>4, <1>5, <1>6, <1>7, <1>8, <1>9, <1>10 DEF Next, Run, StreamLoop

\* The reason and the signals.
LEMMA ReasonStep == RunInv /\ [Next]_vars => ReasonInv'
<1> SUFFICES ASSUME RunInv, [Next]_vars PROVE ReasonInv'
  OBVIOUS
<1>1. ReasonInv /\ HelperInv
  BY DEF RunInv
<1> USE DEF ReasonInv, Early, Ending
<1>2. CASE Begin \/ StartJob \/ Refuse \/ RunProcess
  BY <1>1, <1>2 DEF Begin, StartJob, Refuse, RunProcess, procVars, cancelVars, HelperInv
<1>3. CASE ProcessFails \/ Fork \/ RecordPid \/ Reap \/ ProcessReturns \/ Process
  BY <1>1, <1>3 DEF ProcessFails, Fork, RecordPid, Reap, ProcessReturns, Process, ProcessWrites,
     ProcessDies, ProcUnchanged, procVars, cancelVars, HelperInv
<1>4. CASE ReadStopping \/ ReadCancelled \/ CopyOutput \/ ClosePipe
  BY <1>1, <1>4 DEF ReadStopping, ReadCancelled, CopyOutput, ClosePipe, ProcUnchanged, procVars,
     cancelVars
<1>5. CASE Flush \/ FlushLocks \/ FlushPushes \/ StopStreamer \/ WorkersDone
  BY <1>1, <1>5 DEF Flush, FlushLocks, FlushPushes, StopStreamer, WorkersDone, CleanUnchanged,
     procVars, cancelVars
<1>6. CASE StopHeaderTimes \/ HeaderTimesDone \/ FinishJob
  BY <1>1, <1>6 DEF StopHeaderTimes, HeaderTimesDone, FinishJob, CleanUnchanged, procVars,
     cancelVars
<1>7. CASE StreamLoop \/ UploadWorkers \/ HeaderTimes \/ UNCHANGED vars
  <2>1. CASE StreamLoop
    BY <1>1, <2>1 DEF StreamLoop, StreamWakes, StreamTakes, StreamLocks, StreamPushes,
       StreamDrops, StreamEnds, StreamUnchanged, runVars, procVars, cancelVars
  <2>2. CASE UploadWorkers
    BY <1>1, <2>2 DEF UploadWorkers, WorkerTakes, WorkerUploads, runVars, procVars, cancelVars
  <2>3. CASE HeaderTimes \/ UNCHANGED vars
    BY <1>1, <2>3 DEF HeaderTimes, HeaderTimesRun, HeaderTimesEnd, vars, runVars, procVars,
       cancelVars
  <2> QED
    BY <1>7, <2>1, <2>2, <2>3
<1>8. CASE Checker \/ AgentCancels
  BY <1>1, <1>8 DEF Checker, CheckerWakes, CheckerSeesCancel, CheckerEnds, CheckerCancels,
     AgentCancels, Cancel, CancelUnchanged, runVars, procVars
<1>9. CASE Cancelling
  BY <1>1, <1>9 DEF Cancelling, CancelInterrupts, GraceDone, GraceOver, CancelReturns, Send,
     CancelUnchanged, runVars, HelperInv
<1> QED
  BY <1>2, <1>3, <1>4, <1>5, <1>6, <1>7, <1>8, <1>9 DEF Next, Run

\* The invariant holds throughout.
LEMMA RunInvariant == Spec => []RunInv
<1>1. RunInv /\ [Next]_vars => RunInv'
  BY HelperStep, StreamerStep, ReasonStep DEF RunInv
<1> QED
  BY <1>1, RunInit, PTL DEF Spec

\* Nothing of the job is left when FinishJob tells Buildkite that it is over.
THEOREM FinishIsLast == Spec => []FinishComesLast
<1>1. RunInv => FinishComesLast
  BY DEF RunInv, HelperInv, StreamerInv, Drained, FinishComesLast
<1> QED
  BY <1>1, RunInvariant, PTL

\* The signal reason FinishJob reports is that of a cancelled or stopped job
\* exactly when the process was signalled or the flags say so.
THEOREM ReasonIsHonest == Spec => []ReasonHonest
<1>1. RunInv => ReasonHonest
  BY DEF RunInv, ReasonInv, Ending, ReasonHonest
<1> QED
  BY <1>1, RunInvariant, PTL

-----------------------------------------------------------------------------
(* Pieces of output in sequences and chunks *)

Items(s) == {s[i] : i \in 1..Len(s)}
Sorted(s) == \A i, j \in 1..Len(s) : i < j => s[i] < s[j]
Below(S, T) == \A i \in S : \A j \in T : i < j

\* Appending a later piece.
LEMMA Appending ==
  ASSUME NEW S, NEW s \in Seq(S), NEW x \in S
  PROVE  Append(s, x) \in Seq(S) /\ Items(Append(s, x)) = Items(s) \cup {x}
<1> DEFINE t == Append(s, x)
<1>1. /\ t \in Seq(S) /\ Len(t) = Len(s) + 1 /\ t[Len(s) + 1] = x /\ Len(s) \in Nat
      /\ \A i \in 1..Len(s) : t[i] = s[i]
  BY AppendProperties, LenProperties, SMT
<1> HIDE DEF t
<1>2. Items(t) \subseteq Items(s) \cup {x}
  BY <1>1, SMT DEF Items
<1>3. Items(s) \cup {x} \subseteq Items(t)
  BY <1>1, SMT DEF Items
<1> QED
  BY <1>1, <1>2, <1>3 DEF t

\* A sorted sequence stays so.
LEMMA AppendSorted ==
  ASSUME NEW s \in Seq(Nat), NEW x \in Nat, Sorted(s), Below(Items(s), {x})
  PROVE  Sorted(Append(s, x))
<1> DEFINE t == Append(s, x)
<1>1. /\ Len(t) = Len(s) + 1 /\ t[Len(s) + 1] = x /\ Len(s) \in Nat
      /\ \A i \in 1..Len(s) : t[i] = s[i]
  BY AppendProperties, LenProperties, SMT
<1>2. \A i \in 1..Len(s) : s[i] < x
  BY DEF Below, Items
<1> HIDE DEF t
<1>3. ASSUME NEW i \in 1..Len(t), NEW j \in 1..Len(t), i < j
      PROVE  t[i] < t[j]
  <2>1. CASE j = Len(s) + 1
    BY <1>1, <1>2, <1>3, <2>1, SMT
  <2>2. CASE j # Len(s) + 1
    <3>1. i \in 1..Len(s) /\ j \in 1..Len(s)
      BY <1>1, <1>3, <2>2, SMT
    <3> QED
      BY <1>1, <1>3, <3>1 DEF Sorted
  <2> QED
    BY <2>1, <2>2
<1> QED
  BY <1>3 DEF Sorted, t

\* Taking the first item.
LEMMA TakingFirst ==
  ASSUME NEW S, NEW s \in Seq(S), s # <<>>
  PROVE  Head(s) \in S /\ Tail(s) \in Seq(S) /\ Items(s) = {Head(s)} \cup Items(Tail(s))
<1> DEFINE t == Tail(s)
<1>1. /\ Head(s) \in S /\ t \in Seq(S) /\ Len(t) = Len(s) - 1 /\ Len(s) \in Nat \ {0}
      /\ \A i \in 1..Len(t) : t[i] = s[i + 1]
  BY HeadTailProperties, EmptySeq
<1>2. Head(s) = s[1]
  BY SMT
<1> HIDE DEF t
<1>3. ASSUME NEW y \in Items(s) PROVE y \in {Head(s)} \cup Items(t)
  <2>1. PICK i \in 1..Len(s) : y = s[i]
    BY DEF Items
  <2>2. CASE i # 1
    <3>1. i - 1 \in 1..Len(t) /\ t[i - 1] = y
      BY <1>1, <2>1, <2>2, SMT
    <3> QED
      BY <3>1 DEF Items
  <2> QED
    BY <1>2, <2>1, <2>2
<1>4. {Head(s)} \cup Items(t) \subseteq Items(s)
  BY <1>1, <1>2, SMT DEF Items
<1> QED
  BY <1>1, <1>3, <1>4 DEF t

\* It is below the others.
LEMMA FirstIsLeast ==
  ASSUME NEW s \in Seq(Nat), s # <<>>, Sorted(s)
  PROVE  Sorted(Tail(s)) /\ Below({Head(s)}, Items(Tail(s)))
<1> DEFINE t == Tail(s)
<1>1. /\ Len(t) = Len(s) - 1 /\ Len(s) \in Nat \ {0}
      /\ \A i \in 1..Len(t) : t[i] = s[i + 1]
  BY HeadTailProperties, EmptySeq
<1>2. Head(s) = s[1]
  BY SMT
<1> HIDE DEF t
<1>3. ASSUME NEW i \in 1..Len(t) PROVE i + 1 \in 1..Len(s) /\ t[i] = s[i + 1]
  BY <1>1, SMT
<1>4. ASSUME NEW i \in 1..Len(t), NEW j \in 1..Len(t), i < j PROVE t[i] < t[j]
  <2>1. i + 1 < j + 1
    BY <1>1, <1>4, SMT
  <2> QED
    BY <1>3, <2>1 DEF Sorted
<1>5. ASSUME NEW i \in 1..Len(t) PROVE Head(s) < t[i]
  <2>1. 1 \in 1..Len(s) /\ 1 < i + 1
    BY <1>1, SMT
  <2> QED
    BY <1>2, <1>3, <2>1 DEF Sorted
<1> QED
  BY <1>4, <1>5 DEF t, Sorted, Below, Items

\* A chunk and what is left after it: SubSeq(s, 1, n) and the rest.
LEMMA Cutting ==
  ASSUME NEW s \in Seq(Nat), NEW m \in Nat \ {0}, Sorted(s),
         NEW n \in Nat, n = IF Len(s) < m THEN Len(s) ELSE m
  PROVE  /\ SubSeq(s, 1, n) \in Seq(Nat) /\ SubSeq(s, m + 1, Len(s)) \in Seq(Nat)
         /\ Items(s) = Items(SubSeq(s, 1, n)) \cup Items(SubSeq(s, m + 1, Len(s)))
         /\ Sorted(SubSeq(s, m + 1, Len(s)))
         /\ Below(Items(SubSeq(s, 1, n)), Items(SubSeq(s, m + 1, Len(s))))
<1> DEFINE a == SubSeq(s, 1, n)
           b == SubSeq(s, m + 1, Len(s))
<1>1. Len(s) \in Nat /\ \A i \in 1..Len(s) : s[i] \in Nat
  BY LenProperties
<1>2. /\ a \in Seq(Nat) /\ Len(a) = n /\ \A i \in 1..n : a[i] = s[i]
  <2>1. \A i \in 1..n : s[i] \in Nat
    BY <1>1, SMT
  <2>2. /\ a \in Seq(Nat) /\ Len(a) = IF 1 <= n THEN n - 1 + 1 ELSE 0
        /\ \A i \in 1..(n - 1 + 1) : a[i] = s[1 + i - 1]
    BY <2>1, SubSeqProperties, SMT
  <2> QED
    BY <2>2, SMT
<1>3. /\ b \in Seq(Nat) /\ Len(b) = (IF m < Len(s) THEN Len(s) - m ELSE 0)
      /\ \A i \in 1..Len(b) : b[i] = s[m + i]
  <2>1. \A i \in (m + 1)..Len(s) : s[i] \in Nat
    BY <1>1, SMT
  <2>2. /\ b \in Seq(Nat) /\ Len(b) = IF m + 1 <= Len(s) THEN Len(s) - (m + 1) + 1 ELSE 0
        /\ \A i \in 1..(Len(s) - (m + 1) + 1) : b[i] = s[m + 1 + i - 1]
    BY <1>1, <2>1, SubSeqProperties, SMT
  <2> QED
    BY <1>1, <2>2, SMT
<1> HIDE DEF a, b
<1>4. Items(a) \cup Items(b) \subseteq Items(s)
  <2>1. ASSUME NEW i \in 1..n PROVE a[i] \in Items(s)
    BY <1>1, <1>2, SMT DEF Items
  <2>2. ASSUME NEW i \in 1..Len(b) PROVE b[i] \in Items(s)
    <3>1. m + i \in 1..Len(s) /\ b[i] = s[m + i]
      BY <1>1, <1>3, SMT
    <3> QED
      BY <3>1 DEF Items
  <2> QED
    BY <1>2, <2>1, <2>2 DEF Items
<1>5. ASSUME NEW y \in Items(s) PROVE y \in Items(a) \cup Items(b)
  <2>1. PICK i \in 1..Len(s) : y = s[i]
    BY DEF Items
  <2>2. CASE i <= n
    <3>1. i \in 1..n
      BY <2>1, <2>2, SMT
    <3>2. i \in 1..Len(a) /\ a[i] = y
      BY <1>2, <2>1, <3>1
    <3> QED
      BY <3>2 DEF Items
  <2>3. CASE ~(i <= n)
    <3>1. i - m \in 1..Len(b) /\ b[i - m] = y
      BY <1>1, <1>3, <2>1, <2>3, SMT
    <3> QED
      BY <3>1 DEF Items
  <2> QED
    BY <2>2, <2>3
<1>6. Sorted(b)
  BY <1>1, <1>3, SMT DEF Sorted
<1>7. Below(Items(a), Items(b))
  <2> SUFFICES ASSUME NEW i \in 1..n, NEW j \in 1..Len(b) PROVE a[i] < b[j]
    BY <1>2 DEF Below, Items
  <2>1. i \in 1..Len(s) /\ m + j \in 1..Len(s) /\ i < m + j
    BY <1>1, <1>3, SMT
  <2> QED
    BY <1>2, <1>3, <2>1 DEF Sorted
<1> QED
  BY <1>2, <1>3, <1>4, <1>5, <1>6, <1>7 DEF a, b

-----------------------------------------------------------------------------
(* Where the output is *)

LogChunk == [seq : Nat, data : Seq(Nat)]
Chunks == sent \cup uploading \cup Items(queue)
Logged == UNION {Reached(c) : c \in Chunks}
Taken == Logged \cup Items(held) \cup Items(final)
AllPieces == Taken \cup Items(out) \cup Items(pipe)

LogTypes ==
  /\ wrote \in Nat /\ order \in Nat
  /\ pipe \in Seq(Nat) /\ out \in Seq(Nat) /\ held \in Seq(Nat) /\ final \in Seq(Nat)
  /\ queue \in Seq(LogChunk) /\ uploading \subseteq LogChunk /\ sent \subseteq LogChunk

\* Output leaves the pipe and the buffer in the order in which it was written.
PieceInv ==
  /\ Sorted(pipe) /\ Sorted(out) /\ Sorted(held) /\ Sorted(final)
  /\ AllPieces \subseteq 1..wrote
  /\ Below(Items(out), Items(pipe))
  /\ Below(Taken, Items(out) \cup Items(pipe))
  /\ proc \in {"none", "forked", "failed"} => pipe = <<>>
  /\ strPc \notin {"lock", "push"} => held = <<>>
  /\ runPc \notin {"lock", "push"} => final = <<>>

\* Chunks are numbered as they are queued.  Who has the mutex has the older
\* output, unless the flush overtook.
OrderInv ==
  /\ \A c \in Chunks : c.seq <= order
  /\ ~overtaken =>
       /\ \A c, d \in Chunks : c.seq < d.seq => Below(Reached(c), Reached(d))
       /\ Below(Logged, Items(held) \cup Items(final))
       /\ runPc = "lock" => Below(Items(held), Items(final))
       /\ runPc = "push" => Below(Items(final), Items(held))

\* Without a pty nothing is left in the pipe when the process is reaped, and
\* nothing in the buffer after the flush.
CompleteInv ==
  ~cfg.pty =>
    /\ ~pwClosed
    /\ proc \notin {"running", "dead"} => pipe = <<>>
    /\ runPc \in Ending \ {"cleanup"} => out = <<>>
    /\ ~outClosed => 1..wrote \subseteq AllPieces

LogInv == LogTypes /\ PieceInv /\ OrderInv /\ CompleteInv

\* Before Run.
LEMMA LogInit == Init => LogInv
<1> SUFFICES ASSUME Init PROVE LogInv
  OBVIOUS
<1>1. Items(<<>>) = {} /\ Sorted(<<>>) /\ <<>> \in Seq(Nat) /\ <<>> \in Seq(LogChunk)
  BY SMT DEF Items, Sorted
<1>2. AllPieces = {} /\ Taken = {} /\ Chunks = {} /\ Logged = {}
  BY <1>1 DEF Init, AllPieces, Taken, Logged, Chunks
<1> QED
  BY <1>1, <1>2, SMT DEF Init, LogInv, LogTypes, PieceInv, OrderInv, CompleteInv, Below, Ending

\* The chunks of the queue and of the workers.
LEMMA ChunkTypes ==
  ASSUME LogTypes
  PROVE  \A c \in Chunks : c \in LogChunk /\ c.seq \in Nat
<1>1. \A i \in 1..Len(queue) : queue[i] \in LogChunk
  BY LenProperties DEF LogTypes
<1>2. Chunks \subseteq LogChunk
  BY <1>1 DEF LogTypes, Chunks, Items
<1> QED
  BY <1>2 DEF LogChunk

\* Steps that only move a goroutine or the process along.
LEMMA LogFrame ==
  ASSUME LogInv,
         UNCHANGED <<cfg, wrote, pipe, out, outClosed, pwClosed, held, final, overtaken, order,
                     queue, uploading, sent>>,
         proc' \in {"none", "forked", "failed"} => pipe = <<>>,
         ~cfg.pty /\ proc' \notin {"running", "dead"} => pipe = <<>>,
         ~cfg.pty /\ runPc' \in Ending \ {"cleanup"} => out = <<>>,
         strPc' \notin {"lock", "push"} => held = <<>>,
         runPc' \notin {"lock", "push"} => final = <<>>,
         runPc' \in {"lock", "push"} => runPc' = runPc
  PROVE  LogInv'
<1>1. /\ Items(held)' = Items(held) /\ Items(final)' = Items(final) /\ Items(out)' = Items(out)
      /\ Items(pipe)' = Items(pipe) /\ Chunks' = Chunks
  BY DEF Chunks, Items
<1>2. Logged' = Logged /\ Taken' = Taken /\ AllPieces' = AllPieces
  BY <1>1 DEF Logged, Taken, AllPieces
<1>3. LogTypes'
  BY DEF LogInv, LogTypes
<1>4. PieceInv'
  BY <1>1, <1>2 DEF LogInv, PieceInv, Sorted
<1>5. OrderInv'
  BY <1>1, <1>2 DEF LogInv, OrderInv
<1>6. CompleteInv'
  BY <1>1, <1>2 DEF LogInv, CompleteInv
<1> QED
  BY <1>3, <1>4, <1>5, <1>6 DEF LogInv

\* Run and the process take such steps, ...
LEMMA RunFrame ==
  ASSUME RunInv, LogInv,
         \/ Begin \/ StartJob \/ RunProcess \/ Fork \/ RecordPid \/ Reap \/ ProcessReturns
         \/ ReadStopping \/ ReadCancelled \/ ProcessDies
  PROVE  LogInv'
<1>1. /\ proc \in {"none", "forked", "failed"} => pipe = <<>>
      /\ ~cfg.pty /\ proc \notin {"running", "dead"} => pipe = <<>>
      /\ strPc \notin {"lock", "push"} => held = <<>>
      /\ runPc \notin {"lock", "push"} => final = <<>>
      /\ runPc \in Early => strPc = "off"
  BY DEF LogInv, PieceInv, CompleteInv, RunInv, HelperInv
<1> USE DEF outVars, strVars, logVars, procVars
<1>2. CASE Begin \/ StartJob \/ RunProcess
  BY <1>1, <1>2, LogFrame DEF Begin, StartJob, RunProcess, Early, Ending
<1>3. CASE Fork \/ RecordPid \/ Reap \/ ProcessDies
  <2>1. /\ proc' \in {"none", "forked", "failed"} => pipe = <<>>
        /\ ~cfg.pty /\ proc' \notin {"running", "dead"} => pipe = <<>>
    BY <1>1, <1>3 DEF Fork, RecordPid, Reap, ProcessDies
  <2>2. /\ UNCHANGED <<cfg, wrote, pipe, out, outClosed, pwClosed, held, final, overtaken, order,
                       queue, uploading, sent, strPc, runPc>>
    BY <1>3 DEF Fork, RecordPid, Reap, ProcessDies, ProcUnchanged
  <2>3. ~cfg.pty /\ runPc \in Ending \ {"cleanup"} => out = <<>>
    BY DEF LogInv, CompleteInv
  <2> QED
    BY <1>1, <2>1, <2>2, <2>3, LogFrame
<1>4. CASE ProcessReturns \/ ReadStopping \/ ReadCancelled
  BY <1>1, <1>4, LogFrame DEF ProcessReturns, ReadStopping, ReadCancelled, ProcUnchanged, Ending
<1> QED
  BY <1>2, <1>3, <1>4

\* ... and so do the end of cleanup, the helpers that wait, and Cancel.
LEMMA HelperFrame ==
  ASSUME RunInv, LogInv,
         \/ StopStreamer \/ WorkersDone \/ StopHeaderTimes \/ HeaderTimesDone \/ FinishJob
         \/ StreamWakes \/ StreamEnds
         \/ HeaderTimes \/ Checker \/ AgentCancels \/ Cancelling \/ UNCHANGED vars
  PROVE  LogInv'
<1>1. /\ proc \in {"none", "forked", "failed"} => pipe = <<>>
      /\ ~cfg.pty /\ proc \notin {"running", "dead"} => pipe = <<>>
      /\ strPc \notin {"lock", "push"} => held = <<>>
      /\ runPc \notin {"lock", "push"} => final = <<>>
      /\ ~cfg.pty /\ runPc \in Ending \ {"cleanup"} => out = <<>>
  BY DEF LogInv, PieceInv, CompleteInv
<1> USE DEF runVars, outVars, strVars, logVars, procVars
<1>2. CASE \/ StopStreamer \/ WorkersDone \/ StopHeaderTimes \/ HeaderTimesDone \/ FinishJob
  <2>1. /\ UNCHANGED <<cfg, wrote, pipe, out, outClosed, pwClosed, held, final, overtaken, order,
                       queue, uploading, sent, strPc, proc>>
        /\ runPc \in Ending \ {"cleanup", "lock", "push"}
        /\ runPc' \notin {"lock", "push"}
    BY <1>2 DEF StopStreamer, WorkersDone, StopHeaderTimes, HeaderTimesDone, FinishJob,
       CleanUnchanged, Ending
  <2> QED
    BY <1>1, <2>1, LogFrame
<1>3. CASE StreamWakes \/ StreamEnds
  <2>1. /\ UNCHANGED <<cfg, wrote, pipe, out, outClosed, pwClosed, held, final, overtaken, order,
                       queue, uploading, sent, runPc, proc>>
        /\ strPc \notin {"lock", "push"}
    BY <1>3 DEF StreamWakes, StreamEnds, StreamUnchanged
  <2> QED
    BY <1>1, <2>1, LogFrame
<1>4. CASE HeaderTimes \/ Checker \/ AgentCancels \/ Cancelling \/ UNCHANGED vars
  <2>1. UNCHANGED <<cfg, wrote, pipe, out, outClosed, pwClosed, held, final, overtaken, order,
                    queue, uploading, sent, runPc, strPc, proc>>
    BY <1>4 DEF HeaderTimes, HeaderTimesRun, HeaderTimesEnd, Checker, CheckerWakes,
       CheckerSeesCancel, CheckerEnds, CheckerCancels, AgentCancels, Cancel, Cancelling,
       CancelInterrupts, GraceDone, GraceOver, CancelReturns, CancelUnchanged, vars
  <2> QED
    BY <1>1, <2>1, LogFrame
<1> QED
  BY <1>2, <1>3, <1>4

-----------------------------------------------------------------------------
(* Output on its way to the streamer *)

\* A line of the agent's own, or a piece from the process, is the newest there is.
LEMMA WriteStep ==
  ASSUME RunInv, LogInv, Refuse \/ ProcessFails \/ ProcessWrites
  PROVE  LogInv'
<1>1. wrote \in Nat /\ wrote + 1 \in Nat /\ wrote' = wrote + 1
  BY SMT DEF LogInv, LogTypes, Refuse, ProcessFails, ProcessWrites, WriteJobLog
<1>2. /\ UNCHANGED <<cfg, outClosed, pwClosed, held, final, overtaken, order, queue, uploading,
                     sent, strPc>>
      /\ runPc \notin {"lock", "push"} \cup (Ending \ {"cleanup"})
      /\ runPc' \notin {"lock", "push"} \cup (Ending \ {"cleanup"})
  BY DEF Refuse, ProcessFails, ProcessWrites, ProcUnchanged, strVars, logVars, Ending, RunInv,
     HelperInv
<1>3. Chunks' = Chunks /\ Logged' = Logged /\ Taken' = Taken
  BY <1>2 DEF Chunks, Logged, Taken
<1>4. final = <<>> /\ Items(final) = {}
  BY <1>2, SMT DEF LogInv, PieceInv, Items
<1>5. Below(AllPieces, {wrote + 1})
  BY <1>1, SMT DEF LogInv, PieceInv, Below
<1>6. CASE Refuse \/ ProcessFails
  <2>1. /\ out' = Append(out, wrote + 1) /\ pipe' = pipe /\ pipe = <<>>
        /\ proc' \in {"none", "failed"}
    BY <1>6 DEF Refuse, ProcessFails, WriteJobLog, procVars, LogInv, PieceInv, RunInv, HelperInv,
       Early
  <2>2. out' \in Seq(Nat) /\ Items(out') = Items(out) \cup {wrote + 1}
    <3>1. out \in Seq(Nat)
      BY DEF LogInv, LogTypes
    <3> QED
      BY <1>1, <2>1, <3>1, Appending, SMT
  <2>3. Sorted(out')
    BY <1>1, <1>5, <2>1, AppendSorted DEF LogInv, LogTypes, PieceInv, AllPieces, Below
  <2>4. Items(pipe) = {} /\ Items(pipe') = {}
    BY <2>1, SMT DEF Items
  <2>5. AllPieces' = AllPieces \cup {wrote + 1}
    BY <1>3, <2>2, <2>4 DEF AllPieces
  <2>6. PieceInv'
    <3>1. AllPieces' \subseteq 1..wrote'
      BY <1>1, <2>5, SMT DEF LogInv, PieceInv
    <3>2. Below(Items(out'), Items(pipe'))
      BY <2>4 DEF Below
    <3>3. Below(Taken, Items(out') \cup Items(pipe'))
      BY <1>5, <2>2, <2>4 DEF LogInv, PieceInv, Below, AllPieces
    <3> QED
      BY <1>2, <1>3, <2>1, <2>3, <3>1, <3>2, <3>3 DEF LogInv, PieceInv
  <2>7. OrderInv'
    BY <1>2, <1>3 DEF LogInv, OrderInv
  <2>8. CompleteInv'
    BY <1>1, <1>2, <2>1, <2>5, SMT DEF LogInv, CompleteInv
  <2> QED
    BY <1>1, <1>2, <2>1, <2>2, <2>6, <2>7, <2>8 DEF LogInv, LogTypes
<1>7. CASE ProcessWrites
  <2>1. pipe' = Append(pipe, wrote + 1) /\ out' = out /\ proc' = "running"
    BY <1>7 DEF ProcessWrites, procVars
  <2>2. pipe' \in Seq(Nat) /\ Items(pipe') = Items(pipe) \cup {wrote + 1}
    <3>1. pipe \in Seq(Nat)
      BY DEF LogInv, LogTypes
    <3> QED
      BY <1>1, <2>1, <3>1, Appending, SMT
  <2>3. Sorted(pipe')
    BY <1>1, <1>5, <2>1, AppendSorted DEF LogInv, LogTypes, PieceInv, AllPieces, Below
  <2>4. AllPieces' = AllPieces \cup {wrote + 1}
    BY <1>3, <2>1, <2>2 DEF AllPieces
  <2>5. PieceInv'
    <3>1. AllPieces' \subseteq 1..wrote'
      BY <1>1, <2>4, SMT DEF LogInv, PieceInv
    <3>2. Below(Items(out'), Items(pipe'))
      BY <1>5, <2>1, <2>2 DEF LogInv, PieceInv, Below, AllPieces
    <3>3. Below(Taken, Items(out') \cup Items(pipe'))
      BY <1>5, <2>1, <2>2 DEF LogInv, PieceInv, Below, AllPieces
    <3> QED
      BY <1>2, <1>3, <2>1, <2>3, <3>1, <3>2, <3>3 DEF LogInv, PieceInv
  <2>6. OrderInv'
    BY <1>2, <1>3 DEF LogInv, OrderInv
  <2>7. CompleteInv'
    BY <1>1, <1>2, <2>1, <2>4, SMT DEF LogInv, CompleteInv
  <2> QED
    BY <1>1, <1>2, <2>1, <2>2, <2>5, <2>6, <2>7 DEF LogInv, LogTypes
<1> QED
  BY <1>6, <1>7

\* The oldest piece of the pipe is copied to the buffer, or refused.
LEMMA CopyStep ==
  ASSUME RunInv, LogInv, CopyOutput \/ ClosePipe
  PROVE  LogInv'
<1>1. /\ UNCHANGED <<cfg, wrote, outClosed, held, final, overtaken, order, queue, uploading, sent,
                     strPc, runPc, proc>>
      /\ pipe # <<>>
  BY DEF CopyOutput, ClosePipe, ProcUnchanged, procVars, strVars, logVars
<1>2. Chunks' = Chunks /\ Logged' = Logged /\ Taken' = Taken
  BY <1>1 DEF Chunks, Logged, Taken
<1>3. OrderInv'
  BY <1>1, <1>2 DEF LogInv, OrderInv
<1>4. ~cfg.pty => proc \in {"running", "dead"} /\ ~pwClosed /\ runPc \notin Ending
  BY <1>1 DEF LogInv, CompleteInv, RunInv, HelperInv, Ending
<1>5. CASE ClosePipe
  <2>1. cfg.pty /\ pipe' = pipe /\ out' = out
    BY <1>4, <1>5 DEF ClosePipe, Done
  <2>2. PieceInv' /\ CompleteInv'
    BY <1>1, <1>2, <2>1 DEF LogInv, PieceInv, CompleteInv, AllPieces
  <2> QED
    BY <1>1, <1>3, <2>1, <2>2 DEF LogInv, LogTypes
<1>6. CASE CopyOutput /\ ((pwClosed /\ ~cfg.ansi) \/ outClosed)
  <2>1. pipe' = <<>> /\ out' = out /\ pwClosed' = pwClosed /\ Items(pipe') = {}
    BY <1>6, SMT DEF CopyOutput, Items
  <2>2. PieceInv'
    <3>1. Sorted(pipe') /\ AllPieces' \subseteq AllPieces
      BY <1>2, <2>1, SMT DEF Sorted, AllPieces
    <3>2. Below(Items(out'), Items(pipe')) /\ Below(Taken, Items(out') \cup Items(pipe'))
      BY <2>1 DEF LogInv, PieceInv, Below
    <3> QED
      BY <1>1, <1>2, <2>1, <3>1, <3>2 DEF LogInv, PieceInv
  <2>3. CompleteInv'
    BY <1>1, <1>4, <1>6, <2>1 DEF LogInv, CompleteInv
  <2> QED
    BY <1>1, <1>3, <2>1, <2>2, <2>3, SMT DEF LogInv, LogTypes
<1>7. CASE CopyOutput /\ ~((pwClosed /\ ~cfg.ansi) \/ outClosed)
  <2> DEFINE x == Head(pipe)
  <2>1. pipe' = Tail(pipe) /\ out' = Append(out, x) /\ pwClosed' = pwClosed
    BY <1>7 DEF CopyOutput
  <2>2. /\ x \in Nat /\ pipe' \in Seq(Nat) /\ Items(pipe) = {x} \cup Items(pipe')
        /\ Sorted(pipe') /\ Below({x}, Items(pipe'))
    BY <1>1, <2>1, TakingFirst, FirstIsLeast DEF LogInv, LogTypes, PieceInv
  <2> HIDE DEF x
  <2>3. out' \in Seq(Nat) /\ Items(out') = Items(out) \cup {x}
    <3>1. out \in Seq(Nat)
      BY DEF LogInv, LogTypes
    <3>2. x \in Nat
      BY <2>2
    <3> QED
      BY <2>1, <3>1, <3>2, Appending, SMT
  <2>4. Sorted(out')
    BY <2>1, <2>2, AppendSorted DEF LogInv, LogTypes, PieceInv, Below
  <2>5. AllPieces' = AllPieces
    BY <1>2, <2>2, <2>3 DEF AllPieces
  <2>6. Below(Items(out'), Items(pipe')) /\ Below(Taken, Items(out') \cup Items(pipe'))
    BY <2>2, <2>3 DEF LogInv, PieceInv, Below
  <2>7. proc \notin {"none", "forked", "failed"}
    BY <1>1 DEF LogInv, PieceInv
  <2>8. PieceInv'
    BY <1>1, <1>2, <2>2, <2>4, <2>5, <2>6, <2>7 DEF LogInv, PieceInv, Sorted
  <2>9. CompleteInv'
    BY <1>1, <1>4, <2>1, <2>5 DEF LogInv, CompleteInv, Ending
  <2> QED
    BY <1>1, <1>3, <2>2, <2>3, <2>8, <2>9 DEF LogInv, LogTypes
<1> QED
  BY <1>5, <1>6, <1>7

\* The buffer is emptied, by the streaming goroutine or by cleanup.
LEMMA TakeStep ==
  ASSUME RunInv, LogInv, StreamTakes \/ Flush
  PROVE  LogInv'
<1>1. /\ UNCHANGED <<cfg, wrote, pipe, outClosed, pwClosed, order, queue, uploading, sent, proc>>
      /\ out' = <<>>
  BY DEF StreamTakes, Flush, StreamUnchanged, CleanUnchanged, runVars, procVars
<1>2. Chunks' = Chunks /\ Logged' = Logged /\ Items(pipe)' = Items(pipe)
  BY <1>1 DEF Chunks, Logged
<1>3. Items(<<>>) = {} /\ Sorted(<<>>) /\ <<>> \in Seq(Nat)
  BY SMT DEF Items, Sorted
<1>4. CASE StreamTakes
  <2>1. /\ held = <<>> /\ held' = out /\ strPc' = "lock" /\ final' = final /\ runPc' = runPc
        /\ ~overtaken' => ~overtaken /\ runPc # "lock"
    BY <1>4 DEF StreamTakes, StreamUnchanged, runVars, LogInv, PieceInv
  <2>2. /\ Items(held) = {} /\ Items(held)' = Items(out) /\ Items(final)' = Items(final)
        /\ Items(out)' = {}
    BY <1>1, <1>3, <2>1 DEF Items
  <2>3. AllPieces' = AllPieces /\ Taken' = Taken \cup Items(out)
    BY <1>2, <2>2 DEF AllPieces, Taken
  <2>4. PieceInv'
    BY <1>1, <1>2, <1>3, <2>1, <2>2, <2>3 DEF LogInv, PieceInv, Below, Sorted
  <2>5. OrderInv'
    <3>1. Below(Logged \cup Items(final), Items(out))
      BY DEF LogInv, PieceInv, Below, Taken
    <3> QED
      BY <1>1, <1>2, <2>1, <2>2, <3>1 DEF LogInv, OrderInv, Below
  <2>6. CompleteInv'
    BY <1>1, <2>1, <2>3 DEF LogInv, CompleteInv
  <2> QED
    BY <1>1, <1>3, <2>1, <2>4, <2>5, <2>6 DEF LogInv, LogTypes
<1>5. CASE Flush
  <2>1. /\ final = <<>> /\ final' = out /\ runPc' = "lock" /\ runPc = "cleanup"
        /\ UNCHANGED <<held, strPc, overtaken>>
    BY <1>5 DEF Flush, CleanUnchanged, strVars, LogInv, PieceInv
  <2>2. /\ Items(final) = {} /\ Items(final)' = Items(out) /\ Items(held)' = Items(held)
        /\ Items(out)' = {}
    BY <1>1, <1>3, <2>1 DEF Items
  <2>3. AllPieces' = AllPieces /\ Taken' = Taken \cup Items(out)
    BY <1>2, <2>2 DEF AllPieces, Taken
  <2>4. PieceInv'
    BY <1>1, <1>2, <1>3, <2>1, <2>2, <2>3 DEF LogInv, PieceInv, Below, Sorted
  <2>5. OrderInv'
    <3>1. Below(Logged \cup Items(held), Items(out))
      BY DEF LogInv, PieceInv, Below, Taken
    <3> QED
      BY <1>1, <1>2, <2>1, <2>2, <3>1 DEF LogInv, OrderInv, Below
  <2>6. CompleteInv'
    BY <1>1, <2>1, <2>3 DEF LogInv, CompleteInv
  <2> QED
    BY <1>1, <1>3, <2>1, <2>4, <2>5, <2>6 DEF LogInv, LogTypes
<1> QED
  BY <1>4, <1>5

\* One of the two takes the mutex, or the streaming goroutine is turned away.
LEMMA LockStep ==
  ASSUME RunInv, LogInv, StreamLocks \/ StreamDrops \/ FlushLocks
  PROVE  LogInv'
<1>1. /\ UNCHANGED <<cfg, wrote, pipe, out, pwClosed, final, queue, uploading, sent, proc>>
  BY DEF StreamLocks, StreamDrops, FlushLocks, StreamUnchanged, CleanUnchanged, runVars, procVars
<1>2. /\ Chunks' = Chunks /\ Logged' = Logged /\ Items(pipe)' = Items(pipe)
      /\ Items(out)' = Items(out) /\ Items(final)' = Items(final)
  BY <1>1 DEF Chunks, Logged
<1>3. Items(<<>>) = {} /\ Sorted(<<>>) /\ <<>> \in Seq(Nat)
  BY SMT DEF Items, Sorted
<1>4. CASE (StreamLocks /\ stopped) \/ StreamDrops
  <2>1. /\ held' = <<>> /\ outClosed' /\ runPc' = runPc /\ overtaken' = overtaken
        /\ order' \in Nat /\ order <= order' /\ order \in Nat
    <3>1. order \in Nat
      BY DEF LogInv, LogTypes
    <3>2. CASE StreamLocks /\ stopped
      BY <3>1, <3>2, SMT DEF StreamLocks, StreamUnchanged, runVars
    <3>3. CASE StreamDrops
      BY <3>1, <3>3, SMT DEF StreamDrops, StreamUnchanged, runVars
    <3> QED
      BY <1>4, <3>2, <3>3
  <2>2. Items(held)' = {} /\ Taken' \subseteq Taken /\ AllPieces' \subseteq AllPieces
    BY <1>2, <1>3, <2>1 DEF Taken, AllPieces
  <2>3. PieceInv'
    BY <1>1, <1>2, <1>3, <2>1, <2>2 DEF LogInv, PieceInv, Below, Sorted
  <2>4. \A c \in Chunks : c.seq \in Nat
    BY ChunkTypes DEF LogInv
  <2>5. OrderInv'
    <3>1. \A c \in Chunks : c.seq <= order'
      BY <2>1, <2>4, SMT DEF LogInv, OrderInv
    <3> QED
      BY <1>1, <1>2, <2>1, <2>2, <3>1 DEF LogInv, OrderInv, Below
  <2>6. CompleteInv'
    BY <1>1, <2>1 DEF LogInv, CompleteInv
  <2> QED
    BY <1>1, <1>3, <2>1, <2>3, <2>5, <2>6 DEF LogInv, LogTypes
<1>5. CASE StreamLocks /\ ~stopped
  <2>1. /\ UNCHANGED <<held, outClosed, overtaken, order, runPc>> /\ strPc' = "push"
    BY <1>5 DEF StreamLocks, StreamUnchanged, runVars
  <2> QED
    BY <1>1, <2>1, LogFrame DEF LogInv, PieceInv, CompleteInv
<1>6. CASE FlushLocks
  <2>1. /\ UNCHANGED <<held, outClosed, strPc, order>> /\ runPc = "lock"
        /\ runPc' = (IF final = <<>> THEN "stop" ELSE "push")
        /\ ~overtaken' => ~overtaken /\ held = <<>>
    BY <1>6 DEF FlushLocks, CleanUnchanged, strVars, LogInv, PieceInv, RunInv, StreamerInv
  <2>2. Items(held)' = Items(held) /\ Taken' = Taken /\ AllPieces' = AllPieces
    BY <1>2, <2>1 DEF Taken, AllPieces
  <2>3. PieceInv'
    BY <1>1, <1>2, <2>1, <2>2 DEF LogInv, PieceInv, Sorted
  <2>4. held = <<>> => Items(held) = {}
    BY <1>3
  <2>5. OrderInv'
    BY <1>1, <1>2, <2>1, <2>2, <2>4 DEF LogInv, OrderInv, Below
  <2>6. CompleteInv'
    BY <1>1, <2>1, <2>2 DEF LogInv, CompleteInv, Ending
  <2> QED
    BY <1>1, <2>1, <2>3, <2>5, <2>6 DEF LogInv, LogTypes
<1> QED
  BY <1>4, <1>5, <1>6

-----------------------------------------------------------------------------
(* Chunks *)

\* An upload worker takes a chunk from the queue, or is through with it.
LEMMA WorkerStep ==
  ASSUME RunInv, LogInv, UploadWorkers
  PROVE  LogInv'
<1>1. UNCHANGED <<cfg, wrote, pipe, out, outClosed, pwClosed, held, final, overtaken, order, strPc,
                  runPc, proc>>
  BY DEF UploadWorkers, WorkerTakes, WorkerUploads, runVars, outVars, strVars, procVars
<1>2. /\ queue' \in Seq(LogChunk) /\ uploading' \subseteq LogChunk /\ sent' \subseteq LogChunk
      /\ Chunks' = Chunks
  <2>1. CASE WorkerTakes
    <3>1. /\ Head(queue) \in LogChunk /\ Tail(queue) \in Seq(LogChunk)
          /\ Items(queue) = {Head(queue)} \cup Items(Tail(queue))
      BY <2>1, TakingFirst DEF WorkerTakes, LogInv, LogTypes
    <3> QED
      BY <2>1, <3>1 DEF WorkerTakes, LogInv, LogTypes, Chunks
  <2>2. CASE WorkerUploads
    BY <2>2 DEF WorkerUploads, LogInv, LogTypes, Chunks, Items
  <2> QED
    BY <2>1, <2>2 DEF UploadWorkers
<1>3. Logged' = Logged /\ Taken' = Taken /\ AllPieces' = AllPieces
  BY <1>1, <1>2 DEF Logged, Taken, AllPieces, Items
<1>4. LogTypes'
  BY <1>1, <1>2 DEF LogInv, LogTypes
<1>5. PieceInv'
  BY <1>1, <1>3 DEF LogInv, PieceInv, Sorted, Items
<1>6. OrderInv'
  BY <1>1, <1>2, <1>3 DEF LogInv, OrderInv, Items
<1>7. CompleteInv'
  BY <1>1, <1>3 DEF LogInv, CompleteInv
<1> QED
  BY <1>4, <1>5, <1>6, <1>7 DEF LogInv

\* Process queues the next chunk of what is left.
LEMMA Queueing ==
  ASSUME LogInv, NEW left \in Seq(Nat), Sorted(left), Enqueue(left), UNCHANGED <<uploading, sent>>
  PROVE  \E k \in LogChunk :
           /\ queue' \in Seq(LogChunk) /\ order' = order + 1 /\ order' \in Nat
           /\ k.seq = order + 1 /\ Chunks' = Chunks \cup {k} /\ Logged' = Logged \cup Reached(k)
           /\ Rest(left) \in Seq(Nat) /\ Sorted(Rest(left))
           /\ Items(left) = Reached(k) \cup Items(Rest(left))
           /\ Below(Reached(k), Items(Rest(left)))
<1> DEFINE n == IF Len(left) < MaxChunk THEN Len(left) ELSE MaxChunk
           d == SubSeq(left, 1, n)
           k == NextChunk(left)
<1>1. n \in Nat /\ MaxChunk \in Nat \ {0}
  BY SizesPositive, SMT
<1>2. /\ d \in Seq(Nat) /\ Rest(left) \in Seq(Nat) /\ Sorted(Rest(left))
      /\ Items(left) = Items(d) \cup Items(Rest(left)) /\ Below(Items(d), Items(Rest(left)))
  <2> HIDE DEF n
  <2>1. n = IF Len(left) < MaxChunk THEN Len(left) ELSE MaxChunk
    BY DEF n
  <2> QED
    BY <1>1, <2>1, Cutting DEF Rest
<1>3. order \in Nat /\ order + 1 \in Nat /\ queue \in Seq(LogChunk)
  BY SMT DEF LogInv, LogTypes
<1>4. k = [seq |-> order + 1, data |-> d]
  BY DEF NextChunk
<1> HIDE DEF n, d, k
<1>5. k \in LogChunk /\ k.seq = order + 1 /\ k.data = d
  BY <1>2, <1>3, <1>4 DEF LogChunk
<1>6. Reached(k) = Items(d)
  <2>1. DOMAIN d = 1..Len(d)
    BY <1>2, LenProperties
  <2> QED
    BY <1>5, <2>1 DEF Reached, Items
<1>7. queue' = Append(queue, k) /\ order' = order + 1
  BY DEF Enqueue, k
<1>8. queue' \in Seq(LogChunk) /\ Items(queue') = Items(queue) \cup {k}
  BY <1>3, <1>5, <1>7, Appending, SMT
<1>9. Chunks' = Chunks \cup {k}
  BY <1>8 DEF Chunks
<1>10. Logged' = Logged \cup Reached(k)
  BY <1>9 DEF Logged
<1> QED
  BY <1>2, <1>3, <1>5, <1>6, <1>7, <1>8, <1>9, <1>10

\* Chunks that are queued after the others come from later output.
LEMMA QueuedInOrder ==
  ASSUME LogInv, NEW k \in LogChunk, k.seq = order + 1, Chunks' = Chunks \cup {k},
         order' = order + 1, ~overtaken, Below(Logged, Reached(k))
  PROVE  /\ \A c \in Chunks' : c.seq <= order'
         /\ \A c, d \in Chunks' : c.seq < d.seq => Below(Reached(c), Reached(d))
<1>1. order \in Nat /\ \A c \in Chunks : c.seq \in Nat /\ c.seq <= order
  BY ChunkTypes DEF LogInv, LogTypes, OrderInv
<1>2. \A c \in Chunks' : c.seq <= order'
  BY <1>1, SMT
<1>3. \A c \in Chunks : Below(Reached(c), Reached(k))
  BY DEF Below, Logged
<1>4. ASSUME NEW c \in Chunks', NEW d \in Chunks', c.seq < d.seq
      PROVE  Below(Reached(c), Reached(d))
  <2>1. c \in Chunks
    BY <1>1, <1>4, SMT
  <2>2. CASE d \in Chunks
    BY <1>4, <2>1, <2>2 DEF LogInv, OrderInv
  <2>3. CASE d = k
    BY <1>3, <2>1, <2>3
  <2> QED
    BY <2>2, <2>3
<1> QED
  BY <1>2, <1>4

\* The numbers go up by one with every chunk, in any case.
LEMMA NumbersBounded ==
  ASSUME LogInv, NEW k \in LogChunk, k.seq = order + 1, Chunks' = Chunks \cup {k},
         order' = order + 1
  PROVE  \A c \in Chunks' : c.seq <= order'
<1>1. order \in Nat /\ \A c \in Chunks : c.seq \in Nat /\ c.seq <= order
  BY ChunkTypes DEF LogInv, LogTypes, OrderInv
<1> QED
  BY <1>1, SMT

\* The streaming goroutine queues a chunk of the output it holds.
LEMMA StreamPushStep ==
  ASSUME RunInv, LogInv, StreamPushes
  PROVE  LogInv'
<1>1. /\ UNCHANGED <<cfg, wrote, pipe, out, outClosed, pwClosed, final, overtaken, uploading, sent,
                     runPc, proc>>
      /\ held' = Rest(held) /\ (strPc' \in {"lock", "push"} \/ held' = <<>>)
      /\ runPc # "push"
  BY DEF StreamPushes, StreamUnchanged, runVars, procVars, RunInv, StreamerInv
<1>2. PICK k \in LogChunk :
        /\ queue' \in Seq(LogChunk) /\ order' = order + 1 /\ order' \in Nat
        /\ k.seq = order + 1 /\ Chunks' = Chunks \cup {k} /\ Logged' = Logged \cup Reached(k)
        /\ held' \in Seq(Nat) /\ Sorted(held')
        /\ Items(held) = Reached(k) \cup Items(held') /\ Below(Reached(k), Items(held'))
  <2>1. held \in Seq(Nat) /\ Sorted(held) /\ Enqueue(held)
    BY DEF StreamPushes, LogInv, LogTypes, PieceInv
  <2> QED
    BY <1>1, <2>1, Queueing
<1>3. /\ Items(pipe)' = Items(pipe) /\ Items(out)' = Items(out) /\ Items(final)' = Items(final)
      /\ Items(held)' = Items(held')
  BY <1>1 DEF Items
<1>4. Taken' = Taken /\ AllPieces' = AllPieces
  BY <1>2, <1>3 DEF Taken, AllPieces
<1>5. LogTypes'
  BY <1>1, <1>2 DEF LogInv, LogTypes
<1>6. PieceInv'
  BY <1>1, <1>2, <1>3, <1>4 DEF LogInv, PieceInv, Sorted
<1>7. OrderInv'
  <2>1. CASE ~overtaken
    <3>1. /\ Below(Logged, Items(held) \cup Items(final))
          /\ runPc = "lock" => Below(Items(held), Items(final))
      BY <1>1, <2>1 DEF LogInv, OrderInv
    <3>2. Below(Logged, Reached(k))
      BY <1>2, <3>1 DEF Below
    <3>3. Below(Logged', Items(held') \cup Items(final))
      <4>1. runPc # "lock" => final = <<>>
        BY <1>1 DEF LogInv, PieceInv
      <4>2. runPc # "lock" => Items(final) = {}
        BY <4>1, SMT DEF Items
      <4> QED
        BY <1>2, <3>1, <4>2 DEF Below
    <3>4. runPc = "lock" => Below(Items(held'), Items(final))
      BY <1>2, <3>1 DEF Below
    <3> QED
      BY <1>1, <1>2, <1>3, <2>1, <3>2, <3>3, <3>4, QueuedInOrder DEF OrderInv
  <2>2. CASE overtaken
    BY <1>1, <1>2, <2>2, NumbersBounded DEF OrderInv
  <2> QED
    BY <2>1, <2>2
<1>8. CompleteInv'
  BY <1>1, <1>4 DEF LogInv, CompleteInv
<1> QED
  BY <1>5, <1>6, <1>7, <1>8 DEF LogInv

\* cleanup queues a chunk of the last output.
LEMMA FlushPushStep ==
  ASSUME RunInv, LogInv, FlushPushes
  PROVE  LogInv'
<1>1. /\ UNCHANGED <<cfg, wrote, pipe, out, outClosed, pwClosed, held, overtaken, uploading, sent,
                     strPc, proc>>
      /\ final' = Rest(final) /\ runPc = "push"
      /\ runPc' = "push" \/ (runPc' = "stop" /\ final' = <<>>)
  BY DEF FlushPushes, CleanUnchanged, strVars, procVars
<1>2. PICK k \in LogChunk :
        /\ queue' \in Seq(LogChunk) /\ order' = order + 1 /\ order' \in Nat
        /\ k.seq = order + 1 /\ Chunks' = Chunks \cup {k} /\ Logged' = Logged \cup Reached(k)
        /\ final' \in Seq(Nat) /\ Sorted(final')
        /\ Items(final) = Reached(k) \cup Items(final') /\ Below(Reached(k), Items(final'))
  <2>1. final \in Seq(Nat) /\ Sorted(final) /\ Enqueue(final)
    BY DEF FlushPushes, LogInv, LogTypes, PieceInv
  <2> QED
    BY <1>1, <2>1, Queueing
<1>3. /\ Items(pipe)' = Items(pipe) /\ Items(out)' = Items(out) /\ Items(held)' = Items(held)
      /\ Items(final)' = Items(final')
  BY <1>1 DEF Items
<1>4. Taken' = Taken /\ AllPieces' = AllPieces
  BY <1>2, <1>3 DEF Taken, AllPieces
<1>5. LogTypes'
  BY <1>1, <1>2 DEF LogInv, LogTypes
<1>6. PieceInv'
  BY <1>1, <1>2, <1>3, <1>4 DEF LogInv, PieceInv, Sorted
<1>7. OrderInv'
  <2>1. CASE ~overtaken
    <3>1. /\ Below(Logged, Items(held) \cup Items(final))
          /\ Below(Items(final), Items(held))
      BY <1>1, <2>1 DEF LogInv, OrderInv
    <3>2. Below(Logged, Reached(k))
      BY <1>2, <3>1 DEF Below
    <3>3. Below(Logged', Items(held) \cup Items(final')) /\ Below(Items(final'), Items(held))
      BY <1>2, <3>1 DEF Below
    <3> QED
      BY <1>1, <1>2, <1>3, <2>1, <3>2, <3>3, QueuedInOrder DEF OrderInv
  <2>2. CASE overtaken
    BY <1>1, <1>2, <2>2, NumbersBounded DEF OrderInv
  <2> QED
    BY <2>1, <2>2
<1>8. CompleteInv'
  BY <1>1, <1>4 DEF LogInv, CompleteInv, Ending
<1> QED
  BY <1>5, <1>6, <1>7, <1>8 DEF LogInv

\* Every step keeps the log's invariant.
LEMMA LogStep == RunInv /\ LogInv /\ [Next]_vars => LogInv'
<1> SUFFICES ASSUME RunInv, LogInv, [Next]_vars PROVE LogInv'
  OBVIOUS
<1>1. CASE Run
  BY <1>1, RunFrame, HelperFrame, WriteStep, TakeStep, LockStep, FlushPushStep DEF Run
<1>2. CASE Process \/ CopyOutput \/ ClosePipe
  BY <1>2, RunFrame, WriteStep, CopyStep DEF Process
<1>3. CASE StreamLoop
  BY <1>3, HelperFrame, TakeStep, LockStep, StreamPushStep DEF StreamLoop
<1>4. CASE UploadWorkers
  BY <1>4, WorkerStep
<1>5. CASE HeaderTimes \/ Checker \/ AgentCancels \/ Cancelling \/ UNCHANGED vars
  BY <1>5, HelperFrame
<1> QED
  BY <1>1, <1>2, <1>3, <1>4, <1>5 DEF Next

\* The invariant holds throughout.
LEMMA LogInvariant == Spec => [](RunInv /\ LogInv)
<1>1. Spec => [][Next]_vars /\ LogInv
  BY LogInit, PTL DEF Spec
<1> QED
  BY <1>1, LogStep, RunInvariant, PTL

\* The numbers Buildkite orders the chunks by follow the output, unless the
\* flush of cleanup overtook the streaming goroutine on its way to the mutex.
THEOREM LogIsInOrder == Spec => []LogInOrder
<1>1. LogInv => LogInOrder
  BY DEF LogInv, OrderInv, LogInOrder, Chunks, Below
<1> QED
  BY <1>1, LogInvariant, PTL

\* FinishJob reports a job whose whole output the streamer has dealt with,
\* unless the streaming goroutine was turned away with output in hand or the
\* output came through a pty.
THEOREM LogIsComplete == Spec => []LogComplete
<1>1. RunInv /\ LogInv => LogComplete
  <2> SUFFICES ASSUME RunInv, LogInv, runPc = "done", ~outClosed, ~cfg.pty
               PROVE  UNION {Reached(c) : c \in sent} = 1..wrote
    BY DEF LogComplete
  <2>1. queue = <<>> /\ uploading = {} /\ strPc \in {"off", "gone"} /\ proc # "running"
        /\ proc # "dead"
    BY DEF RunInv, HelperInv, StreamerInv, Drained
  <2>2. held = <<>> /\ final = <<>> /\ out = <<>> /\ pipe = <<>>
    BY <2>1 DEF LogInv, PieceInv, CompleteInv, Ending
  <2>3. Items(<<>>) = {}
    BY SMT DEF Items
  <2>4. AllPieces = UNION {Reached(c) : c \in sent}
    BY <2>1, <2>2, <2>3 DEF AllPieces, Taken, Logged, Chunks
  <2> QED
    BY <2>4 DEF LogInv, PieceInv, CompleteInv
<1> QED
  BY <1>1, LogInvariant, PTL

-----------------------------------------------------------------------------
(* Limits: pieces, chunk numbers, the queue and the upload workers *)

\* Every piece is in one place at most, and every chunk took a piece at least,
\* so the numbers of the chunks never run ahead of the output.  TypeOK does not
\* say so, and without it a chunk's number could pass the bound.
LimitInv ==
  /\ wrote \in 0..MaxOutput /\ order \in Nat
  /\ pipe \in Seq(Piece) /\ out \in Seq(Piece) /\ held \in Seq(Piece) /\ final \in Seq(Piece)
  /\ Len(pipe) + Len(out) + Len(held) + Len(final) + order <= wrote
  /\ strPc \in {"lock", "push"} => held # <<>>
  /\ runPc = "push" => final # <<>>
  /\ runPc \in Early \/ (runPc = "process" /\ proc = "none") => wrote = 0

\* The queue and the workers hold as many chunks as the streamer was given room for.
QueueInv ==
  /\ queue \in Seq(Chunk) /\ Len(queue) <= QueueSize
  /\ uploading \subseteq Chunk /\ IsFiniteSet(uploading) /\ Cardinality(uploading) <= Workers
  /\ sent \subseteq Chunk

\* Before Run nothing is written.
LEMMA LimitInit == Init => LimitInv /\ QueueInv
<1> SUFFICES ASSUME Init PROVE LimitInv /\ QueueInv
  OBVIOUS
<1>1. <<>> \in Seq(Piece) /\ <<>> \in Seq(Chunk) /\ Len(<<>>) = 0
  BY SMT
<1>2. LimitInv
  BY <1>1, SizesPositive, SMT DEF Init, LimitInv
<1>3. IsFiniteSet({}) /\ Cardinality({}) = 0
  BY FS_EmptySet
<1>4. QueueInv
  BY <1>1, <1>3, SizesPositive, SMT DEF Init, QueueInv
<1> QED
  BY <1>2, <1>4

\* A sequence of pieces that is short enough is one of Pieces.
LEMMA Short ==
  ASSUME NEW s \in Seq(Piece), Len(s) <= MaxOutput
  PROVE  s \in Pieces
<1>1. Len(s) \in 0..MaxOutput /\ s \in [1..Len(s) -> Piece]
  BY LenProperties, SizesPositive, SMT
<1> QED
  BY <1>1 DEF Pieces

\* Queueing a chunk of what is left numbers it within the bound and takes at
\* least a piece.
LEMMA Pushing ==
  ASSUME NEW left \in Seq(Piece), left # <<>>, order \in Nat, order + Len(left) <= MaxOutput
  PROVE  /\ NextChunk(left) \in Chunk
         /\ Rest(left) \in Seq(Piece) /\ Len(Rest(left)) <= Len(left) - 1
<1> DEFINE n == IF Len(left) < MaxChunk THEN Len(left) ELSE MaxChunk
           a == SubSeq(left, 1, n)
<1>1. Len(left) \in Nat \ {0} /\ \A i \in 1..Len(left) : left[i] \in Piece
  BY LenProperties, EmptySeq
<1>2. n \in Nat /\ n <= Len(left) /\ MaxChunk \in Nat \ {0}
  BY <1>1, SizesPositive, SMT
<1> HIDE DEF n
<1>3. a \in Seq(Piece) /\ Len(a) <= Len(left)
  <2>1. \A i \in 1..n : left[i] \in Piece
    BY <1>1, <1>2, SMT
  <2>2. a \in Seq(Piece) /\ Len(a) = IF 1 <= n THEN n - 1 + 1 ELSE 0
    BY <1>2, <2>1, SubSeqProperties, SMT
  <2> QED
    BY <1>1, <1>2, <2>2, SMT
<1> HIDE DEF a
<1>4. a \in Pieces
  BY <1>1, <1>3, Short, SizesPositive, SMT
<1>5. order + 1 \in 1..MaxOutput
  BY <1>1, SizesPositive, SMT
<1>6. NextChunk(left) = [seq |-> order + 1, data |-> a]
  BY DEF NextChunk, a, n
<1>7. NextChunk(left) \in Chunk
  BY <1>4, <1>5, <1>6, SMT DEF Chunk
<1>8. Rest(left) \in Seq(Piece) /\ Len(Rest(left)) <= Len(left) - 1
  <2>1. \A i \in (MaxChunk + 1)..Len(left) : left[i] \in Piece
    BY <1>1, <1>2, SMT
  <2>2. /\ Rest(left) \in Seq(Piece)
        /\ Len(Rest(left)) = IF MaxChunk + 1 <= Len(left)
                             THEN Len(left) - (MaxChunk + 1) + 1 ELSE 0
    BY <1>1, <1>2, <2>1, SubSeqProperties, SMT DEF Rest
  <2> QED
    BY <1>1, <1>2, <2>2, SMT
<1> QED
  BY <1>7, <1>8

\* Steps that leave the output where it is.
LEMMA LimitFrame ==
  ASSUME LimitInv, UNCHANGED <<wrote, pipe, out, held, final, order>>,
         strPc' \in {"lock", "push"} => held # <<>>,
         runPc' = "push" => final # <<>>,
         runPc' \in Early \/ (runPc' = "process" /\ proc' = "none") => wrote = 0
  PROVE  LimitInv'
  BY DEF LimitInv

\* Steps that move a goroutine or the process along.
LEMMA LimitMoves ==
  ASSUME RunInv, LimitInv,
         \/ Begin \/ StartJob \/ RunProcess \/ Fork \/ RecordPid \/ Reap \/ ProcessReturns
         \/ ReadStopping \/ ReadCancelled \/ ProcessDies \/ ClosePipe
         \/ FlushLocks \/ StopStreamer \/ WorkersDone \/ StopHeaderTimes \/ HeaderTimesDone
         \/ FinishJob \/ StreamWakes \/ StreamEnds \/ UploadWorkers
         \/ HeaderTimes \/ Checker \/ AgentCancels \/ Cancelling \/ UNCHANGED vars
  PROVE  LimitInv'
<1>1. /\ strPc \in {"lock", "push"} => held # <<>>
      /\ runPc = "push" => final # <<>>
      /\ runPc \in Early \/ (runPc = "process" /\ proc = "none") => wrote = 0
      /\ runPc \in Early => strPc = "off"
  BY DEF LimitInv, RunInv, HelperInv
<1> USE DEF runVars, outVars, strVars, logVars, procVars
<1>2. CASE Begin \/ StartJob \/ RunProcess
  BY <1>1, <1>2, LimitFrame DEF Begin, StartJob, RunProcess, Early
<1>3. CASE Fork \/ RecordPid \/ Reap \/ ProcessDies \/ ClosePipe
  <2>1. /\ UNCHANGED <<wrote, pipe, out, held, final, order, strPc, runPc>>
        /\ proc' = "none" => proc = "none"
    BY <1>3 DEF Fork, RecordPid, Reap, ProcessDies, ClosePipe, ProcUnchanged
  <2> QED
    BY <1>1, <2>1, LimitFrame
<1>4. CASE ProcessReturns \/ ReadStopping \/ ReadCancelled
  <2>1. /\ UNCHANGED <<wrote, pipe, out, held, final, order, strPc>>
        /\ runPc' \in {"stopping", "cancelled", "cleanup"}
    BY <1>4 DEF ProcessReturns, ReadStopping, ReadCancelled, ProcUnchanged
  <2> QED
    BY <1>1, <2>1, LimitFrame DEF Early
<1>5. CASE FlushLocks \/ StopStreamer \/ WorkersDone \/ StopHeaderTimes \/ HeaderTimesDone
           \/ FinishJob
  <2>1. /\ UNCHANGED <<wrote, pipe, out, held, final, order, strPc>>
        /\ runPc' \in {"stop", "push", "drain", "header", "headerWait", "join", "done"}
        /\ runPc' = "push" => final # <<>>
    BY <1>5 DEF FlushLocks, StopStreamer, WorkersDone, StopHeaderTimes, HeaderTimesDone,
       FinishJob, CleanUnchanged
  <2> QED
    BY <1>1, <2>1, LimitFrame DEF Early
<1>6. CASE StreamWakes \/ StreamEnds
  <2>1. /\ UNCHANGED <<wrote, pipe, out, held, final, order, runPc, proc>>
        /\ strPc' \in {"tick", "gone"}
    BY <1>6 DEF StreamWakes, StreamEnds, StreamUnchanged
  <2> QED
    BY <1>1, <2>1, LimitFrame
<1>7. CASE UploadWorkers
  <2>1. UNCHANGED <<wrote, pipe, out, held, final, order, runPc, proc, strPc>>
    BY <1>7 DEF UploadWorkers, WorkerTakes, WorkerUploads
  <2> QED
    BY <1>1, <2>1, LimitFrame
<1>8. CASE HeaderTimes \/ Checker \/ AgentCancels \/ Cancelling \/ UNCHANGED vars
  <2>1. UNCHANGED <<wrote, pipe, out, held, final, order, runPc, proc, strPc>>
    BY <1>8 DEF HeaderTimes, HeaderTimesRun, HeaderTimesEnd, Checker, CheckerWakes,
       CheckerSeesCancel, CheckerEnds, CheckerCancels, AgentCancels, Cancel, Cancelling,
       CancelInterrupts, GraceDone, GraceOver, CancelReturns, CancelUnchanged, vars
  <2> QED
    BY <1>1, <2>1, LimitFrame
<1> QED
  BY <1>2, <1>3, <1>4, <1>5, <1>6, <1>7, <1>8

\* Steps that write output, move it or queue it.
LEMMA LimitOutput ==
  ASSUME RunInv, LimitInv,
         \/ Refuse \/ ProcessFails \/ ProcessWrites \/ CopyOutput \/ Flush \/ FlushPushes
         \/ StreamTakes \/ StreamLocks \/ StreamPushes \/ StreamDrops
  PROVE  LimitInv'
<1>1. /\ wrote \in 0..MaxOutput /\ order \in Nat /\ MaxOutput \in Nat \ {0}
      /\ pipe \in Seq(Piece) /\ out \in Seq(Piece)
      /\ held \in Seq(Piece) /\ final \in Seq(Piece)
      /\ Len(pipe) + Len(out) + Len(held) + Len(final) + order <= wrote
      /\ strPc \in {"lock", "push"} => held # <<>>
      /\ runPc = "push" => final # <<>>
      /\ runPc \in Early \/ (runPc = "process" /\ proc = "none") => wrote = 0
  BY SizesPositive DEF LimitInv
<1>2. /\ Len(pipe) \in Nat /\ Len(out) \in Nat /\ Len(held) \in Nat /\ Len(final) \in Nat
      /\ pipe # <<>> => Len(pipe) >= 1
      /\ held # <<>> => Len(held) >= 1
      /\ <<>> \in Seq(Piece) /\ Len(<<>>) = 0
  BY <1>1, LenProperties, EmptySeq, SMT
<1>3. ASSUME NEW s \in Seq(Piece), NEW x \in Piece
      PROVE  Append(s, x) \in Seq(Piece) /\ Len(Append(s, x)) = Len(s) + 1
  BY AppendProperties
<1>4. CASE Refuse \/ ProcessFails
  <2>1. /\ wrote = 0 /\ wrote' = wrote + 1 /\ out' = Append(out, wrote + 1)
        /\ UNCHANGED <<pipe, held, final, order, strPc>> /\ runPc' = "cleanup"
    BY <1>1, <1>4 DEF Refuse, ProcessFails, WriteJobLog, ProcUnchanged, strVars, logVars, Early
  <2>2. wrote + 1 \in Piece
    BY <1>1, <2>1, SMT DEF Piece
  <2>3. out' \in Seq(Piece) /\ Len(out') = Len(out) + 1
    BY <1>1, <1>3, <2>1, <2>2
  <2> QED
    BY <1>1, <1>2, <2>1, <2>3, SMT DEF LimitInv, Early
<1>5. CASE ProcessWrites
  <2>1. /\ wrote < MaxOutput /\ wrote' = wrote + 1 /\ pipe' = Append(pipe, wrote + 1)
        /\ UNCHANGED <<out, held, final, order, strPc, runPc, proc>> /\ proc = "running"
    BY <1>5 DEF ProcessWrites, ProcUnchanged, strVars, logVars, procVars
  <2>2. wrote + 1 \in Piece
    BY <1>1, <2>1, SMT DEF Piece
  <2>3. pipe' \in Seq(Piece) /\ Len(pipe') = Len(pipe) + 1
    BY <1>1, <1>3, <2>1, <2>2
  <2>4. runPc = "process"
    BY <2>1 DEF RunInv, HelperInv
  <2> QED
    BY <1>1, <1>2, <2>1, <2>3, <2>4, SMT DEF LimitInv, Early
<1>6. CASE CopyOutput
  <2>1. /\ pipe # <<>> /\ UNCHANGED <<wrote, held, final, order, strPc, runPc, proc>>
        /\ \/ pipe' = <<>> /\ out' = out
           \/ pipe' = Tail(pipe) /\ out' = Append(out, Head(pipe))
    BY <1>6 DEF CopyOutput, ProcUnchanged, strVars, logVars, procVars
  <2>2. Head(pipe) \in Piece /\ Tail(pipe) \in Seq(Piece) /\ Len(Tail(pipe)) = Len(pipe) - 1
    BY <1>1, <2>1, HeadTailProperties
  <2>3. /\ pipe' \in Seq(Piece) /\ out' \in Seq(Piece)
        /\ Len(pipe') + Len(out') <= Len(pipe) + Len(out)
    <3>1. CASE pipe' = <<>> /\ out' = out
      BY <1>1, <1>2, <3>1, SMT
    <3>2. CASE pipe' = Tail(pipe) /\ out' = Append(out, Head(pipe))
      <4>1. out' \in Seq(Piece) /\ Len(out') = Len(out) + 1
        BY <1>1, <1>3, <2>2, <3>2
      <4> QED
        BY <1>2, <2>2, <3>2, <4>1, SMT
    <3> QED
      BY <2>1, <3>1, <3>2
  <2>4. Len(pipe') \in Nat /\ Len(out') \in Nat
    BY <2>3, LenProperties
  <2> QED
    BY <1>1, <1>2, <2>1, <2>3, <2>4, SMT DEF LimitInv
<1>7. CASE Flush
  <2>1. /\ final' = out /\ out' = <<>> /\ runPc' = "lock"
        /\ UNCHANGED <<wrote, pipe, held, order, strPc, proc>>
    BY <1>7 DEF Flush, CleanUnchanged, strVars, procVars
  <2> QED
    BY <1>1, <1>2, <2>1, SMT DEF LimitInv, Early
<1>8. CASE StreamTakes
  <2>1. /\ held' = out /\ out' = <<>> /\ out # <<>> /\ strPc' = "lock"
        /\ UNCHANGED <<wrote, pipe, final, order, runPc, proc>>
    BY <1>8 DEF StreamTakes, StreamUnchanged, runVars, procVars
  <2> QED
    BY <1>1, <1>2, <2>1, SMT DEF LimitInv
<1>9. CASE StreamLocks
  <2>1. /\ strPc = "lock" /\ UNCHANGED <<wrote, pipe, out, final, order, runPc, proc>>
        /\ \/ held' = <<>> /\ strPc' = "gone"
           \/ held' = held /\ strPc' = "push"
    BY <1>9 DEF StreamLocks, StreamUnchanged, runVars, procVars
  <2>2. CASE held' = <<>> /\ strPc' = "gone"
    BY <1>1, <1>2, <2>1, <2>2, SMT DEF LimitInv
  <2>3. CASE held' = held /\ strPc' = "push"
    BY <1>1, <2>1, <2>3, LimitFrame
  <2> QED
    BY <2>1, <2>2, <2>3
<1>10. CASE StreamPushes
  <2>1. /\ strPc = "push" /\ held' = Rest(held) /\ order' = order + 1
        /\ UNCHANGED <<wrote, pipe, out, final, runPc, proc>>
        /\ held' = <<>> => strPc' = "tick"
    BY <1>10 DEF StreamPushes, Enqueue, StreamUnchanged, runVars, procVars
  <2>2. Rest(held) \in Seq(Piece) /\ Len(Rest(held)) <= Len(held) - 1
    BY <1>1, <1>2, <2>1, Pushing, SMT
  <2>3. Len(Rest(held)) \in Nat
    BY <2>2, LenProperties
  <2> QED
    BY <1>1, <1>2, <2>1, <2>2, <2>3, SMT DEF LimitInv
<1>11. CASE StreamDrops
  <2>1. /\ strPc = "push" /\ held' = <<>> /\ order' = order + 1 /\ strPc' = "gone"
        /\ UNCHANGED <<wrote, pipe, out, final, runPc, proc>>
    BY <1>11 DEF StreamDrops, StreamUnchanged, runVars, procVars
  <2> QED
    BY <1>1, <1>2, <2>1, SMT DEF LimitInv
<1>12. CASE FlushPushes
  <2>1. /\ runPc = "push" /\ final' = Rest(final) /\ order' = order + 1
        /\ UNCHANGED <<wrote, pipe, out, held, strPc, proc>>
        /\ runPc' \in {"stop", "push"} /\ (final' = <<>> => runPc' = "stop")
    BY <1>12 DEF FlushPushes, Enqueue, CleanUnchanged, strVars, procVars
  <2>2. Rest(final) \in Seq(Piece) /\ Len(Rest(final)) <= Len(final) - 1
    BY <1>1, <1>2, <2>1, Pushing, SMT
  <2>3. Len(Rest(final)) \in Nat
    BY <2>2, LenProperties
  <2> QED
    BY <1>1, <1>2, <2>1, <2>2, <2>3, SMT DEF LimitInv, Early
<1> QED
  BY <1>4, <1>5, <1>6, <1>7, <1>8, <1>9, <1>10, <1>11, <1>12

\* A chunk is queued only while there is room, and taken only by a free worker.
LEMMA QueueStep == LimitInv /\ QueueInv /\ [Next]_vars => QueueInv'
<1> SUFFICES ASSUME LimitInv, QueueInv, [Next]_vars PROVE QueueInv'
  OBVIOUS
<1>1. CASE UNCHANGED <<queue, uploading, sent>>
  BY <1>1 DEF QueueInv
<1>2. ASSUME NEW left \in Seq(Piece), left # <<>>, Enqueue(left), UNCHANGED <<uploading, sent>>,
             order + Len(left) <= MaxOutput
      PROVE  QueueInv'
  <2>1. NextChunk(left) \in Chunk
    BY <1>2, Pushing DEF LimitInv
  <2>2. /\ queue \in Seq(Chunk) /\ Len(queue) < QueueSize
        /\ queue' = Append(queue, NextChunk(left))
    BY <1>2 DEF Enqueue, QueueInv
  <2>3. queue' \in Seq(Chunk) /\ Len(queue') = Len(queue) + 1
    BY <2>1, <2>2, AppendProperties
  <2>4. Len(queue) \in Nat /\ QueueSize \in Nat
    BY <2>2, LenProperties, SizesPositive
  <2> QED
    BY <1>2, <2>2, <2>3, <2>4, SMT DEF QueueInv
<1>3. /\ held \in Seq(Piece) /\ order + Len(held) <= MaxOutput
      /\ final \in Seq(Piece) /\ order + Len(final) <= MaxOutput
  <2>1. /\ Len(pipe) \in Nat /\ Len(out) \in Nat /\ Len(held) \in Nat /\ Len(final) \in Nat
        /\ wrote \in 0..MaxOutput /\ order \in Nat
        /\ Len(pipe) + Len(out) + Len(held) + Len(final) + order <= wrote
    BY LenProperties DEF LimitInv
  <2> QED
    BY <2>1, SizesPositive, SMT DEF LimitInv
<1>4. CASE StreamPushes
  BY <1>2, <1>3, <1>4 DEF StreamPushes, Enqueue, StreamUnchanged
<1>5. CASE FlushPushes
  BY <1>2, <1>3, <1>5 DEF FlushPushes, Enqueue, CleanUnchanged
<1>6. CASE WorkerTakes
  <2>1. /\ queue # <<>> /\ Cardinality(uploading) < Workers /\ UNCHANGED sent
        /\ uploading' = uploading \cup {Head(queue)} /\ queue' = Tail(queue)
        /\ queue \in Seq(Chunk) /\ Len(queue) <= QueueSize
    BY <1>6 DEF WorkerTakes, QueueInv
  <2>2. /\ Head(queue) \in Chunk /\ Tail(queue) \in Seq(Chunk)
        /\ Len(Tail(queue)) = Len(queue) - 1
    BY <2>1, HeadTailProperties
  <2>3. IsFiniteSet(uploading)
    BY DEF QueueInv
  <2>4. /\ IsFiniteSet(uploading') /\ Cardinality(uploading) \in Nat
        /\ Cardinality(uploading') \in {Cardinality(uploading), Cardinality(uploading) + 1}
    <3>1. Cardinality(uploading) \in Nat
      BY <2>3, FS_CardinalityType
    <3>2. /\ IsFiniteSet(uploading \cup {Head(queue)})
          /\ Cardinality(uploading \cup {Head(queue)}) =
               IF Head(queue) \in uploading THEN Cardinality(uploading)
                                            ELSE Cardinality(uploading) + 1
      BY <2>3, FS_AddElement
    <3> QED
      BY <2>1, <3>1, <3>2
  <2>5. Len(queue') <= QueueSize /\ Cardinality(uploading') <= Workers
    <3>1. Len(queue) \in Nat /\ QueueSize \in Nat /\ Workers \in Nat
      BY <2>1, LenProperties, SizesPositive
    <3> QED
      BY <2>1, <2>2, <2>4, <3>1, SMT
  <2> QED
    BY <2>1, <2>2, <2>4, <2>5 DEF QueueInv
<1>7. CASE WorkerUploads
  <2>1. PICK c \in uploading : /\ uploading' = uploading \ {c} /\ sent' = sent \cup {c}
                               /\ queue' = queue
    BY <1>7 DEF WorkerUploads
  <2>2. IsFiniteSet(uploading) /\ Cardinality(uploading) \in Nat
    BY FS_CardinalityType DEF QueueInv
  <2>3. /\ IsFiniteSet(uploading \ {c})
        /\ Cardinality(uploading \ {c}) = Cardinality(uploading) - 1
    BY <2>2, FS_RemoveElement
  <2>4. Cardinality(uploading') <= Workers
    BY <2>1, <2>2, <2>3, SizesPositive, SMT DEF QueueInv
  <2> QED
    BY <2>1, <2>3, <2>4 DEF QueueInv
<1>8. CASE Run /\ ~FlushPushes
  <2>1. UNCHANGED <<queue, uploading, sent>>
    BY <1>8 DEF Run, Begin, StartJob, Refuse, RunProcess, ProcessFails, Fork, RecordPid, Reap,
       ProcessReturns, ReadStopping, ReadCancelled, Flush, FlushLocks, StopStreamer, WorkersDone,
       StopHeaderTimes, HeaderTimesDone, FinishJob, ProcUnchanged, CleanUnchanged, logVars
  <2> QED
    BY <1>1, <2>1
<1>9. CASE StreamLoop /\ ~StreamPushes
  <2>1. UNCHANGED <<queue, uploading, sent>>
    BY <1>9 DEF StreamLoop, StreamWakes, StreamTakes, StreamLocks, StreamDrops, StreamEnds,
       StreamUnchanged
  <2> QED
    BY <1>1, <2>1
<1>10. CASE Process \/ CopyOutput \/ ClosePipe \/ HeaderTimes \/ UNCHANGED vars
  <2>1. UNCHANGED <<queue, uploading, sent>>
    BY <1>10 DEF Process, ProcessWrites, ProcessDies, CopyOutput, ClosePipe, HeaderTimes,
       HeaderTimesRun, HeaderTimesEnd, ProcUnchanged, logVars, vars
  <2> QED
    BY <1>1, <2>1
<1>11. CASE Checker \/ AgentCancels \/ Cancelling
  <2>1. UNCHANGED <<queue, uploading, sent>>
    BY <1>11 DEF Checker, CheckerWakes, CheckerSeesCancel, CheckerEnds, CheckerCancels,
       AgentCancels, Cancel, Cancelling, CancelInterrupts, GraceDone, GraceOver, CancelReturns,
       CancelUnchanged, logVars
  <2> QED
    BY <1>1, <2>1
<1> QED
  BY Zenon, <1>4, <1>5, <1>6, <1>7, <1>8, <1>9, <1>10, <1>11 DEF Next, UploadWorkers

\* The places of Run, of the helpers, of the process and of Cancel.
LEMMA ControlStep == ControlTypes /\ [Next]_vars => ControlTypes'
<1> SUFFICES ASSUME ControlTypes, [Next]_vars PROVE ControlTypes'
  OBVIOUS
<1> USE DEF ControlTypes, runVars, procVars, outVars, strVars, logVars, cancelVars, hdrVars
<1>1. CASE Begin \/ StartJob
  BY <1>1 DEF Begin, StartJob
<1>2. CASE Refuse \/ RunProcess
  BY <1>2 DEF Refuse, RunProcess
<1>3. CASE ProcessFails \/ Fork \/ RecordPid \/ Reap
  BY <1>3 DEF ProcessFails, Fork, RecordPid, Reap, ProcUnchanged
<1>4. CASE ProcessReturns \/ ReadStopping \/ ReadCancelled
  BY <1>4 DEF ProcessReturns, ReadStopping, ReadCancelled, ProcUnchanged
<1>5. CASE Process \/ CopyOutput \/ ClosePipe
  BY <1>5 DEF Process, ProcessWrites, ProcessDies, CopyOutput, ClosePipe, ProcUnchanged
<1>6. CASE Flush \/ FlushLocks
  BY <1>6 DEF Flush, FlushLocks, CleanUnchanged
<1>7. CASE FlushPushes
  BY <1>7, SMT DEF FlushPushes, CleanUnchanged
<1>8. CASE StopStreamer \/ WorkersDone \/ StopHeaderTimes \/ HeaderTimesDone \/ FinishJob
  BY <1>8 DEF StopStreamer, WorkersDone, StopHeaderTimes, HeaderTimesDone, FinishJob,
     CleanUnchanged
<1>9. CASE StreamWakes \/ StreamTakes \/ StreamEnds
  BY <1>9 DEF StreamWakes, StreamTakes, StreamEnds, StreamUnchanged
<1>10. CASE StreamLocks \/ StreamDrops
  BY <1>10 DEF StreamLocks, StreamDrops, StreamUnchanged
<1>11. CASE StreamPushes
  BY <1>11, SMT DEF StreamPushes, StreamUnchanged
<1>12. CASE UploadWorkers
  <2>1. UNCHANGED <<runVars, procVars, outClosed, pwClosed, overtaken, strPc, mutex, stopped,
                    cancelVars, hdrVars>>
    BY <1>12 DEF UploadWorkers, WorkerTakes, WorkerUploads
  <2> QED
    BY <2>1, SMT
<1>13. CASE HeaderTimes
  BY <1>13 DEF HeaderTimes, HeaderTimesRun, HeaderTimesEnd
<1>14. CASE CheckerWakes \/ CheckerSeesCancel \/ CheckerEnds
  BY <1>14 DEF CheckerWakes, CheckerSeesCancel, CheckerEnds, CancelUnchanged
<1>15. CASE CheckerCancels \/ AgentCancels
  BY <1>15 DEF CheckerCancels, AgentCancels, Cancel, CancelUnchanged
<1>16. CASE Cancelling
  BY <1>16 DEF Cancelling, CancelInterrupts, GraceDone, GraceOver, CancelReturns, Send,
     CancelUnchanged
<1>17. CASE UNCHANGED vars
  BY <1>17, SMT DEF vars
<1> QED
  BY Zenon, <1>1, <1>2, <1>3, <1>4, <1>5, <1>6, <1>7, <1>8, <1>9, <1>10, <1>11, <1>12, <1>13,
     <1>14, <1>15, <1>16, <1>17 DEF Next, Run, StreamLoop, Checker

\* For any amount of output, any chunk size, any queue and any number of upload
\* workers: the queue never holds more chunks than its capacity, no more chunks
\* are under way than there are workers, and no chunk number passes the number
\* of pieces written, also when the cancelled context drops a numbered chunk.
THEOREM JobStateTyped == Spec => []TypeOK
<1>1. Init => LimitInv /\ QueueInv /\ ControlTypes
  <2>1. Init => ControlTypes
    BY DEF Init, ControlTypes
  <2> QED
    BY <2>1, LimitInit
<1>2. RunInv /\ LimitInv /\ [Next]_vars => LimitInv'
  BY Zenon, LimitMoves, LimitOutput DEF Next, Run, Process, StreamLoop
<1>3. LimitInv /\ QueueInv /\ ControlTypes => TypeOK
  <2> SUFFICES ASSUME LimitInv, QueueInv, ControlTypes PROVE TypeOK
    OBVIOUS
  <2>1. /\ Len(pipe) \in Nat /\ Len(out) \in Nat /\ Len(held) \in Nat /\ Len(final) \in Nat
        /\ wrote \in 0..MaxOutput /\ order \in Nat /\ MaxOutput \in Nat
        /\ Len(pipe) + Len(out) + Len(held) + Len(final) + order <= wrote
    BY LenProperties, SizesPositive DEF LimitInv
  <2>2. /\ Len(pipe) <= MaxOutput /\ Len(out) <= MaxOutput /\ Len(held) <= MaxOutput
        /\ Len(final) <= MaxOutput /\ order \in 0..MaxOutput
    BY <2>1, SMT
  <2>3. \A s \in {pipe, out, held, final} : s \in Pieces
    BY <2>2, Short DEF LimitInv
  <2>4. \A i \in DOMAIN queue : queue[i] \in Chunk
    BY LenProperties DEF QueueInv
  <2> QED
    BY <2>1, <2>2, <2>3, <2>4 DEF TypeOK, QueueInv
<1> QED
  BY <1>1, <1>2, <1>3, RunInvariant, QueueStep, ControlStep, PTL DEF Spec
=============================================================================
