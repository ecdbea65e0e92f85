------------------------------ MODULE Hydrator ------------------------------
(***************************************************************************)
(* The hydrator of artifact-fs (internal/hydrator) over the fetches of     *)
(* internal/gitstore: FUSE requests ask for blobs, a pool of workers       *)
(* fetches them with `git cat-file --batch` into the blob cache, and a     *)
(* cached blob is hashed once before it is trusted.                        *)
(*                                                                         *)
(* A file of the cache is "none", "part" (not the whole blob) or "whole".  *)
(* A worker writes <blob>.tmp and renames it.  The .tmp file is named      *)
(* after the blob, so two workers fetching one blob share it: creating it  *)
(* again truncates the file the other one is writing, and renaming it      *)
(* moves that file into the cache under the other one's descriptor.  fd    *)
(* says where the file a worker writes is now, late that it was truncated  *)
(* after the worker opened it.                                             *)
(***************************************************************************)
EXTENDS Integers, Sequences, FiniteSets

CONSTANTS Blob,       \* object ids
          Client,     \* FUSE requests that may run at once
          Worker,     \* hydration workers
          MaxPrefetch \* bound on the prefetched blobs in the queue

ASSUME WorkerAssumption == Worker # {}

VARIABLES
  cache, tmp,         \* BlobCacheDir: the blobs and their .tmp files
  pq,                 \* Service.pq: the tasks of each priority, oldest first
  wait, verifying,    \* the inflight maps: the requests waiting for a blob
  verified, workReady,
  checks,             \* the runVerification goroutines of each blob
  worker,
  call,               \* the EnsureHydrated call of each request
  known               \* blobs with size_state 'known' in the snapshot

serviceVars == <<pq, wait, verifying, verified, workReady, checks>>
hydratorVars == <<cache, tmp, serviceVars, worker, call, known>>

NoBlob == ""
FileState == {"none", "part", "whole"}
Check == {"hash", "ok", "bad", "err"}
NoCall == [pc |-> "idle", oid |-> NoBlob, sized |-> FALSE]
NoFetch == [pc |-> "idle", oid |-> NoBlob, waits |-> {}, fd |-> "none",
            late |-> FALSE, try |-> 1]
NoTasks == [read |-> <<>>, prefetch |-> <<>>]

HydratorInit ==
  /\ cache \in [Blob -> FileState]
  /\ tmp = [b \in Blob |-> "none"]
  /\ pq = NoTasks
  /\ wait = [b \in Blob |-> {}]
  /\ verifying = [b \in Blob |-> {}]
  /\ verified = {}
  /\ workReady = FALSE
  /\ checks = [b \in Blob |-> {}]
  /\ worker = [w \in Worker |-> NoFetch]
  /\ call = [c \in Client |-> NoCall]
  /\ known = {}

\* A new Service over the same cache directory, after the process was killed.
NewService ==
  /\ pq' = NoTasks
  /\ wait' = [b \in Blob |-> {}]
  /\ verifying' = [b \in Blob |-> {}]
  /\ verified' = {}
  /\ workReady' = FALSE
  /\ checks' = [b \in Blob |-> {}]
  /\ worker' = [w \in Worker |-> NoFetch]
  /\ call' = [c \in Client |-> NoCall]

CallPlace == {"idle", "stat", "remove", "clear", "check", "verifying", "join", "waiting",
              "ok", "err"}
HydrateCall == [pc : CallPlace, oid : Blob \cup {NoBlob}, sized : BOOLEAN]
Fetch == [pc : {"idle", "step", "create", "copy", "rename", "mark"},
          oid : Blob \cup {NoBlob}, waits : SUBSET Client,
          fd : {"none", "tmp", "cache", "gone"}, late : BOOLEAN, try : 1..2]

HydratorTypeOK ==
  /\ cache \in [Blob -> FileState] /\ tmp \in [Blob -> FileState]
  /\ pq \in [read : Seq(Blob), prefetch : Seq(Blob)]
  /\ wait \in [Blob -> SUBSET Client] /\ verifying \in [Blob -> SUBSET Client]
  /\ verified \subseteq Blob /\ known \subseteq Blob
  /\ workReady \in BOOLEAN
  /\ checks \in [Blob -> SUBSET Check]
  /\ worker \in [Worker -> Fetch]
  /\ call \in [Client -> HydrateCall]

-----------------------------------------------------------------------------
(* EnsureHydrated *)

At(c, pc) == call[c].pc = pc
Goto(c, pc) == call' = [call EXCEPT ![c].pc = pc]

\* The calls of cs return or go on at pc.
notifyWaiters(cs, pc) ==
  [c \in Client |-> IF c \in cs THEN [call[c] EXCEPT !.pc = pc] ELSE call[c]]

\* heap.Push, and the priority of the task that heap.Pop takes.
Push(pri, b) == pq' = [pq EXCEPT ![pri] = Append(@, b)]
Top == IF pq.read # <<>> THEN "read" ELSE "prefetch"

\* Where descriptors of b's files lead when the name at `from` moves to `to`.
Moved(b, from, to) ==
  [w \in Worker |->
     IF worker[w].oid = b /\ worker[w].fd = from THEN [worker[w] EXCEPT !.fd = to]
     ELSE IF worker[w].oid = b /\ worker[w].fd = to
       THEN [worker[w] EXCEPT !.fd = "gone"] ELSE worker[w]]

\* os.Stat of the cached blob, and the comparison of its size.
StatCache(c) ==
  /\ At(c, "stat")
  /\ LET b == call[c].oid IN
     Goto(c, CASE cache[b] = "none" -> "join"
               [] cache[b] = "part" /\ call[c].sized -> "remove"
               [] OTHER -> "check")
  /\ UNCHANGED <<cache, tmp, serviceVars, worker, known>>

\* removeInvalidCacheFile removes the file, whatever it is by now,
RemoveInvalid(c) ==
  /\ At(c, "remove")
  /\ cache' = [cache EXCEPT ![call[c].oid] = "none"]
  /\ worker' = Moved(call[c].oid, "cache", "gone")
  /\ Goto(c, "clear")
  /\ UNCHANGED <<tmp, serviceVars, known>>

\* and then what was known of it.
ClearVerified(c) ==
  /\ At(c, "clear")
  /\ verified' = verified \ {call[c].oid}
  /\ Goto(c, "join")
  /\ UNCHANGED <<cache, tmp, pq, wait, verifying, workReady, checks, worker, known>>

\* isVerified and verifyBlobOnce: the first request starts the goroutine.
VerifyOnce(c) ==
  /\ At(c, "check")
  /\ LET b == call[c].oid IN
     IF b \in verified
     THEN Goto(c, "ok") /\ UNCHANGED <<verifying, checks>>
     ELSE /\ verifying' = [verifying EXCEPT ![b] = @ \cup {c}]
          /\ checks' = IF verifying[b] = {} THEN [checks EXCEPT ![b] = @ \cup {"hash"}]
                                            ELSE checks
          /\ Goto(c, "verifying")
  /\ UNCHANGED <<cache, tmp, pq, wait, verified, workReady, worker, known>>

\* VerifyBlob: git hash-object over the file as it is now.
Hash(b) ==
  /\ "hash" \in checks[b]
  /\ LET r == CASE cache[b] = "whole" -> "ok" [] cache[b] = "part" -> "bad"
                [] OTHER -> "err" IN
     checks' = [checks EXCEPT ![b] = (@ \ {"hash"}) \cup {r}]
  /\ UNCHANGED <<cache, tmp, pq, wait, verifying, verified, workReady, worker, call,
                 known>>

\* The end of runVerification, and how validateCachedBlob takes its answer.
Report(b, r) ==
  /\ r \in checks[b] \ {"hash"}
  /\ checks' = [checks EXCEPT ![b] = @ \ {r}]
  /\ verified' = IF r = "ok" THEN verified \cup {b} ELSE verified
  /\ verifying' = [verifying EXCEPT ![b] = {}]
  /\ call' = notifyWaiters(verifying[b], CASE r = "ok" -> "ok" [] r = "bad" -> "remove"
                                           [] OTHER -> "join")
  /\ UNCHANGED <<cache, tmp, pq, wait, workReady, worker, known>>

\* The request waits for a fetch, and orders one if nobody waits yet.
Join(c) ==
  /\ At(c, "join")
  /\ LET b == call[c].oid IN
     /\ wait' = [wait EXCEPT ![b] = @ \cup {c}]
     /\ IF wait[b] = {}
        THEN Push("read", b) /\ workReady' = TRUE
        ELSE UNCHANGED <<pq, workReady>>
  /\ Goto(c, "waiting")
  /\ UNCHANGED <<cache, tmp, verifying, verified, checks, worker, known>>

\* ctx.Done: the channel leaves the wait list, or is abandoned by its reader.
Cancel(c) ==
  /\ call[c].pc \in {"waiting", "verifying"}
  /\ wait' = [b \in Blob |-> wait[b] \ {c}]
  /\ verifying' = [b \in Blob |-> verifying[b] \ {c}]
  /\ worker' = [w \in Worker |-> [worker[w] EXCEPT !.waits = @ \ {c}]]
  /\ Goto(c, "err")
  /\ UNCHANGED <<cache, tmp, pq, verified, workReady, checks, known>>

-----------------------------------------------------------------------------
(* The workers *)

\* Enqueue of a prefetched blob.
Enqueue(b) ==
  /\ Len(pq.prefetch) < MaxPrefetch
  /\ Push("prefetch", b)
  /\ workReady' = TRUE
  /\ UNCHANGED <<cache, tmp, wait, verifying, verified, checks, worker, call, known>>

Wake(w) ==
  /\ worker[w].pc = "idle" /\ workReady
  /\ workReady' = FALSE
  /\ worker' = [worker EXCEPT ![w].pc = "step"]
  /\ UNCHANGED <<cache, tmp, pq, wait, verifying, verified, checks, call, known>>

\* step takes a task and everyone who waits for its blob.
Step(w) ==
  /\ worker[w].pc = "step"
  /\ IF pq[Top] = <<>>
     THEN worker' = [worker EXCEPT ![w] = NoFetch] /\ UNCHANGED <<pq, wait>>
     ELSE LET b == Head(pq[Top]) IN
          /\ pq' = [pq EXCEPT ![Top] = Tail(@)]
          /\ worker' = [worker EXCEPT ![w] = [NoFetch EXCEPT !.pc = "create", !.oid = b,
                                                             !.waits = wait[b]]]
          /\ wait' = [wait EXCEPT ![b] = {}]
  /\ UNCHANGED <<cache, tmp, verifying, verified, workReady, checks, call, known>>

\* The mutant of Finish: the worker does not go on with the queue.
MutFinish(w, res, workers) ==
  /\ call' = notifyWaiters(worker[w].waits, res)
  /\ worker' = [workers EXCEPT ![w] = NoFetch]
  /\ UNCHANGED workReady

\* step returns, and the worker signals before it takes the next task.
Finish(w, res, workers) ==
  /\ call' = notifyWaiters(worker[w].waits, res)
  /\ worker' = [workers EXCEPT ![w] = [NoFetch EXCEPT !.pc = "step"]]
  /\ workReady' = TRUE

\* The mutant of CreateTmp: the blob is streamed into the cache itself.
MutCreateTmp(w) ==
  /\ worker[w].pc = "create"
  /\ cache' = [cache EXCEPT ![worker[w].oid] = "part"]
  /\ tmp' = [tmp EXCEPT ![worker[w].oid] = "whole"]
  /\ worker' = [worker EXCEPT ![w].pc = "copy", ![w].fd = "cache"]
  /\ UNCHANGED <<serviceVars, call, known>>

\* fetchToFile: git has answered with the header, and os.Create.
CreateTmp(w) ==
  /\ worker[w].pc = "create"
  /\ tmp' = [tmp EXCEPT ![worker[w].oid] = "part"]
  /\ worker' = [v \in Worker |->
       IF v = w THEN [worker[w] EXCEPT !.pc = "copy", !.fd = "tmp", !.late = FALSE]
       ELSE IF worker[v].oid = worker[w].oid /\ worker[v].fd = "tmp"
         THEN [worker[v] EXCEPT !.late = TRUE] ELSE worker[v]]
  /\ UNCHANGED <<cache, serviceVars, call, known>>

\* io.CopyN.  A file truncated meanwhile may have lost what was copied before.
Copy(w) ==
  /\ worker[w].pc = "copy"
  /\ \E lost \in IF worker[w].late THEN BOOLEAN ELSE {FALSE} :
     LET b == worker[w].oid  put == ~lost IN
     /\ tmp' = IF put /\ worker[w].fd = "tmp" THEN [tmp EXCEPT ![b] = "whole"] ELSE tmp
     /\ cache' = IF put /\ worker[w].fd = "cache" THEN [cache EXCEPT ![b] = "whole"]
                                                   ELSE cache
  /\ worker' = [worker EXCEPT ![w].pc = "rename"]
  /\ UNCHANGED <<serviceVars, call, known>>

\* BlobToCache after a failed fetchToFile: one more try with another process.
Retry(w, workers) ==
  IF worker[w].try = 1
  THEN /\ worker' = [workers EXCEPT ![w].pc = "create", ![w].try = 2, ![w].fd = "none",
                                    ![w].late = FALSE]
       /\ UNCHANGED <<call, workReady>>
  ELSE Finish(w, "err", workers)

\* git fails before or in the middle of the content; .tmp is removed by name.
FetchFails(w) ==
  /\ worker[w].pc \in {"create", "copy"}
  /\ IF worker[w].pc = "copy"
     THEN /\ tmp' = [tmp EXCEPT ![worker[w].oid] = "none"]
          /\ Retry(w, Moved(worker[w].oid, "tmp", "gone"))
     ELSE Retry(w, worker) /\ UNCHANGED tmp
  /\ UNCHANGED <<cache, pq, wait, verifying, verified, checks, known>>

RenameTmp(w) ==
  /\ worker[w].pc = "rename"
  /\ LET b == worker[w].oid IN
     IF tmp[b] = "none"
     THEN Retry(w, worker) /\ UNCHANGED <<cache, tmp>>
     ELSE /\ cache' = [cache EXCEPT ![b] = tmp[b]]
          /\ tmp' = [tmp EXCEPT ![b] = "none"]
          /\ worker' = [Moved(b, "tmp", "cache") EXCEPT ![w].pc = "mark"]
          /\ UNCHANGED <<call, workReady>>
  /\ UNCHANGED <<pq, wait, verifying, verified, checks, known>>

\* markVerified, the waiters, and onHydrated: UpdateSize in the snapshot.
Hydrated(w) ==
  /\ worker[w].pc = "mark"
  /\ verified' = verified \cup {worker[w].oid}
  /\ known' = known \cup {worker[w].oid}
  /\ Finish(w, "ok", worker)
  /\ UNCHANGED <<cache, tmp, pq, wait, verifying, checks>>

CallStep(c) ==
  \/ StatCache(c) \/ RemoveInvalid(c) \/ ClearVerified(c) \/ VerifyOnce(c) \/ Join(c)
VerifyStep(b) == Hash(b) \/ \E r \in Check : Report(b, r)
WorkerStep(w) ==
  \/ Wake(w) \/ Step(w) \/ CreateTmp(w) \/ Copy(w) \/ FetchFails(w) \/ RenameTmp(w)
  \/ Hydrated(w)

\* The call has not returned.
Hydrating(c) == call[c].pc \notin {"idle", "ok", "err"}
=============================================================================
