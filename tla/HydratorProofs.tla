--------------------------- MODULE HydratorProofs ---------------------------
(***************************************************************************)
(* What every step of the hydrator keeps, for any blobs, any number of     *)
(* requests at once and any number of workers: the types, that a request   *)
(* waits in one list and under its own blob, that a call that has returned *)
(* is left alone; and, for a single worker over an intact cache, that what *)
(* is in the cache is whole.                                               *)
(***************************************************************************)
EXTENDS Hydrator, TLAPS

\* The leaves are for Zenon, but for those that name another prover.
USE Zenon

-----------------------------------------------------------------------------
(* The invariants *)

StoreTypes ==
  /\ cache \in [Blob -> FileState] /\ tmp \in [Blob -> FileState]
  /\ pq \in [read : Seq(Blob), prefetch : Seq(Blob)]
  /\ wait \in [Blob -> SUBSET Client] /\ verifying \in [Blob -> SUBSET Client]
  /\ verified \subseteq Blob /\ known \subseteq Blob
  /\ workReady \in BOOLEAN
  /\ checks \in [Blob -> SUBSET Check]

\* Who is under way is so for a blob.
CallTypes ==
  /\ call \in [Client -> HydrateCall]
  /\ \A c \in Client : call[c].pc # "idle" => call[c].oid \in Blob
FetchTypes ==
  /\ worker \in [Worker -> Fetch]
  /\ \A w \in Worker : worker[w].pc \notin {"idle", "step"} => worker[w].oid \in Blob

\* A request is in at most one list, under the blob it asked for, and nobody is
\* in a list who does not wait.
WaitInv ==
  /\ \A b \in Blob : \A c \in wait[b] : call[c].pc = "waiting" /\ call[c].oid = b
  /\ \A b \in Blob : \A c \in verifying[b] : call[c].pc = "verifying" /\ call[c].oid = b
  /\ \A w \in Worker : \A c \in worker[w].waits :
       /\ call[c].pc = "waiting" /\ call[c].oid = worker[w].oid
       /\ c \notin wait[worker[w].oid]
  /\ \A v, w \in Worker : v # w => worker[v].waits \cap worker[w].waits = {}

HydratorInv == StoreTypes /\ CallTypes /\ FetchTypes /\ WaitInv

\* With one worker over an intact cache: what is in the cache is whole, nothing
\* is found bad, and who is told "ok" finds the blob.
BlobsWhole ==
  /\ \A b \in Blob : cache[b] \in {"none", "whole"} /\ "bad" \notin checks[b]
  /\ \A b \in Blob : b \in verified \/ "ok" \in checks[b] => cache[b] = "whole"
CallsWhole ==
  \A c \in Client : /\ call[c].pc \notin {"remove", "clear"}
                    /\ call[c].pc = "ok" => cache[call[c].oid] = "whole"
FetchWhole(one) ==
  /\ worker[one].pc = "copy" => worker[one].fd = "tmp" /\ ~worker[one].late
  /\ worker[one].pc = "rename" => tmp[worker[one].oid] = "whole"
  /\ worker[one].pc = "mark" => cache[worker[one].oid] = "whole"
CacheInv(one) == BlobsWhole /\ CallsWhole /\ FetchWhole(one)

\* A step that leaves the blob of every call, and the calls that have returned,
\* as they are.
CallsKept ==
  \A c \in Client : /\ call'[c].oid = call[c].oid
                    /\ call[c].pc \in {"idle", "ok", "err"} => call'[c] = call[c]

-----------------------------------------------------------------------------
(* How calls and workers move *)

\* The invariant gives the type invariant of the hydrator.
LEMMA HydratorTyped == HydratorInv => HydratorTypeOK
  BY Zenon DEF HydratorInv, StoreTypes, CallTypes, FetchTypes, HydratorTypeOK

\* The records for "nothing" have the types of the others.
LEMMA NothingTyped ==
  /\ NoCall \in HydrateCall /\ NoCall.pc = "idle"
  /\ NoFetch \in Fetch /\ NoFetch.pc = "idle" /\ NoFetch.waits = {}
  /\ NoTasks \in [read : Seq(Blob), prefetch : Seq(Blob)]
<1>1. NoCall \in HydrateCall /\ NoCall.pc = "idle"
  BY DEF NoCall, HydrateCall, CallPlace
<1>2. NoFetch \in Fetch /\ NoFetch.pc = "idle" /\ NoFetch.waits = {}
  BY SMT DEF NoFetch, Fetch
<1>3. NoTasks \in [read : Seq(Blob), prefetch : Seq(Blob)]
  BY SMT DEF NoTasks
<1> QED
  BY <1>1, <1>2, <1>3

\* One call goes on.
LEMMA CallGoes ==
  ASSUME CallTypes, NEW c \in Client, NEW pc \in CallPlace, call[c].pc # "idle", Goto(c, pc)
  PROVE  /\ CallTypes'
         /\ call'[c].pc = pc
         /\ \A d \in Client : call'[d].oid = call[d].oid
         /\ \A d \in Client \ {c} : call'[d] = call[d]
<1>1. call[c] \in HydrateCall /\ call[c].oid \in Blob
  BY DEF CallTypes
<1> DEFINE new == [call[c] EXCEPT !.pc = pc]
<1>2. new \in HydrateCall /\ new.pc = pc /\ new.oid = call[c].oid
  BY <1>1 DEF HydrateCall
<1>3. call' = [call EXCEPT ![c] = new]
  BY DEF Goto
<1> HIDE DEF new
<1>4. /\ call' \in [Client -> HydrateCall] /\ call'[c] = new
      /\ \A d \in Client \ {c} : call'[d] = call[d]
  BY <1>2, <1>3 DEF CallTypes
<1> QED
  BY <1>1, <1>2, <1>4 DEF CallTypes

\* The calls of a list go on.
LEMMA CallsNotified ==
  ASSUME CallTypes, NEW cs \in SUBSET Client, NEW pc \in CallPlace,
         \A c \in cs : call[c].pc # "idle", call' = notifyWaiters(cs, pc)
  PROVE  /\ CallTypes'
         /\ \A c \in Client : call'[c].oid = call[c].oid
         /\ \A c \in cs : call'[c].pc = pc
         /\ \A c \in Client \ cs : call'[c] = call[c]
<1>1. \A c \in Client : call[c] \in HydrateCall
  BY DEF CallTypes
<1>2. \A c \in Client :
        /\ [call[c] EXCEPT !.pc = pc] \in HydrateCall
        /\ [call[c] EXCEPT !.pc = pc].pc = pc
        /\ [call[c] EXCEPT !.pc = pc].oid = call[c].oid
  BY <1>1 DEF HydrateCall
<1>3. \A c \in Client :
        call'[c] = IF c \in cs THEN [call[c] EXCEPT !.pc = pc] ELSE call[c]
  BY DEF notifyWaiters
<1>4. call' \in [Client -> HydrateCall]
  BY <1>1, <1>2 DEF notifyWaiters
<1>5. /\ \A c \in Client : call'[c].oid = call[c].oid
      /\ \A c \in cs : call'[c].pc = pc
      /\ \A c \in Client \ cs : call'[c] = call[c]
  BY <1>2, <1>3
<1> QED
  BY <1>4, <1>5 DEF CallTypes

\* Renaming or removing a file changes nothing of a worker but where its
\* descriptor leads.
LEMMA MovedKeeps ==
  ASSUME FetchTypes, NEW b, NEW from, NEW to \in {"cache", "gone"}
  PROVE  /\ Moved(b, from, to) \in [Worker -> Fetch]
         /\ \A w \in Worker :
              /\ Moved(b, from, to)[w].pc = worker[w].pc
              /\ Moved(b, from, to)[w].oid = worker[w].oid
              /\ Moved(b, from, to)[w].waits = worker[w].waits
              /\ Moved(b, from, to)[w].late = worker[w].late
              /\ worker[w].oid # b => Moved(b, from, to)[w] = worker[w]
<1> DEFINE M == Moved(b, from, to)
<1>1. \A w \in Worker : worker[w] \in Fetch
  BY DEF FetchTypes
<1>3. \A w \in Worker :
        M[w] = worker[w] \/ /\ worker[w].oid = b
                            /\ \E fd \in {"cache", "gone"} : M[w] = [worker[w] EXCEPT !.fd = fd]
  BY DEF Moved
<1>4. M = [w \in Worker |-> M[w]]
  BY DEF Moved
<1> HIDE DEF M
<1>5. ASSUME NEW w \in Worker
      PROVE  /\ M[w] \in Fetch /\ M[w].pc = worker[w].pc /\ M[w].oid = worker[w].oid
             /\ M[w].waits = worker[w].waits /\ M[w].late = worker[w].late
             /\ worker[w].oid # b => M[w] = worker[w]
  <2>1. CASE M[w] = worker[w]
    BY Zenon, <1>1, <2>1
  <2>2. ASSUME worker[w].oid = b, NEW fd \in {"cache", "gone"},
               M[w] = [worker[w] EXCEPT !.fd = fd]
        PROVE  /\ M[w] \in Fetch /\ M[w].pc = worker[w].pc /\ M[w].oid = worker[w].oid
               /\ M[w].waits = worker[w].waits /\ M[w].late = worker[w].late
    BY <1>1, <2>2 DEF Fetch
  <2> QED
    BY Zenon, <1>3, <2>1, <2>2
<1>6. M \in [Worker -> Fetch]
  BY <1>4, <1>5
<1> QED
  BY <1>5, <1>6 DEF M

\* The lists stay right when they, and those who are in them, stay as they are.
LEMMA WaitFrame ==
  ASSUME StoreTypes, FetchTypes, WaitInv, UNCHANGED <<wait, verifying>>,
         \A c \in Client : call[c].pc \in {"waiting", "verifying"} =>
           call'[c].pc = call[c].pc /\ call'[c].oid = call[c].oid,
         \A w \in Worker : worker'[w].waits = worker[w].waits /\ worker'[w].oid = worker[w].oid
  PROVE  WaitInv'
<1>1. /\ \A b \in Blob : wait[b] \subseteq Client /\ verifying[b] \subseteq Client
      /\ \A w \in Worker : worker[w].waits \subseteq Client
  BY DEF StoreTypes, FetchTypes, Fetch
<1>2. ASSUME NEW b \in Blob, NEW c \in wait'[b]
      PROVE  call'[c].pc = "waiting" /\ call'[c].oid = b
  BY <1>1, <1>2, SMT DEF WaitInv
<1>3. ASSUME NEW b \in Blob, NEW c \in verifying'[b]
      PROVE  call'[c].pc = "verifying" /\ call'[c].oid = b
  BY <1>1, <1>3, SMT DEF WaitInv
<1>4. ASSUME NEW w \in Worker, NEW c \in worker'[w].waits
      PROVE  /\ call'[c].pc = "waiting" /\ call'[c].oid = worker'[w].oid
             /\ c \notin wait'[worker'[w].oid]
  <2>1. c \in worker[w].waits /\ c \in Client /\ worker'[w].oid = worker[w].oid
    BY <1>1, <1>4
  <2> QED
    BY <2>1, SMT DEF WaitInv
<1>5. \A v, w \in Worker : v # w => worker'[v].waits \cap worker'[w].waits = {}
  BY DEF WaitInv
<1> QED
  BY <1>2, <1>3, <1>4, <1>5 DEF WaitInv

\* A call that is in no list goes on, and the lists stay as they are.
LEMMA CallAlone ==
  ASSUME HydratorInv, NEW c \in Client, NEW pc \in CallPlace,
         call[c].pc \in {"stat", "remove", "clear", "check", "join"}, Goto(c, pc),
         StoreTypes', FetchTypes', UNCHANGED <<wait, verifying>>,
         \A w \in Worker : worker'[w].waits = worker[w].waits /\ worker'[w].oid = worker[w].oid
  PROVE  HydratorInv' /\ CallsKept
<1>1. StoreTypes /\ CallTypes /\ FetchTypes /\ WaitInv
  BY DEF HydratorInv
<1>2. /\ CallTypes' /\ \A d \in Client : call'[d].oid = call[d].oid
      /\ \A d \in Client \ {c} : call'[d] = call[d]
  BY <1>1, CallGoes
<1>3. WaitInv'
  BY <1>1, <1>2, WaitFrame
<1> QED
  BY <1>2, <1>3 DEF HydratorInv, CallsKept

\* A worker goes on without a word to those who wait for it.
LEMMA FetchAlone ==
  ASSUME HydratorInv, UNCHANGED <<wait, verifying, call>>, StoreTypes', FetchTypes',
         \A w \in Worker : worker'[w].waits = worker[w].waits /\ worker'[w].oid = worker[w].oid
  PROVE  HydratorInv' /\ CallsKept
<1>1. StoreTypes /\ CallTypes /\ FetchTypes /\ WaitInv
  BY DEF HydratorInv
<1>2. WaitInv'
  BY <1>1, WaitFrame
<1>3. CallTypes' /\ CallsKept
  BY <1>1 DEF CallTypes, CallsKept
<1> QED
  BY <1>2, <1>3 DEF HydratorInv

-----------------------------------------------------------------------------
(* The steps of a call *)

\* The queue holds blobs.
LEMMA PushTyped ==
  ASSUME StoreTypes, NEW pri \in {"read", "prefetch"}, NEW b \in Blob, Push(pri, b)
  PROVE  pq' \in [read : Seq(Blob), prefetch : Seq(Blob)]
<1>1. pq \in [read : Seq(Blob), prefetch : Seq(Blob)]
  BY DEF StoreTypes
<1>2. /\ Append(pq.read, b) \in Seq(Blob)
      /\ Append(pq.prefetch, b) \in Seq(Blob)
  BY <1>1, SMT
<1>3. ASSUME NEW s \in Seq(Blob)
      PROVE  /\ [pq EXCEPT !.read = s] \in [read : Seq(Blob), prefetch : Seq(Blob)]
             /\ [pq EXCEPT !.prefetch = s] \in [read : Seq(Blob), prefetch : Seq(Blob)]
  BY <1>1, Zenon
<1>4. \/ pq' = [pq EXCEPT !.read = Append(pq.read, b)]
      \/ pq' = [pq EXCEPT !.prefetch = Append(pq.prefetch, b)]
  BY DEF Push
<1> QED
  BY Zenon, <1>2, <1>3, <1>4

\* A request joins the list of those who wait for its blob.
LEMMA JoinKeeps ==
  ASSUME HydratorInv, NEW c \in Client, Join(c)
  PROVE  HydratorInv' /\ CallsKept
<1> DEFINE b == call[c].oid
<1>1. StoreTypes /\ CallTypes /\ FetchTypes /\ WaitInv
  BY DEF HydratorInv
<1>2. /\ call[c].pc = "join" /\ Goto(c, "waiting")
      /\ wait' = [wait EXCEPT ![b] = @ \cup {c}]
      /\ IF wait[b] = {} THEN Push("read", b) /\ workReady' = TRUE
                         ELSE UNCHANGED <<pq, workReady>>
      /\ UNCHANGED <<cache, tmp, verifying, verified, checks, worker, known>>
  BY DEF Join, At
<1>3. b \in Blob
  BY <1>1, <1>2 DEF CallTypes
<1>4. /\ CallTypes' /\ call'[c].pc = "waiting"
      /\ \A d \in Client : call'[d].oid = call[d].oid
      /\ \A d \in Client \ {c} : call'[d] = call[d]
  BY <1>1, <1>2, CallGoes DEF CallPlace
<1>5. pq' \in [read : Seq(Blob), prefetch : Seq(Blob)] /\ workReady' \in BOOLEAN
  BY <1>1, <1>2, <1>3, PushTyped DEF StoreTypes
<1>6. wait' \in [Blob -> SUBSET Client]
  BY <1>1, <1>2, <1>3 DEF StoreTypes
<1>7. StoreTypes' /\ FetchTypes'
  BY <1>1, <1>2, <1>5, <1>6 DEF StoreTypes, FetchTypes
<1>8. /\ \A a \in Blob : c \notin wait[a] /\ c \notin verifying[a]
      /\ \A w \in Worker : c \notin worker[w].waits
  BY <1>1, <1>2 DEF WaitInv
<1>9. \A a \in Blob : wait'[a] = IF a = b THEN wait[a] \cup {c} ELSE wait[a]
  BY <1>1, <1>2 DEF StoreTypes
<1>10. /\ \A a \in Blob : wait[a] \subseteq Client /\ verifying[a] \subseteq Client
       /\ \A w \in Worker : worker[w].waits \subseteq Client
  BY <1>1 DEF StoreTypes, FetchTypes, Fetch
<1> HIDE DEF b
<1>11. ASSUME NEW a \in Blob, NEW d \in wait'[a]
       PROVE  call'[d].pc = "waiting" /\ call'[d].oid = a
  <2>1. CASE d = c
    BY <1>4, <1>8, <1>9, <1>11, <2>1 DEF b
  <2>2. CASE d # c
    <3>1. d \in wait[a] /\ call'[d] = call[d]
      BY <1>4, <1>9, <1>10, <1>11, <2>2
    <3> QED
      BY <1>1, <3>1, SMT DEF WaitInv
  <2> QED
    BY <2>1, <2>2
<1>12. ASSUME NEW a \in Blob, NEW d \in verifying'[a]
       PROVE  call'[d].pc = "verifying" /\ call'[d].oid = a
  <2>1. d \in verifying[a] /\ call'[d] = call[d]
    BY <1>2, <1>4, <1>8, <1>10, <1>12
  <2> QED
    BY <1>1, <2>1, SMT DEF WaitInv
<1>13. ASSUME NEW w \in Worker, NEW d \in worker'[w].waits
       PROVE  /\ call'[d].pc = "waiting" /\ call'[d].oid = worker'[w].oid
              /\ d \notin wait'[worker'[w].oid]
  <2>1. d # c /\ d \in worker[w].waits /\ call'[d] = call[d] /\ worker'[w].oid = worker[w].oid
    BY <1>2, <1>4, <1>8, <1>10, <1>13
  <2>2. call[d].pc = "waiting" /\ call[d].oid = worker[w].oid /\ d \notin wait[worker[w].oid]
    BY <1>1, <2>1 DEF WaitInv
  <2>3. wait'[worker[w].oid] \in {wait[worker[w].oid], wait[worker[w].oid] \cup {c}}
    BY <1>1, <1>2, <1>3, SMT DEF StoreTypes
  <2> QED
    BY <2>1, <2>2, <2>3
<1>14. \A v, w \in Worker : v # w => worker'[v].waits \cap worker'[w].waits = {}
  BY <1>1, <1>2 DEF WaitInv
<1>15. WaitInv'
  BY <1>11, <1>12, <1>13, <1>14 DEF WaitInv
<1> QED
  BY <1>2, <1>4, <1>7, <1>15 DEF HydratorInv, CallsKept

\* A request finds the blob verified, or joins those who wait for the verdict.
LEMMA VerifyOnceKeeps ==
  ASSUME HydratorInv, NEW c \in Client, VerifyOnce(c)
  PROVE  HydratorInv' /\ CallsKept
<1> DEFINE b == call[c].oid
<1>1. StoreTypes /\ CallTypes /\ FetchTypes /\ WaitInv
  BY DEF HydratorInv
<1>2. /\ call[c].pc = "check"
      /\ UNCHANGED <<cache, tmp, pq, wait, verified, workReady, worker, known>>
  BY DEF VerifyOnce, At
<1>3. b \in Blob
  BY <1>1, <1>2 DEF CallTypes
<1>4. CASE b \in verified
  <2>1. Goto(c, "ok") /\ UNCHANGED <<verifying, checks>>
    BY <1>4 DEF VerifyOnce
  <2>2. StoreTypes' /\ FetchTypes'
    BY <1>1, <1>2, <2>1 DEF StoreTypes, FetchTypes
  <2> QED
    BY <1>2, <2>1, <2>2, CallAlone DEF CallPlace
<1>5. CASE b \notin verified
  <2>1. /\ Goto(c, "verifying") /\ verifying' = [verifying EXCEPT ![b] = @ \cup {c}]
        /\ checks' = IF verifying[b] = {} THEN [checks EXCEPT ![b] = @ \cup {"hash"}]
                                          ELSE checks
    BY <1>5 DEF VerifyOnce
  <2>2. /\ CallTypes' /\ call'[c].pc = "verifying"
        /\ \A d \in Client : call'[d].oid = call[d].oid
        /\ \A d \in Client \ {c} : call'[d] = call[d]
    BY <1>1, <1>2, <2>1, CallGoes DEF CallPlace
  <2>3. verifying' \in [Blob -> SUBSET Client] /\ checks' \in [Blob -> SUBSET Check]
    BY <1>1, <1>3, <2>1 DEF StoreTypes, Check
  <2>4. StoreTypes' /\ FetchTypes'
    BY <1>1, <1>2, <2>3 DEF StoreTypes, FetchTypes
  <2>5. /\ \A a \in Blob : c \notin wait[a] /\ c \notin verifying[a]
        /\ \A w \in Worker : c \notin worker[w].waits
    BY <1>1, <1>2 DEF WaitInv
  <2>6. \A a \in Blob : verifying'[a] = IF a = b THEN verifying[a] \cup {c} ELSE verifying[a]
    BY <1>1, <2>1 DEF StoreTypes
  <2>7. /\ \A a \in Blob : wait[a] \subseteq Client /\ verifying[a] \subseteq Client
        /\ \A w \in Worker : worker[w].waits \subseteq Client
    BY <1>1 DEF StoreTypes, FetchTypes, Fetch
  <2> HIDE DEF b
  <2>8. ASSUME NEW a \in Blob, NEW d \in verifying'[a]
        PROVE  call'[d].pc = "verifying" /\ call'[d].oid = a
    <3>1. CASE d = c
      BY <2>2, <2>5, <2>6, <2>8, <3>1 DEF b
    <3>2. CASE d # c
      <4>1. d \in verifying[a] /\ call'[d] = call[d]
        BY <2>2, <2>6, <2>7, <2>8, <3>2
      <4> QED
        BY <1>1, <4>1, SMT DEF WaitInv
    <3> QED
      BY <3>1, <3>2
  <2>9. ASSUME NEW a \in Blob, NEW d \in wait'[a]
        PROVE  call'[d].pc = "waiting" /\ call'[d].oid = a
    <3>1. d \in wait[a] /\ call'[d] = call[d]
      BY <1>2, <2>2, <2>5, <2>7, <2>9
    <3> QED
      BY <1>1, <3>1, SMT DEF WaitInv
  <2>10. ASSUME NEW w \in Worker, NEW d \in worker'[w].waits
         PROVE  /\ call'[d].pc = "waiting" /\ call'[d].oid = worker'[w].oid
                /\ d \notin wait'[worker'[w].oid]
    <3>1. d \in worker[w].waits /\ call'[d] = call[d]
      BY <1>2, <2>2, <2>5, <2>7, <2>10
    <3> QED
      BY <1>1, <1>2, <3>1, SMT DEF WaitInv
  <2>11. \A v, w \in Worker : v # w => worker'[v].waits \cap worker'[w].waits = {}
    BY <1>1, <1>2 DEF WaitInv
  <2>12. WaitInv'
    BY <2>8, <2>9, <2>10, <2>11 DEF WaitInv
  <2> QED
    BY <1>2, <2>2, <2>4, <2>12 DEF HydratorInv, CallsKept
<1> QED
  BY <1>4, <1>5

\* The other steps of a call go on without a list.
LEMMA CallStepKeeps ==
  ASSUME HydratorInv, NEW c \in Client, CallStep(c)
  PROVE  HydratorInv' /\ CallsKept
<1>1. StoreTypes /\ CallTypes /\ FetchTypes
  BY DEF HydratorInv
<1>2. CASE StatCache(c)
  <2> DEFINE to == CASE cache[call[c].oid] = "none" -> "join"
                     [] cache[call[c].oid] = "part" /\ call[c].sized -> "remove"
                     [] OTHER -> "check"
  <2>1. to \in {"join", "remove", "check"}
    OBVIOUS
  <2>2. /\ call[c].pc = "stat" /\ Goto(c, to)
        /\ UNCHANGED <<cache, tmp, serviceVars, worker, known>>
    BY <1>2 DEF StatCache, At
  <2> HIDE DEF to
  <2>3. StoreTypes' /\ FetchTypes' /\ UNCHANGED <<wait, verifying, worker>>
    BY <1>1, <2>2 DEF StoreTypes, FetchTypes, serviceVars
  <2> QED
    BY <2>1, <2>2, <2>3, CallAlone DEF CallPlace
<1>3. CASE RemoveInvalid(c)
  <2> DEFINE M == Moved(call[c].oid, "cache", "gone")
  <2>1. /\ call[c].pc = "remove" /\ Goto(c, "clear") /\ worker' = M
        /\ cache' = [cache EXCEPT ![call[c].oid] = "none"]
        /\ UNCHANGED <<tmp, serviceVars, known>>
    BY <1>3 DEF RemoveInvalid, At
  <2>2. /\ M \in [Worker -> Fetch]
        /\ \A w \in Worker : /\ M[w].waits = worker[w].waits /\ M[w].oid = worker[w].oid
                             /\ M[w].pc = worker[w].pc
    BY <1>1, MovedKeeps, SMT
  <2> HIDE DEF M
  <2>3. cache' \in [Blob -> FileState]
    BY <1>1, <2>1 DEF StoreTypes, FileState
  <2>4. StoreTypes' /\ UNCHANGED <<wait, verifying>>
    BY <1>1, <2>1, <2>3 DEF StoreTypes, serviceVars
  <2>5. FetchTypes'
    BY <1>1, <2>1, <2>2 DEF FetchTypes
  <2> QED
    BY <2>1, <2>2, <2>4, <2>5, CallAlone DEF CallPlace
<1>4. CASE ClearVerified(c)
  <2>1. /\ call[c].pc = "clear" /\ Goto(c, "join")
        /\ verified' = verified \ {call[c].oid}
        /\ UNCHANGED <<cache, tmp, pq, wait, verifying, workReady, checks, worker, known>>
    BY <1>4 DEF ClearVerified, At
  <2>2. StoreTypes' /\ FetchTypes'
    BY <1>1, <2>1 DEF StoreTypes, FetchTypes
  <2> QED
    BY <2>1, <2>2, CallAlone DEF CallPlace
<1> QED
  BY <1>2, <1>3, <1>4, VerifyOnceKeeps, JoinKeeps, Zenon DEF CallStep

\* A cancelled request leaves whatever list it is in.
LEMMA CancelKeeps ==
  ASSUME HydratorInv, NEW c \in Client, Cancel(c)
  PROVE  HydratorInv' /\ CallsKept
<1>1. StoreTypes /\ CallTypes /\ FetchTypes /\ WaitInv
  BY DEF HydratorInv
<1>2. /\ call[c].pc \in {"waiting", "verifying"} /\ Goto(c, "err")
      /\ wait' = [b \in Blob |-> wait[b] \ {c}]
      /\ verifying' = [b \in Blob |-> verifying[b] \ {c}]
      /\ worker' = [w \in Worker |-> [worker[w] EXCEPT !.waits = @ \ {c}]]
      /\ UNCHANGED <<cache, tmp, pq, verified, workReady, checks, known>>
  BY DEF Cancel
<1>3. /\ CallTypes' /\ \A d \in Client : call'[d].oid = call[d].oid
      /\ \A d \in Client \ {c} : call'[d] = call[d]
  BY <1>1, <1>2, CallGoes DEF CallPlace
<1>4. wait' \in [Blob -> SUBSET Client] /\ verifying' \in [Blob -> SUBSET Client]
  BY <1>1, <1>2 DEF StoreTypes
<1>5. StoreTypes'
  BY <1>1, <1>2, <1>4 DEF StoreTypes
<1>6. \A w \in Worker : worker[w] \in Fetch
  BY <1>1 DEF FetchTypes
<1>7. \A w \in Worker : /\ worker'[w] \in Fetch /\ worker'[w].waits = worker[w].waits \ {c}
                        /\ worker'[w].oid = worker[w].oid /\ worker'[w].pc = worker[w].pc
  BY <1>2, <1>6 DEF Fetch
<1>8. FetchTypes'
  <2>1. worker' \in [Worker -> Fetch]
    BY <1>2, <1>7
  <2> QED
    BY <1>1, <1>7, <2>1 DEF FetchTypes
<1>9. /\ \A a \in Blob : wait[a] \subseteq Client /\ verifying[a] \subseteq Client
      /\ \A w \in Worker : worker[w].waits \subseteq Client
  BY <1>1 DEF StoreTypes, FetchTypes, Fetch
<1>10. ASSUME NEW a \in Blob, NEW d \in wait'[a]
       PROVE  call'[d].pc = "waiting" /\ call'[d].oid = a
  <2>1. d \in wait[a] /\ call'[d] = call[d]
    BY <1>2, <1>3, <1>9, <1>10
  <2> QED
    BY <1>1, <2>1, SMT DEF WaitInv
<1>11. ASSUME NEW a \in Blob, NEW d \in verifying'[a]
       PROVE  call'[d].pc = "verifying" /\ call'[d].oid = a
  <2>1. d \in verifying[a] /\ call'[d] = call[d]
    BY <1>2, <1>3, <1>9, <1>11
  <2> QED
    BY <1>1, <2>1, SMT DEF WaitInv
<1>12. ASSUME NEW w \in Worker, NEW d \in worker'[w].waits
       PROVE  /\ call'[d].pc = "waiting" /\ call'[d].oid = worker'[w].oid
              /\ d \notin wait'[worker'[w].oid]
  <2>1. d \in worker[w].waits /\ call'[d] = call[d] /\ worker'[w].oid = worker[w].oid
    BY <1>3, <1>7, <1>9, <1>12
  <2>2. /\ call[d].pc = "waiting" /\ call[d].oid = worker[w].oid
        /\ d \notin wait[worker[w].oid]
    BY <1>1, <2>1 DEF WaitInv
  <2>3. worker[w].oid \in Blob
    <3>1. d \in Client /\ call[d].pc # "idle"
      BY <1>9, <2>1, <2>2
    <3> QED
      BY <1>1, <2>2, <3>1 DEF CallTypes
  <2> QED
    BY <1>2, <2>1, <2>2, <2>3
<1>13. \A v, w \in Worker : v # w => worker'[v].waits \cap worker'[w].waits = {}
  BY <1>1, <1>7, SMT DEF WaitInv
<1>14. WaitInv'
  BY <1>10, <1>11, <1>12, <1>13 DEF WaitInv
<1> QED
  BY <1>2, <1>3, <1>5, <1>8, <1>14 DEF HydratorInv, CallsKept

-----------------------------------------------------------------------------
(* The verification of a cached blob *)

\* The hash changes nothing but what the goroutine will report.
LEMMA HashKeeps ==
  ASSUME HydratorInv, NEW b \in Blob, Hash(b)
  PROVE  HydratorInv' /\ CallsKept
<1> DEFINE r == CASE cache[b] = "whole" -> "ok" [] cache[b] = "part" -> "bad"
                  [] OTHER -> "err"
<1>1. r \in Check
  BY DEF Check
<1>2. /\ checks' = [checks EXCEPT ![b] = (@ \ {"hash"}) \cup {r}]
      /\ UNCHANGED <<cache, tmp, pq, wait, verifying, verified, workReady, worker, call,
                     known>>
  BY DEF Hash
<1> HIDE DEF r
<1>3. StoreTypes /\ CallTypes /\ FetchTypes
  BY DEF HydratorInv
<1>4. checks' \in [Blob -> SUBSET Check]
  BY <1>1, <1>2, <1>3 DEF StoreTypes
<1>5. StoreTypes' /\ FetchTypes'
  BY <1>2, <1>3, <1>4 DEF StoreTypes, FetchTypes
<1> QED
  BY <1>2, <1>5, FetchAlone

\* The report reaches everyone who waits for it.
LEMMA ReportKeeps ==
  ASSUME HydratorInv, NEW b \in Blob, NEW r \in Check, Report(b, r)
  PROVE  HydratorInv' /\ CallsKept
<1> DEFINE to == CASE r = "ok" -> "ok" [] r = "bad" -> "remove" [] OTHER -> "join"
<1>1. to \in CallPlace
  BY DEF CallPlace
<1>2. /\ checks' = [checks EXCEPT ![b] = @ \ {r}]
      /\ verified' = IF r = "ok" THEN verified \cup {b} ELSE verified
      /\ verifying' = [verifying EXCEPT ![b] = {}]
      /\ call' = notifyWaiters(verifying[b], to)
      /\ UNCHANGED <<cache, tmp, pq, wait, workReady, worker, known>>
  BY DEF Report
<1> HIDE DEF to
<1>3. StoreTypes /\ CallTypes /\ FetchTypes /\ WaitInv
  BY DEF HydratorInv
<1>4. verifying[b] \in SUBSET Client /\ \A c \in verifying[b] : call[c].pc = "verifying"
  BY <1>3 DEF StoreTypes, WaitInv
<1>5. /\ CallTypes' /\ \A c \in Client : call'[c].oid = call[c].oid
      /\ \A c \in Client \ verifying[b] : call'[c] = call[c]
  BY <1>1, <1>2, <1>3, <1>4, CallsNotified
<1>6. /\ checks' \in [Blob -> SUBSET Check] /\ verified' \subseteq Blob
      /\ verifying' \in [Blob -> SUBSET Client]
  BY <1>2, <1>3 DEF StoreTypes
<1>7. StoreTypes' /\ FetchTypes'
  BY <1>2, <1>3, <1>6 DEF StoreTypes, FetchTypes
<1>8. /\ \A a \in Blob : wait[a] \subseteq Client /\ verifying[a] \subseteq Client
      /\ \A w \in Worker : worker[w].waits \subseteq Client
  BY <1>3 DEF StoreTypes, FetchTypes, Fetch
<1>9. ASSUME NEW a \in Blob, NEW d \in wait'[a]
      PROVE  call'[d].pc = "waiting" /\ call'[d].oid = a
  <2>1. d \in wait[a] /\ call[d].pc = "waiting" /\ call[d].oid = a
    BY <1>2, <1>3, <1>9, SMT DEF WaitInv
  <2>2. call'[d] = call[d]
    BY <1>4, <1>5, <1>8, <2>1
  <2> QED
    BY <2>1, <2>2
<1>10. ASSUME NEW a \in Blob, NEW d \in verifying'[a]
       PROVE  call'[d].pc = "verifying" /\ call'[d].oid = a
  <2>1. a # b /\ d \in verifying[a]
    BY <1>2, <1>3, <1>10 DEF StoreTypes
  <2>2. call[d].pc = "verifying" /\ call[d].oid = a /\ d \notin verifying[b]
    BY <1>3, <2>1, SMT DEF WaitInv
  <2>3. call'[d] = call[d]
    BY <1>5, <1>8, <2>1, <2>2
  <2> QED
    BY <2>2, <2>3
<1>11. ASSUME NEW w \in Worker, NEW d \in worker'[w].waits
       PROVE  /\ call'[d].pc = "waiting" /\ call'[d].oid = worker'[w].oid
              /\ d \notin wait'[worker'[w].oid]
  <2>1. /\ d \in worker[w].waits /\ call[d].pc = "waiting" /\ call[d].oid = worker[w].oid
        /\ d \notin wait[worker[w].oid]
    BY <1>2, <1>3, <1>11 DEF WaitInv
  <2>2. call'[d] = call[d]
    BY <1>4, <1>5, <1>8, <2>1
  <2> QED
    BY <1>2, <2>1, <2>2
<1>12. \A v, w \in Worker : v # w => worker'[v].waits \cap worker'[w].waits = {}
  BY <1>2, <1>3 DEF WaitInv
<1>13. WaitInv'
  BY <1>9, <1>10, <1>11, <1>12 DEF WaitInv
<1>14. CallsKept
  BY <1>4, <1>5 DEF CallsKept
<1> QED
  BY <1>5, <1>7, <1>13, <1>14 DEF HydratorInv

-----------------------------------------------------------------------------
(* The workers *)

\* A prefetched blob is queued.
LEMMA EnqueueKeeps ==
  ASSUME HydratorInv, NEW b \in Blob, Enqueue(b)
  PROVE  HydratorInv' /\ CallsKept
<1>1. StoreTypes /\ CallTypes /\ FetchTypes
  BY DEF HydratorInv
<1>2. /\ Push("prefetch", b) /\ workReady' = TRUE
      /\ UNCHANGED <<cache, tmp, wait, verifying, verified, checks, worker, call, known>>
  BY DEF Enqueue
<1>3. pq' \in [read : Seq(Blob), prefetch : Seq(Blob)]
  BY <1>1, <1>2, PushTyped
<1>4. StoreTypes' /\ FetchTypes'
  BY <1>1, <1>2, <1>3 DEF StoreTypes, FetchTypes
<1> QED
  BY <1>2, <1>4, FetchAlone

\* What heap.Pop takes is a blob, and it leaves blobs.
LEMMA PopTyped ==
  ASSUME StoreTypes, pq[Top] # <<>>, pq' = [pq EXCEPT ![Top] = Tail(@)]
  PROVE  /\ Head(pq[Top]) \in Blob
         /\ pq' \in [read : Seq(Blob), prefetch : Seq(Blob)]
<1>1. pq \in [read : Seq(Blob), prefetch : Seq(Blob)]
  BY DEF StoreTypes
<1>2. ASSUME NEW s \in Seq(Blob)
      PROVE  /\ [pq EXCEPT !.read = s] \in [read : Seq(Blob), prefetch : Seq(Blob)]
             /\ [pq EXCEPT !.prefetch = s] \in [read : Seq(Blob), prefetch : Seq(Blob)]
  BY <1>1, Zenon
<1>3. ASSUME NEW s \in Seq(Blob), s # <<>> PROVE Head(s) \in Blob /\ Tail(s) \in Seq(Blob)
  BY <1>3, SMT
<1>4. CASE Top = "read"
  <2>1. pq[Top] \in Seq(Blob) /\ pq' = [pq EXCEPT !.read = Tail(pq[Top])]
    BY <1>1, <1>4
  <2> QED
    BY <1>2, <1>3, <2>1
<1>5. CASE Top = "prefetch"
  <2>1. pq[Top] \in Seq(Blob) /\ pq' = [pq EXCEPT !.prefetch = Tail(pq[Top])]
    BY <1>1, <1>5
  <2> QED
    BY <1>2, <1>3, <2>1
<1> QED
  BY <1>4, <1>5 DEF Top

\* A worker takes a task and everyone who waits for its blob.
LEMMA StepKeeps ==
  ASSUME HydratorInv, NEW w \in Worker, Step(w)
  PROVE  HydratorInv' /\ CallsKept
<1>1. StoreTypes /\ CallTypes /\ FetchTypes /\ WaitInv
  BY DEF HydratorInv
<1>2. /\ worker[w].pc = "step"
      /\ UNCHANGED <<cache, tmp, verifying, verified, workReady, checks, call, known>>
  BY DEF Step
<1>3. CallTypes' /\ CallsKept
  BY <1>1, <1>2 DEF CallTypes, CallsKept
<1>4. /\ \A a \in Blob : wait[a] \subseteq Client /\ verifying[a] \subseteq Client
      /\ \A v \in Worker : worker[v].waits \subseteq Client
  BY <1>1 DEF StoreTypes, FetchTypes, Fetch
<1>5. CASE pq[Top] = <<>>
  <2>1. worker' = [worker EXCEPT ![w] = NoFetch] /\ UNCHANGED <<pq, wait>>
    BY <1>5 DEF Step
  <2>2. worker'[w] = NoFetch /\ \A v \in Worker \ {w} : worker'[v] = worker[v]
    BY <1>1, <2>1 DEF FetchTypes
  <2>3. worker' \in [Worker -> Fetch]
    BY <1>1, <2>1, NothingTyped DEF FetchTypes
  <2>4. StoreTypes' /\ FetchTypes'
    BY <1>1, <1>2, <2>1, <2>2, <2>3, NothingTyped DEF StoreTypes, FetchTypes
  <2>5. \A v \in Worker : \A c \in worker'[v].waits :
          v # w /\ c \in worker[v].waits /\ worker'[v] = worker[v]
    BY <2>2, NothingTyped
  <2>6. \A u, v \in Worker : u # v => worker'[u].waits \cap worker'[v].waits = {}
    BY <1>1, <2>5, SMT DEF WaitInv
  <2>7. WaitInv'
    BY <1>1, <1>2, <2>1, <2>5, <2>6, SMT DEF WaitInv
  <2> QED
    BY <1>3, <2>4, <2>7 DEF HydratorInv
<1>6. CASE pq[Top] # <<>>
  <2> DEFINE b == Head(pq[Top])
             new == [NoFetch EXCEPT !.pc = "create", !.oid = b, !.waits = wait[b]]
  <2>1. /\ pq' = [pq EXCEPT ![Top] = Tail(@)]
        /\ worker' = [worker EXCEPT ![w] = new]
        /\ wait' = [wait EXCEPT ![b] = {}]
    BY <1>6 DEF Step
  <2>2. b \in Blob /\ pq' \in [read : Seq(Blob), prefetch : Seq(Blob)]
    BY <1>1, <1>6, <2>1, PopTyped
  <2> HIDE DEF b
  <2>3. new \in Fetch /\ new.pc = "create" /\ new.oid = b /\ new.waits = wait[b]
    BY <1>4, <2>2, NothingTyped DEF Fetch
  <2> HIDE DEF new
  <2>4. worker'[w] = new /\ \A v \in Worker \ {w} : worker'[v] = worker[v]
    BY <1>1, <2>1 DEF FetchTypes
  <2>5. worker' \in [Worker -> Fetch] /\ wait' \in [Blob -> SUBSET Client]
    BY <1>1, <2>1, <2>3 DEF FetchTypes, StoreTypes
  <2>6. FetchTypes'
    BY <1>1, <2>2, <2>3, <2>4, <2>5 DEF FetchTypes
  <2>7. StoreTypes'
    BY <1>1, <1>2, <2>2, <2>5 DEF StoreTypes
  <2>8. \A a \in Blob : wait'[a] = IF a = b THEN {} ELSE wait[a]
    BY <1>1, <2>1 DEF StoreTypes
  <2>9. ASSUME NEW a \in Blob, NEW d \in wait'[a]
        PROVE  call'[d].pc = "waiting" /\ call'[d].oid = a
    <3>1. d \in wait[a] /\ call' = call
      BY <1>2, <2>8, <2>9
    <3> QED
      BY <1>1, <3>1, SMT DEF WaitInv
  <2>10. ASSUME NEW a \in Blob, NEW d \in verifying'[a]
         PROVE  call'[d].pc = "verifying" /\ call'[d].oid = a
    BY <1>1, <1>2, <2>10, SMT DEF WaitInv
  <2>11. ASSUME NEW v \in Worker, NEW d \in worker'[v].waits
         PROVE  /\ call'[d].pc = "waiting" /\ call'[d].oid = worker'[v].oid
                /\ d \notin wait'[worker'[v].oid]
    <3>1. CASE v = w
      <4>1. d \in wait[b] /\ worker'[v].oid = b
        BY <2>3, <2>4, <2>11, <3>1
      <4> QED
        BY <1>1, <1>2, <2>2, <2>8, <4>1, SMT DEF WaitInv
    <3>2. CASE v # w
      <4>1. /\ d \in worker[v].waits /\ worker'[v].oid = worker[v].oid
            /\ call[d].pc = "waiting" /\ call[d].oid = worker[v].oid
            /\ d \notin wait[worker[v].oid]
        BY <1>1, <2>4, <2>11, <3>2 DEF WaitInv
      <4>2. worker[v].oid \in Blob
        <5>1. d \in Client /\ call[d].pc # "idle"
          BY <1>4, <4>1
        <5> QED
          BY <1>1, <4>1, <5>1 DEF CallTypes
      <4> QED
        BY <1>2, <2>8, <4>1, <4>2
    <3> QED
      BY <3>1, <3>2
  <2>12. ASSUME NEW v \in Worker, v # w
         PROVE  worker'[v].waits \cap worker'[w].waits = {}
    <3>1. \A d \in worker[v].waits : call[d].oid = worker[v].oid /\ d \notin wait[worker[v].oid]
      BY <1>1 DEF WaitInv
    <3>2. \A d \in wait[b] : call[d].oid = b
      BY <1>1, <2>2 DEF WaitInv
    <3> QED
      BY <2>3, <2>4, <2>12, <3>1, <3>2, SMT
  <2>13. ASSUME NEW u \in Worker, NEW v \in Worker, u # v
         PROVE  worker'[u].waits \cap worker'[v].waits = {}
    <3>1. CASE u # w /\ v # w
      BY <1>1, <2>4, <2>13, <3>1, SMT DEF WaitInv
    <3>2. CASE u = w
      BY <2>12, <2>13, <3>2
    <3>3. CASE v = w
      BY <2>12, <2>13, <3>3
    <3> QED
      BY <3>1, <3>2, <3>3
  <2>14. WaitInv'
    BY <2>9, <2>10, <2>11, <2>13 DEF WaitInv
  <2> QED
    BY <1>3, <2>6, <2>7, <2>14 DEF HydratorInv
<1> QED
  BY <1>5, <1>6

\* A fetch is over and everyone who waited for it is told.
LEMMA Finishes ==
  ASSUME HydratorInv, NEW w \in Worker, NEW res \in {"ok", "err"},
         NEW workers \in [Worker -> Fetch],
         \A v \in Worker : /\ workers[v].pc = worker[v].pc /\ workers[v].oid = worker[v].oid
                           /\ workers[v].waits = worker[v].waits,
         Finish(w, res, workers), StoreTypes', UNCHANGED <<wait, verifying>>
  PROVE  /\ HydratorInv' /\ CallsKept
         /\ worker'[w].pc = "step" /\ \A v \in Worker \ {w} : worker'[v] = workers[v]
         /\ \A c \in worker[w].waits : call'[c].pc = res
         /\ \A c \in Client \ worker[w].waits : call'[c] = call[c]
<1> DEFINE new == [NoFetch EXCEPT !.pc = "step"]
<1>1. StoreTypes /\ CallTypes /\ FetchTypes /\ WaitInv
  BY DEF HydratorInv
<1>2. call' = notifyWaiters(worker[w].waits, res) /\ worker' = [workers EXCEPT ![w] = new]
  BY DEF Finish
<1>3. new \in Fetch /\ new.pc = "step" /\ new.waits = {}
  BY NothingTyped DEF Fetch
<1> HIDE DEF new
<1>4. /\ \A a \in Blob : wait[a] \subseteq Client /\ verifying[a] \subseteq Client
      /\ \A v \in Worker : worker[v].waits \subseteq Client
  BY <1>1 DEF StoreTypes, FetchTypes, Fetch
<1>5. \A c \in worker[w].waits :
        call[c].pc = "waiting" /\ call[c].oid = worker[w].oid /\ c \notin wait[worker[w].oid]
  BY <1>1 DEF WaitInv
<1>6. /\ CallTypes' /\ \A c \in Client : call'[c].oid = call[c].oid
      /\ \A c \in worker[w].waits : call'[c].pc = res
      /\ \A c \in Client \ worker[w].waits : call'[c] = call[c]
  <2>1. worker[w].waits \in SUBSET Client /\ res \in CallPlace
    BY <1>4 DEF CallPlace
  <2>2. \A c \in worker[w].waits : call[c].pc # "idle"
    BY <1>5
  <2> QED
    BY <1>1, <1>2, <2>1, <2>2, CallsNotified
<1>7. /\ worker' \in [Worker -> Fetch] /\ worker'[w] = new
      /\ \A v \in Worker \ {w} : worker'[v] = workers[v]
  BY <1>2, <1>3
<1>8. FetchTypes'
  BY <1>1, <1>3, <1>7, SMT DEF FetchTypes
<1>9. ASSUME NEW a \in Blob, NEW d \in wait'[a]
      PROVE  call'[d].pc = "waiting" /\ call'[d].oid = a
  <2>1. d \in wait[a] /\ d \in Client /\ call[d].pc = "waiting" /\ call[d].oid = a
    BY <1>1, <1>4, <1>9, SMT DEF WaitInv
  <2>2. d \notin worker[w].waits
    BY <1>5, <2>1
  <2> QED
    BY <1>6, <2>1, <2>2
<1>10. ASSUME NEW a \in Blob, NEW d \in verifying'[a]
       PROVE  call'[d].pc = "verifying" /\ call'[d].oid = a
  <2>1. d \in verifying[a] /\ d \in Client /\ call[d].pc = "verifying" /\ call[d].oid = a
    BY <1>1, <1>4, <1>10, SMT DEF WaitInv
  <2>2. d \notin worker[w].waits
    BY <1>5, <2>1
  <2> QED
    BY <1>6, <2>1, <2>2
<1>11. ASSUME NEW v \in Worker, NEW d \in worker'[v].waits
       PROVE  /\ call'[d].pc = "waiting" /\ call'[d].oid = worker'[v].oid
              /\ d \notin wait'[worker'[v].oid]
  <2>1. v # w
    BY <1>3, <1>7, <1>11
  <2>2. d \in worker[v].waits /\ d \in Client /\ worker'[v].oid = worker[v].oid
    BY <1>4, <1>7, <1>11, <2>1
  <2>3. d \notin worker[w].waits
    BY <1>1, <2>1, <2>2 DEF WaitInv
  <2>4. /\ call[d].pc = "waiting" /\ call[d].oid = worker[v].oid
        /\ d \notin wait[worker[v].oid]
    BY <1>1, <2>2 DEF WaitInv
  <2> QED
    BY <1>6, <2>2, <2>3, <2>4
<1>12. ASSUME NEW u \in Worker, NEW v \in Worker, u # v
       PROVE  worker'[u].waits \cap worker'[v].waits = {}
  <2>1. CASE u = w \/ v = w
    BY <1>3, <1>7, <2>1
  <2>2. CASE u # w /\ v # w
    BY <1>1, <1>7, <1>12, <2>2, SMT DEF WaitInv
  <2> QED
    BY <2>1, <2>2
<1>13. WaitInv'
  BY <1>9, <1>10, <1>11, <1>12 DEF WaitInv
<1>14. CallsKept
  BY <1>5, <1>6 DEF CallsKept
<1> QED
  BY <1>3, <1>6, <1>7, <1>8, <1>13, <1>14 DEF HydratorInv

\* What is left of a fetch when it is tried again.
LEMMA TriesAgain ==
  ASSUME NEW f \in Fetch, NEW new,
         new = [f EXCEPT !.pc = "create", !.try = 2, !.fd = "none", !.late = FALSE]
  PROVE  /\ new \in Fetch /\ new.pc = "create" /\ new.oid = f.oid /\ new.waits = f.waits
<1>1. ASSUME NEW g \in Fetch, NEW t \in 1..2
      PROVE  /\ [g EXCEPT !.try = t] \in Fetch /\ [g EXCEPT !.try = t].pc = g.pc
             /\ [g EXCEPT !.try = t].oid = g.oid /\ [g EXCEPT !.try = t].waits = g.waits
  BY DEF Fetch
<1>2. ASSUME NEW g \in Fetch
      PROVE  /\ [g EXCEPT !.late = FALSE] \in Fetch /\ [g EXCEPT !.late = FALSE].pc = g.pc
             /\ [g EXCEPT !.late = FALSE].oid = g.oid
             /\ [g EXCEPT !.late = FALSE].waits = g.waits
  BY DEF Fetch
<1> DEFINE a == [f EXCEPT !.pc = "create", !.fd = "none"]
           b == [a EXCEPT !.try = 2]
<1>3. a \in Fetch /\ a.pc = "create" /\ a.oid = f.oid /\ a.waits = f.waits
  BY DEF Fetch
<1>4. new = [b EXCEPT !.late = FALSE]
  BY Zenon DEF Fetch
<1>5. 2 \in 1..2
  BY SMT
<1> HIDE DEF a
<1>6. b \in Fetch /\ b.pc = "create" /\ b.oid = f.oid /\ b.waits = f.waits
  BY Zenon, <1>1, <1>3, <1>5
<1> HIDE DEF b
<1>7. /\ [b EXCEPT !.late = FALSE] \in Fetch /\ [b EXCEPT !.late = FALSE].pc = "create"
      /\ [b EXCEPT !.late = FALSE].oid = f.oid /\ [b EXCEPT !.late = FALSE].waits = f.waits
  BY <1>2, <1>6
<1> QED
  BY Zenon, <1>4, <1>7

\* A fetch that fails is tried once more, or everyone who waits for it is told.
LEMMA Retries ==
  ASSUME HydratorInv, NEW w \in Worker, worker[w].pc \in {"create", "copy", "rename"},
         NEW workers \in [Worker -> Fetch],
         \A v \in Worker : /\ workers[v].pc = worker[v].pc /\ workers[v].oid = worker[v].oid
                           /\ workers[v].waits = worker[v].waits,
         Retry(w, workers),
         cache' \in [Blob -> FileState], tmp' \in [Blob -> FileState],
         UNCHANGED <<pq, wait, verifying, verified, checks, known>>
  PROVE  /\ HydratorInv' /\ CallsKept
         /\ worker'[w].pc \in {"create", "step"}
         /\ \A v \in Worker \ {w} : worker'[v] = workers[v]
         /\ \A c \in Client : call'[c] = call[c] \/ call'[c].pc = "err"
<1>1. StoreTypes /\ CallTypes /\ FetchTypes /\ WaitInv
  BY DEF HydratorInv
<1>2. CASE worker[w].try = 1
  <2> DEFINE new == [workers[w] EXCEPT !.pc = "create", !.try = 2, !.fd = "none",
                                       !.late = FALSE]
  <2>1. /\ worker' = [workers EXCEPT ![w] = new]
        /\ UNCHANGED <<call, workReady>>
    BY <1>2 DEF Retry
  <2>2. workers[w] \in Fetch
    OBVIOUS
  <2>3. /\ new \in Fetch /\ new.pc = "create" /\ new.oid = workers[w].oid
        /\ new.waits = workers[w].waits
    BY <2>2, TriesAgain
  <2> HIDE DEF new
  <2>4. /\ worker' \in [Worker -> Fetch] /\ worker'[w] = new
        /\ \A v \in Worker \ {w} : worker'[v] = workers[v]
    BY <2>1, <2>3
  <2>5. worker[w].oid \in Blob
    BY <1>1 DEF FetchTypes
  <2>6. \A v \in Worker : worker'[v].waits = worker[v].waits /\ worker'[v].oid = worker[v].oid
    BY <2>3, <2>4
  <2>7. FetchTypes'
    BY <1>1, <2>3, <2>4, <2>5, SMT DEF FetchTypes
  <2>8. StoreTypes'
    BY <1>1, <2>1 DEF StoreTypes
  <2>9. HydratorInv' /\ CallsKept
    BY <2>1, <2>6, <2>7, <2>8, FetchAlone
  <2> QED
    BY <2>1, <2>3, <2>4, <2>9
<1>3. CASE worker[w].try # 1
  <2>1. Finish(w, "err", workers)
    BY <1>3 DEF Retry
  <2>2. StoreTypes'
    BY <1>1, <2>1 DEF StoreTypes, Finish
  <2>3. /\ HydratorInv' /\ CallsKept
        /\ worker'[w].pc = "step" /\ \A v \in Worker \ {w} : worker'[v] = workers[v]
        /\ \A c \in worker[w].waits : call'[c].pc = "err"
        /\ \A c \in Client \ worker[w].waits : call'[c] = call[c]
    <3>1. "err" \in {"ok", "err"} /\ UNCHANGED <<wait, verifying>>
      OBVIOUS
    <3> QED
      BY <2>1, <2>2, <3>1, Finishes, SMT
  <2> QED
    BY <2>3
<1> QED
  BY <1>2, <1>3

\* What CreateTmp does to the workers.
LEMMA CreateTmpMoves ==
  ASSUME FetchTypes, NEW w \in Worker, CreateTmp(w)
  PROVE  /\ worker' \in [Worker -> Fetch]
         /\ \A v \in Worker : worker'[v].waits = worker[v].waits /\ worker'[v].oid = worker[v].oid
         /\ \A v \in Worker \ {w} : worker'[v].pc = worker[v].pc
         /\ worker'[w].pc = "copy" /\ worker'[w].fd = "tmp" /\ worker'[w].late = FALSE
         /\ \A v \in Worker \ {w} : worker[v].oid # worker[w].oid => worker'[v] = worker[v]
<1> DEFINE own == [worker[w] EXCEPT !.pc = "copy", !.fd = "tmp", !.late = FALSE]
<1>1. \A v \in Worker : worker[v] \in Fetch
  BY DEF FetchTypes
<1>2. worker' = [v \in Worker |->
        IF v = w THEN own
        ELSE IF worker[v].oid = worker[w].oid /\ worker[v].fd = "tmp"
          THEN [worker[v] EXCEPT !.late = TRUE] ELSE worker[v]]
  BY DEF CreateTmp
<1>3. /\ own \in Fetch /\ own.pc = "copy" /\ own.fd = "tmp" /\ own.late = FALSE
      /\ own.oid = worker[w].oid /\ own.waits = worker[w].waits
  BY <1>1 DEF Fetch
<1> HIDE DEF own
<1>4. ASSUME NEW v \in Worker
      PROVE  /\ [worker[v] EXCEPT !.late = TRUE] \in Fetch
             /\ [worker[v] EXCEPT !.late = TRUE].pc = worker[v].pc
             /\ [worker[v] EXCEPT !.late = TRUE].oid = worker[v].oid
             /\ [worker[v] EXCEPT !.late = TRUE].waits = worker[v].waits
  BY <1>1 DEF Fetch
<1>5. worker'[w] = own
  BY <1>2
<1>6. ASSUME NEW v \in Worker \ {w}
      PROVE  /\ worker'[v] \in Fetch /\ worker'[v].pc = worker[v].pc
             /\ worker'[v].oid = worker[v].oid /\ worker'[v].waits = worker[v].waits
             /\ worker[v].oid # worker[w].oid => worker'[v] = worker[v]
  <2>1. \/ worker'[v] = worker[v]
        \/ /\ worker[v].oid = worker[w].oid
           /\ worker'[v] = [worker[v] EXCEPT !.late = TRUE]
    BY <1>2
  <2> QED
    BY <1>1, <1>4, <2>1
<1>7. worker' \in [Worker -> Fetch]
  <2>1. worker' = [v \in Worker |-> worker'[v]]
    BY <1>2
  <2> QED
    BY <1>3, <1>5, <1>6, <2>1
<1> QED
  BY <1>3, <1>5, <1>6, <1>7

\* A worker that goes on to pc alone.
LEMMA FetchGoes ==
  ASSUME FetchTypes, NEW w \in Worker, NEW pc \in {"step", "rename"},
         worker' = [worker EXCEPT ![w].pc = pc],
         pc = "rename" => worker[w].oid \in Blob
  PROVE  /\ FetchTypes' /\ worker'[w].pc = pc /\ worker'[w].oid = worker[w].oid
         /\ \A v \in Worker : worker'[v].waits = worker[v].waits /\ worker'[v].oid = worker[v].oid
         /\ \A v \in Worker \ {w} : worker'[v] = worker[v]
<1> DEFINE new == [worker[w] EXCEPT !.pc = pc]
<1>1. worker[w] \in Fetch
  BY DEF FetchTypes
<1>2. /\ new \in Fetch /\ new.pc = pc /\ new.oid = worker[w].oid
      /\ new.waits = worker[w].waits
  BY <1>1 DEF Fetch
<1>3. worker' = [worker EXCEPT ![w] = new]
  OBVIOUS
<1> HIDE DEF new
<1>4. /\ worker' \in [Worker -> Fetch] /\ worker'[w] = new
      /\ \A v \in Worker \ {w} : worker'[v] = worker[v]
  BY <1>2, <1>3 DEF FetchTypes
<1> QED
  BY <1>2, <1>4 DEF FetchTypes

\* The rename of .tmp into the cache.
LEMMA RenameTmpMoves ==
  ASSUME FetchTypes, NEW w \in Worker, worker[w].oid \in Blob,
         worker' = [Moved(worker[w].oid, "tmp", "cache") EXCEPT ![w].pc = "mark"]
  PROVE  /\ FetchTypes' /\ worker'[w].pc = "mark"
         /\ \A v \in Worker : worker'[v].waits = worker[v].waits /\ worker'[v].oid = worker[v].oid
         /\ \A v \in Worker \ {w} : worker[v].oid # worker[w].oid => worker'[v] = worker[v]
<1> DEFINE M == Moved(worker[w].oid, "tmp", "cache")
           new == [M[w] EXCEPT !.pc = "mark"]
<1>1. /\ M \in [Worker -> Fetch]
      /\ \A v \in Worker : /\ M[v].pc = worker[v].pc /\ M[v].oid = worker[v].oid
                           /\ M[v].waits = worker[v].waits
                           /\ worker[v].oid # worker[w].oid => M[v] = worker[v]
  BY MovedKeeps, SMT
<1>2. worker' = [M EXCEPT ![w] = new]
  OBVIOUS
<1> HIDE DEF M
<1>3. M[w] \in Fetch
  BY <1>1
<1>4. new \in Fetch /\ new.pc = "mark" /\ new.oid = M[w].oid /\ new.waits = M[w].waits
  BY <1>3 DEF Fetch
<1> HIDE DEF new
<1>5. /\ worker' \in [Worker -> Fetch] /\ worker'[w] = new
      /\ \A v \in Worker \ {w} : worker'[v] = M[v]
  BY <1>1, <1>2, <1>4
<1>6. ASSUME NEW v \in Worker
      PROVE  worker'[v].waits = worker[v].waits /\ worker'[v].oid = worker[v].oid
  <2>1. M[v].waits = worker[v].waits /\ M[v].oid = worker[v].oid
    BY Zenon, <1>1
  <2>2. CASE v = w
    BY Zenon, <1>4, <1>5, <2>1, <2>2
  <2>3. CASE v # w
    BY <1>5, <2>1, <2>3
  <2> QED
    BY <2>2, <2>3
<1>7. \A v \in Worker \ {w} : worker'[v].pc = worker[v].pc
  BY <1>1, <1>5
<1>8. FetchTypes'
  BY <1>4, <1>5, <1>6, <1>7 DEF FetchTypes
<1> QED
  BY <1>1, <1>4, <1>5, <1>6, <1>8

\* Every step of a worker keeps the invariant and the calls that have returned.
LEMMA WorkerStepKeeps ==
  ASSUME HydratorInv, NEW w \in Worker, WorkerStep(w)
  PROVE  HydratorInv' /\ CallsKept
<1>1. StoreTypes /\ CallTypes /\ FetchTypes
  BY DEF HydratorInv
<1>2. CASE Wake(w)
  <2>1. /\ worker' = [worker EXCEPT ![w].pc = "step"] /\ workReady' = FALSE
        /\ UNCHANGED <<cache, tmp, pq, wait, verifying, verified, checks, call, known>>
    BY <1>2 DEF Wake
  <2>2. /\ FetchTypes'
        /\ \A v \in Worker : worker'[v].waits = worker[v].waits /\ worker'[v].oid = worker[v].oid
    BY <1>1, <2>1, FetchGoes
  <2>3. StoreTypes'
    BY <1>1, <2>1 DEF StoreTypes
  <2> QED
    BY <2>1, <2>2, <2>3, FetchAlone
<1>3. CASE Step(w)
  BY <1>3, StepKeeps
<1>4. CASE CreateTmp(w)
  <2>1. /\ worker[w].pc = "create" /\ tmp' = [tmp EXCEPT ![worker[w].oid] = "part"]
        /\ UNCHANGED <<cache, serviceVars, call, known>>
    BY <1>4 DEF CreateTmp
  <2>2. /\ worker' \in [Worker -> Fetch]
        /\ \A v \in Worker : worker'[v].waits = worker[v].waits /\ worker'[v].oid = worker[v].oid
        /\ \A v \in Worker \ {w} : worker'[v].pc = worker[v].pc
    BY <1>1, <1>4, CreateTmpMoves
  <2>3. worker[w].oid \in Blob
    BY <1>1, <2>1 DEF FetchTypes
  <2>4. FetchTypes'
    BY <1>1, <2>2, <2>3 DEF FetchTypes
  <2>5. tmp' \in [Blob -> FileState]
    BY <1>1, <2>1 DEF StoreTypes, FileState
  <2>6. StoreTypes' /\ UNCHANGED <<wait, verifying>>
    BY <1>1, <2>1, <2>5 DEF StoreTypes, serviceVars
  <2> QED
    BY <2>1, <2>2, <2>4, <2>6, FetchAlone
<1>5. CASE Copy(w)
  <2>1. /\ worker[w].pc = "copy" /\ worker' = [worker EXCEPT ![w].pc = "rename"]
        /\ UNCHANGED <<serviceVars, call, known>>
    BY <1>5 DEF Copy
  <2>2. worker[w].oid \in Blob
    BY <1>1, <2>1 DEF FetchTypes
  <2>3. /\ tmp' = tmp \/ tmp' = [tmp EXCEPT ![worker[w].oid] = "whole"]
        /\ cache' = cache \/ cache' = [cache EXCEPT ![worker[w].oid] = "whole"]
    BY <1>5 DEF Copy
  <2>4. tmp' \in [Blob -> FileState] /\ cache' \in [Blob -> FileState]
    BY <1>1, <2>3 DEF StoreTypes, FileState
  <2>5. StoreTypes' /\ UNCHANGED <<wait, verifying>>
    BY <1>1, <2>1, <2>4 DEF StoreTypes, serviceVars
  <2>6. /\ FetchTypes'
        /\ \A v \in Worker : worker'[v].waits = worker[v].waits /\ worker'[v].oid = worker[v].oid
    BY <1>1, <2>1, <2>2, FetchGoes
  <2> QED
    BY <2>1, <2>5, <2>6, FetchAlone
<1>6. CASE FetchFails(w)
  <2>1. /\ worker[w].pc \in {"create", "copy"}
        /\ UNCHANGED <<cache, pq, wait, verifying, verified, checks, known>>
    BY <1>6 DEF FetchFails
  <2>2. CASE worker[w].pc = "copy"
    <3> DEFINE M == Moved(worker[w].oid, "tmp", "gone")
    <3>1. Retry(w, M) /\ tmp' = [tmp EXCEPT ![worker[w].oid] = "none"]
      BY <1>6, <2>2 DEF FetchFails
    <3>2. /\ M \in [Worker -> Fetch]
          /\ \A v \in Worker : /\ M[v].pc = worker[v].pc /\ M[v].oid = worker[v].oid
                               /\ M[v].waits = worker[v].waits
      BY <1>1, MovedKeeps, SMT
    <3> HIDE DEF M
    <3>3. cache' \in [Blob -> FileState] /\ tmp' \in [Blob -> FileState]
      BY <1>1, <2>1, <3>1 DEF StoreTypes, FileState
    <3> QED
      BY <2>1, <3>1, <3>2, <3>3, Retries
  <2>3. CASE worker[w].pc = "create"
    <3>1. Retry(w, worker) /\ tmp' = tmp
      BY <1>6, <2>3 DEF FetchFails
    <3>2. worker \in [Worker -> Fetch]
      BY <1>1 DEF FetchTypes
    <3>3. cache' \in [Blob -> FileState] /\ tmp' \in [Blob -> FileState]
      BY <1>1, <2>1, <3>1 DEF StoreTypes
    <3> QED
      BY <2>1, <3>1, <3>2, <3>3, Retries
  <2> QED
    BY <2>1, <2>2, <2>3
<1>7. CASE RenameTmp(w)
  <2> DEFINE b == worker[w].oid
  <2>1. /\ worker[w].pc = "rename"
        /\ UNCHANGED <<pq, wait, verifying, verified, checks, known>>
    BY <1>7 DEF RenameTmp
  <2>2. b \in Blob
    BY <1>1, <2>1 DEF FetchTypes
  <2>3. CASE tmp[b] = "none"
    <3>1. Retry(w, worker) /\ UNCHANGED <<cache, tmp>>
      BY <1>7, <2>3 DEF RenameTmp
    <3>2. worker \in [Worker -> Fetch]
      BY <1>1 DEF FetchTypes
    <3>3. cache' \in [Blob -> FileState] /\ tmp' \in [Blob -> FileState]
      BY <1>1, <3>1 DEF StoreTypes
    <3> QED
      BY <2>1, <3>1, <3>2, <3>3, Retries
  <2>4. CASE tmp[b] # "none"
    <3>1. /\ cache' = [cache EXCEPT ![b] = tmp[b]] /\ tmp' = [tmp EXCEPT ![b] = "none"]
          /\ worker' = [Moved(b, "tmp", "cache") EXCEPT ![w].pc = "mark"]
          /\ UNCHANGED <<call, workReady>>
      BY <1>7, <2>4 DEF RenameTmp
    <3>2. cache' \in [Blob -> FileState] /\ tmp' \in [Blob -> FileState]
      BY <1>1, <2>2, <3>1 DEF StoreTypes, FileState
    <3>3. StoreTypes'
      BY <1>1, <2>1, <3>1, <3>2 DEF StoreTypes
    <3>4. /\ FetchTypes'
          /\ \A v \in Worker : /\ worker'[v].waits = worker[v].waits
                               /\ worker'[v].oid = worker[v].oid
      BY <1>1, <2>2, <3>1, RenameTmpMoves
    <3> QED
      BY <2>1, <3>1, <3>3, <3>4, FetchAlone
  <2> QED
    BY <2>3, <2>4
<1>8. CASE Hydrated(w)
  <2>1. /\ worker[w].pc = "mark" /\ verified' = verified \cup {worker[w].oid}
        /\ known' = known \cup {worker[w].oid} /\ Finish(w, "ok", worker)
        /\ UNCHANGED <<cache, tmp, pq, wait, verifying, checks>>
    BY <1>8 DEF Hydrated
  <2>2. worker[w].oid \in Blob /\ worker \in [Worker -> Fetch]
    BY <1>1, <2>1 DEF FetchTypes
  <2>3. StoreTypes'
    BY <1>1, <2>1, <2>2 DEF StoreTypes, Finish
  <2> QED
    BY <2>1, <2>2, <2>3, Finishes
<1> QED
  BY <1>2, <1>3, <1>4, <1>5, <1>6, <1>7, <1>8, Zenon DEF WorkerStep

\* Every step of the hydrator keeps the invariant and the calls that have returned.
LEMMA HydratorKeeps ==
  ASSUME HydratorInv,
         \/ \E c \in Client : CallStep(c) \/ Cancel(c)
         \/ \E b \in Blob : VerifyStep(b) \/ Enqueue(b)
         \/ \E w \in Worker : WorkerStep(w)
  PROVE  HydratorInv' /\ CallsKept
<1>1. ASSUME NEW b \in Blob, VerifyStep(b) PROVE HydratorInv' /\ CallsKept
  BY <1>1, HashKeeps, ReportKeeps, Zenon DEF VerifyStep
<1> QED
  BY <1>1, CallStepKeeps, CancelKeeps, EnqueueKeeps, WorkerStepKeeps, Zenon

\* A new Service, at the start or after a kill, is in order.
LEMMA NewServiceKeeps ==
  ASSUME NewService, UNCHANGED tmp, UNCHANGED cache, known' \subseteq Blob,
         cache \in [Blob -> FileState], tmp \in [Blob -> FileState]
  PROVE  HydratorInv'
<1>1. /\ pq' = NoTasks /\ wait' = [b \in Blob |-> {}] /\ verifying' = [b \in Blob |-> {}]
      /\ verified' = {} /\ workReady' = FALSE /\ checks' = [b \in Blob |-> {}]
      /\ worker' = [w \in Worker |-> NoFetch] /\ call' = [c \in Client |-> NoCall]
  BY DEF NewService
<1>2. wait' \in [Blob -> SUBSET Client] /\ checks' \in [Blob -> SUBSET Check]
  BY <1>1
<1>3. StoreTypes'
  BY <1>1, <1>2, NothingTyped DEF StoreTypes
<1>4. CallTypes'
  BY <1>1, NothingTyped DEF CallTypes
<1>5. FetchTypes'
  BY <1>1, NothingTyped DEF FetchTypes
<1>6. \A w \in Worker : worker'[w].waits = {}
  BY <1>1, NothingTyped
<1>7. WaitInv'
  BY <1>1, <1>6 DEF WaitInv
<1> QED
  BY <1>3, <1>4, <1>5, <1>7 DEF HydratorInv

\* The same when the daemon starts.
LEMMA HydratorStarts == HydratorInit => HydratorInv
<1> SUFFICES ASSUME HydratorInit PROVE HydratorInv
  OBVIOUS
<1>1. /\ cache \in [Blob -> FileState] /\ tmp = [b \in Blob |-> "none"] /\ known = {}
      /\ pq = NoTasks /\ wait = [b \in Blob |-> {}] /\ verifying = [b \in Blob |-> {}]
      /\ verified = {} /\ workReady = FALSE /\ checks = [b \in Blob |-> {}]
      /\ worker = [w \in Worker |-> NoFetch] /\ call = [c \in Client |-> NoCall]
  BY DEF HydratorInit
<1>2. wait \in [Blob -> SUBSET Client] /\ checks \in [Blob -> SUBSET Check]
  BY <1>1
<1>3. tmp \in [Blob -> FileState]
  BY <1>1 DEF FileState
<1>4. StoreTypes
  BY <1>1, <1>2, <1>3, NothingTyped DEF StoreTypes
<1>5. CallTypes
  BY <1>1, NothingTyped DEF CallTypes
<1>6. FetchTypes
  BY <1>1, NothingTyped DEF FetchTypes
<1>7. \A w \in Worker : worker[w].waits = {}
  BY <1>1, NothingTyped
<1>8. WaitInv
  BY <1>1, <1>7 DEF WaitInv
<1> QED
  BY <1>4, <1>5, <1>6, <1>8 DEF HydratorInv

-----------------------------------------------------------------------------
(* One worker over an intact cache *)

\* A step that at most completes blobs of the cache, and tells "ok" only to those
\* whose blob is whole.
LEMMA CallsStayWhole ==
  ASSUME CallTypes, CallsWhole,
         \A b \in Blob : cache'[b] = cache[b] \/ cache'[b] = "whole",
         \A c \in Client :
           \/ call'[c] = call[c]
           \/ call'[c].pc \notin {"remove", "clear", "ok"}
           \/ call'[c].pc = "ok" /\ cache'[call'[c].oid] = "whole"
  PROVE  CallsWhole'
<1> SUFFICES ASSUME NEW c \in Client
             PROVE  /\ call'[c].pc \notin {"remove", "clear"}
                    /\ call'[c].pc = "ok" => cache'[call'[c].oid] = "whole"
  BY DEF CallsWhole
<1>1. CASE call'[c] = call[c]
  <2>1. call[c].pc = "ok" => call[c].oid \in Blob
    BY DEF CallTypes
  <2> QED
    BY <1>1, <2>1, SMT DEF CallsWhole
<1>2. CASE call'[c] # call[c]
  BY <1>2
<1> QED
  BY <1>1, <1>2

\* A step of the request changes nothing of the cache.
LEMMA CallStepWhole ==
  ASSUME HydratorInv, NEW one \in Worker, CacheInv(one), NEW c \in Client, CallStep(c)
  PROVE  CacheInv(one)'
<1> DEFINE b == call[c].oid
<1>1. /\ StoreTypes /\ CallTypes /\ BlobsWhole /\ CallsWhole /\ FetchWhole(one)
      /\ call[c].pc \notin {"remove", "clear"}
  BY DEF HydratorInv, CacheInv, CallsWhole
<1>2. ~RemoveInvalid(c) /\ ~ClearVerified(c)
  BY <1>1 DEF RemoveInvalid, ClearVerified, At
<1>3. ASSUME NEW pc \in {"join", "check", "verifying", "waiting"}, Goto(c, pc),
             call[c].pc # "idle", UNCHANGED <<cache, tmp, verified, worker>>, BlobsWhole'
      PROVE  CacheInv(one)'
  <2>1. pc \in CallPlace
    BY DEF CallPlace
  <2>2. call'[c].pc = pc /\ \A d \in Client \ {c} : call'[d] = call[d]
    BY <1>1, <1>3, <2>1, CallGoes
  <2>3. \A d \in Client :
          \/ call'[d] = call[d]
          \/ call'[d].pc \notin {"remove", "clear", "ok"}
    BY <2>2
  <2>4. CallsWhole'
    BY <1>1, <1>3, <2>3, CallsStayWhole
  <2>5. FetchWhole(one)'
    BY <1>1, <1>3 DEF FetchWhole
  <2> QED
    BY <1>3, <2>4, <2>5 DEF CacheInv
<1>4. CASE StatCache(c)
  <2> DEFINE to == CASE cache[b] = "none" -> "join"
                     [] cache[b] = "part" /\ call[c].sized -> "remove"
                     [] OTHER -> "check"
  <2>1. /\ call[c].pc = "stat" /\ Goto(c, to)
        /\ UNCHANGED <<cache, tmp, serviceVars, worker, known>>
    BY <1>4, Zenon DEF StatCache, At
  <2>2. b \in Blob
    BY <1>1, <2>1 DEF CallTypes
  <2>3. cache[b] \in {"none", "whole"}
    BY <1>1, <2>2 DEF BlobsWhole
  <2>4. to \in {"join", "check"}
    BY <2>3
  <2> HIDE DEF to
  <2>5. BlobsWhole'
    BY <1>1, <2>1 DEF BlobsWhole, serviceVars
  <2> QED
    BY <1>3, <2>1, <2>4, <2>5 DEF serviceVars
<1>5. CASE VerifyOnce(c)
  <2>1. call[c].pc = "check" /\ UNCHANGED <<cache, tmp, verified, worker>>
    BY <1>5 DEF VerifyOnce, At
  <2>2. b \in Blob
    BY <1>1, <2>1 DEF CallTypes
  <2>3. CASE b \in verified
    <3>1. Goto(c, "ok") /\ UNCHANGED checks
      BY <1>5, <2>3 DEF VerifyOnce
    <3>2. cache[b] = "whole"
      BY <1>1, <2>2, <2>3 DEF BlobsWhole
    <3>3. "ok" \in CallPlace
      BY DEF CallPlace
    <3>4. /\ call'[c].pc = "ok" /\ call'[c].oid = b
          /\ \A d \in Client \ {c} : call'[d] = call[d]
      BY <1>1, <2>1, <3>1, <3>3, CallGoes
    <3>5. \A d \in Client :
            \/ call'[d] = call[d]
            \/ call'[d].pc = "ok" /\ cache'[call'[d].oid] = "whole"
      BY <2>1, <3>2, <3>4
    <3>6. CallsWhole'
      BY <1>1, <2>1, <3>5, CallsStayWhole
    <3>7. BlobsWhole' /\ FetchWhole(one)'
      BY <1>1, <2>1, <3>1 DEF BlobsWhole, FetchWhole
    <3> QED
      BY <3>6, <3>7 DEF CacheInv
  <2>4. CASE b \notin verified
    <3>1. /\ Goto(c, "verifying")
          /\ checks' = checks \/ checks' = [checks EXCEPT ![b] = @ \cup {"hash"}]
      BY <1>5, <2>4 DEF VerifyOnce
    <3>2. \A d \in Blob : \A r \in {"ok", "bad"} : r \in checks'[d] => r \in checks[d]
      BY <1>1, <2>2, <3>1, SMT DEF StoreTypes
    <3>3. BlobsWhole'
      BY <1>1, <2>1, <3>2 DEF BlobsWhole
    <3> QED
      BY <1>3, <2>1, <3>1, <3>3
  <2> QED
    BY <2>3, <2>4
<1>6. CASE Join(c)
  <2>1. /\ call[c].pc = "join" /\ Goto(c, "waiting")
        /\ UNCHANGED <<cache, tmp, verified, checks, worker>>
    BY <1>6 DEF Join, At
  <2>2. BlobsWhole'
    BY <1>1, <2>1 DEF BlobsWhole
  <2> QED
    BY <1>3, <2>1, <2>2
<1> QED
  BY <1>2, <1>4, <1>5, <1>6, Zenon DEF CallStep

\* A request that is cancelled is not told "ok".
LEMMA CancelWhole ==
  ASSUME HydratorInv, NEW one \in Worker, CacheInv(one), NEW c \in Client, Cancel(c)
  PROVE  CacheInv(one)'
<1>1. StoreTypes /\ CallTypes /\ FetchTypes /\ BlobsWhole /\ CallsWhole /\ FetchWhole(one)
  BY DEF HydratorInv, CacheInv
<1>2. /\ call[c].pc \in {"waiting", "verifying"} /\ Goto(c, "err")
      /\ worker' = [w \in Worker |-> [worker[w] EXCEPT !.waits = @ \ {c}]]
      /\ UNCHANGED <<cache, tmp, verified, checks>>
  BY DEF Cancel
<1>3. "err" \in CallPlace
  BY DEF CallPlace
<1>4. call'[c].pc = "err" /\ \A d \in Client \ {c} : call'[d] = call[d]
  BY <1>1, <1>2, <1>3, CallGoes
<1>5. \A d \in Client : call'[d] = call[d] \/ call'[d].pc \notin {"remove", "clear", "ok"}
  BY <1>4
<1>6. CallsWhole'
  BY <1>1, <1>2, <1>5, CallsStayWhole
<1>7. /\ worker'[one].pc = worker[one].pc /\ worker'[one].oid = worker[one].oid
      /\ worker'[one].fd = worker[one].fd /\ worker'[one].late = worker[one].late
  <2>1. worker[one] \in Fetch
    BY <1>1 DEF FetchTypes
  <2>2. worker'[one] = [worker[one] EXCEPT !.waits = @ \ {c}]
    BY <1>2
  <2> QED
    BY <2>1, <2>2 DEF Fetch
<1>8. FetchWhole(one)'
  BY <1>1, <1>2, <1>7 DEF FetchWhole
<1>9. BlobsWhole'
  BY <1>1, <1>2 DEF BlobsWhole
<1> QED
  BY <1>6, <1>8, <1>9 DEF CacheInv

\* Nothing is found bad, and what is found good is whole.
LEMMA VerifyStepWhole ==
  ASSUME HydratorInv, NEW one \in Worker, CacheInv(one), NEW b \in Blob, VerifyStep(b)
  PROVE  CacheInv(one)'
<1>1. /\ StoreTypes /\ CallTypes /\ FetchTypes /\ WaitInv
      /\ BlobsWhole /\ CallsWhole /\ FetchWhole(one)
  BY DEF HydratorInv, CacheInv
<1>2. CASE Hash(b)
  <2> DEFINE r == CASE cache[b] = "whole" -> "ok" [] cache[b] = "part" -> "bad"
                    [] OTHER -> "err"
  <2>1. /\ checks' = [checks EXCEPT ![b] = (@ \ {"hash"}) \cup {r}]
        /\ UNCHANGED <<cache, tmp, verified, worker, call>>
    BY <1>2 DEF Hash
  <2>2. r # "bad" /\ (r = "ok" => cache[b] = "whole")
    BY <1>1 DEF BlobsWhole
  <2> HIDE DEF r
  <2>3. ASSUME NEW d \in Blob
        PROVE  /\ cache'[d] \in {"none", "whole"} /\ "bad" \notin checks'[d]
               /\ d \in verified' \/ "ok" \in checks'[d] => cache'[d] = "whole"
    <3>1. checks'[d] = IF d = b THEN (checks[b] \ {"hash"}) \cup {r} ELSE checks[d]
      BY <1>1, <2>1 DEF StoreTypes
    <3> QED
      BY <1>1, <2>1, <2>2, <3>1, SMT DEF BlobsWhole
  <2>4. BlobsWhole'
    BY <2>3 DEF BlobsWhole
  <2>5. CallsWhole' /\ FetchWhole(one)'
    BY <1>1, <2>1 DEF CallsWhole, FetchWhole
  <2> QED
    BY <2>4, <2>5 DEF CacheInv
<1>3. ASSUME NEW r \in Check, Report(b, r) PROVE CacheInv(one)'
  <2> DEFINE to == CASE r = "ok" -> "ok" [] r = "bad" -> "remove" [] OTHER -> "join"
  <2>1. /\ r \in checks[b] /\ r # "hash"
        /\ checks' = [checks EXCEPT ![b] = @ \ {r}]
        /\ verified' = IF r = "ok" THEN verified \cup {b} ELSE verified
        /\ call' = notifyWaiters(verifying[b], to)
        /\ UNCHANGED <<cache, tmp, worker>>
    BY <1>3 DEF Report
  <2>2. r \in {"ok", "err"} /\ (r = "ok" => cache[b] = "whole")
    BY <1>1, <2>1 DEF BlobsWhole, Check
  <2>3. to \in CallPlace /\ to \in {"ok", "join"} /\ (to = "ok" => r = "ok")
    BY <2>2 DEF CallPlace
  <2> HIDE DEF to
  <2>4. /\ verifying[b] \subseteq Client
        /\ \A c \in verifying[b] : call[c].pc = "verifying" /\ call[c].oid = b
    BY <1>1 DEF StoreTypes, WaitInv
  <2>5. /\ \A c \in Client : call'[c].oid = call[c].oid
        /\ \A c \in verifying[b] : call'[c].pc = to
        /\ \A c \in Client \ verifying[b] : call'[c] = call[c]
    BY <1>1, <2>1, <2>3, <2>4, CallsNotified
  <2>6. ASSUME NEW c \in Client
        PROVE  \/ call'[c] = call[c]
               \/ call'[c].pc \notin {"remove", "clear", "ok"}
               \/ call'[c].pc = "ok" /\ cache'[call'[c].oid] = "whole"
    BY <2>1, <2>2, <2>3, <2>4, <2>5
  <2>7. CallsWhole'
    BY <1>1, <2>1, <2>6, CallsStayWhole
  <2>8. ASSUME NEW d \in Blob
        PROVE  /\ cache'[d] \in {"none", "whole"} /\ "bad" \notin checks'[d]
               /\ d \in verified' \/ "ok" \in checks'[d] => cache'[d] = "whole"
    <3>1. \A x \in checks'[d] : x \in checks[d]
      BY <1>1, <2>1 DEF StoreTypes
    <3>2. d \in verified' => d \in verified \/ (d = b /\ r = "ok")
      BY <2>1
    <3> QED
      BY <1>1, <2>1, <2>2, <3>1, <3>2 DEF BlobsWhole
  <2>9. BlobsWhole'
    BY <2>8 DEF BlobsWhole
  <2>10. FetchWhole(one)'
    BY <1>1, <2>1 DEF FetchWhole
  <2> QED
    BY <2>7, <2>9, <2>10 DEF CacheInv
<1> QED
  BY <1>2, <1>3, Zenon DEF VerifyStep

\* Nothing of the cache depends on the queue.
LEMMA EnqueueWhole ==
  ASSUME HydratorInv, NEW one \in Worker, CacheInv(one), NEW b \in Blob, Enqueue(b)
  PROVE  CacheInv(one)'
<1>1. UNCHANGED <<cache, tmp, verified, checks, worker, call>>
  BY DEF Enqueue
<1>2. BlobsWhole /\ CallsWhole /\ FetchWhole(one)
  BY DEF CacheInv
<1>3. BlobsWhole' /\ CallsWhole' /\ FetchWhole(one)'
  BY <1>1, <1>2 DEF BlobsWhole, CallsWhole, FetchWhole
<1> QED
  BY <1>3 DEF CacheInv

\* The only worker writes its own file from start to end, and renames it whole.
LEMMA WorkerStepWhole ==
  ASSUME HydratorInv, NEW one \in Worker, CacheInv(one), WorkerStep(one)
  PROVE  CacheInv(one)'
<1> DEFINE b == worker[one].oid
<1>1. /\ StoreTypes /\ CallTypes /\ FetchTypes /\ WaitInv
      /\ BlobsWhole /\ CallsWhole /\ FetchWhole(one)
  BY DEF HydratorInv, CacheInv
<1>2. ASSUME worker'[one].pc \in {"idle", "step", "create"},
             UNCHANGED <<cache, verified, checks>>,
             \A c \in Client : call'[c] = call[c] \/ call'[c].pc = "err"
      PROVE  CacheInv(one)'
  <2>1. BlobsWhole' /\ FetchWhole(one)'
    BY <1>1, <1>2 DEF BlobsWhole, FetchWhole
  <2>2. CallsWhole'
    BY <1>1, <1>2, CallsStayWhole
  <2> QED
    BY <2>1, <2>2 DEF CacheInv
<1>3. CASE Wake(one)
  <2>1. /\ worker' = [worker EXCEPT ![one].pc = "step"]
        /\ UNCHANGED <<cache, verified, checks, call>>
    BY <1>3 DEF Wake
  <2>2. worker'[one].pc = "step"
    BY <1>1, <2>1, FetchGoes
  <2> QED
    BY <1>2, <2>1, <2>2
<1>4. CASE Step(one)
  <2>1. UNCHANGED <<cache, verified, checks, call>>
    BY <1>4 DEF Step
  <2>2. worker'[one].pc \in {"idle", "create"}
    <3>1. ASSUME NEW h, NEW ws
          PROVE  [NoFetch EXCEPT !.pc = "create", !.oid = h, !.waits = ws].pc = "create"
      BY DEF NoFetch
    <3>2. worker \in [Worker -> Fetch]
      BY <1>1 DEF FetchTypes
    <3>3. \/ worker' = [worker EXCEPT ![one] = NoFetch]
          \/ \E h, ws : worker' = [worker EXCEPT ![one] =
                           [NoFetch EXCEPT !.pc = "create", !.oid = h, !.waits = ws]]
      BY <1>4, Zenon DEF Step
    <3> DEFINE new(h, ws) == [NoFetch EXCEPT !.pc = "create", !.oid = h, !.waits = ws]
    <3>4. \A h, ws : new(h, ws).pc = "create"
      BY <3>1
    <3>5. \/ worker' = [worker EXCEPT ![one] = NoFetch]
          \/ \E h, ws : worker' = [worker EXCEPT ![one] = new(h, ws)]
      BY <3>3
    <3> HIDE DEF new
    <3>6. worker'[one] = NoFetch \/ \E h, ws : worker'[one] = new(h, ws)
      BY <3>2, <3>5
    <3> QED
      BY <3>4, <3>6, NothingTyped, Zenon
  <2> QED
    BY <1>2, <2>1, <2>2
<1>5. CASE CreateTmp(one)
  <2>1. worker'[one].pc = "copy" /\ worker'[one].fd = "tmp" /\ worker'[one].late = FALSE
    BY <1>1, <1>5, CreateTmpMoves
  <2>2. UNCHANGED <<cache, verified, checks, call>>
    BY <1>5 DEF CreateTmp, serviceVars
  <2>3. BlobsWhole' /\ CallsWhole'
    BY <1>1, <2>2 DEF BlobsWhole, CallsWhole
  <2>4. FetchWhole(one)'
    BY <2>1 DEF FetchWhole
  <2> QED
    BY <2>3, <2>4 DEF CacheInv
<1>6. CASE Copy(one)
  <2>1. /\ worker[one].pc = "copy" /\ worker' = [worker EXCEPT ![one].pc = "rename"]
        /\ UNCHANGED <<verified, checks, call>>
    BY <1>6 DEF Copy, serviceVars
  <2>2. b \in Blob /\ worker[one].fd = "tmp" /\ ~worker[one].late
    BY <1>1, <2>1 DEF FetchTypes, FetchWhole
  <2>3. tmp' = [tmp EXCEPT ![b] = "whole"] /\ cache' = cache
    BY <1>6, <2>2 DEF Copy
  <2>4. worker'[one].pc = "rename" /\ worker'[one].oid = b
    BY <1>1, <2>1, <2>2, FetchGoes
  <2>5. tmp'[b] = "whole"
    BY <1>1, <2>2, <2>3 DEF StoreTypes
  <2>6. FetchWhole(one)'
    BY <2>4, <2>5 DEF FetchWhole
  <2>7. BlobsWhole' /\ CallsWhole'
    BY <1>1, <2>1, <2>3 DEF BlobsWhole, CallsWhole
  <2> QED
    BY <2>6, <2>7 DEF CacheInv
<1>7. CASE FetchFails(one)
  <2>1. /\ worker[one].pc \in {"create", "copy"}
        /\ UNCHANGED <<cache, pq, wait, verifying, verified, checks, known>>
    BY <1>7 DEF FetchFails
  <2>2. worker'[one].pc \in {"create", "step"}
        /\ \A c \in Client : call'[c] = call[c] \/ call'[c].pc = "err"
    <3>1. worker \in [Worker -> Fetch] /\ cache' \in [Blob -> FileState]
      BY <1>1, <2>1 DEF FetchTypes, StoreTypes
    <3>2. CASE worker[one].pc = "copy"
      <4> DEFINE M == Moved(b, "tmp", "gone")
      <4>1. Retry(one, M) /\ tmp' = [tmp EXCEPT ![b] = "none"]
        BY <1>7, <3>2 DEF FetchFails
      <4>2. /\ M \in [Worker -> Fetch]
            /\ \A v \in Worker : /\ M[v].pc = worker[v].pc /\ M[v].oid = worker[v].oid
                                 /\ M[v].waits = worker[v].waits
        BY <1>1, MovedKeeps, SMT
      <4>3. tmp' \in [Blob -> FileState]
        BY <1>1, <4>1 DEF StoreTypes, FileState
      <4> HIDE DEF M
      <4> QED
        BY <2>1, <3>1, <4>1, <4>2, <4>3, Retries
    <3>3. CASE worker[one].pc = "create"
      <4>1. Retry(one, worker) /\ tmp' = tmp
        BY <1>7, <3>3 DEF FetchFails
      <4>2. tmp' \in [Blob -> FileState]
        BY <1>1, <4>1 DEF StoreTypes
      <4> QED
        BY <2>1, <3>1, <4>1, <4>2, Retries
    <3> QED
      BY <2>1, <3>2, <3>3
  <2> QED
    BY <1>2, <2>1, <2>2
<1>8. CASE RenameTmp(one)
  <2>1. worker[one].pc = "rename" /\ UNCHANGED <<verified, checks>>
    BY <1>8 DEF RenameTmp
  <2>2. b \in Blob /\ tmp[b] = "whole"
    BY <1>1, <2>1 DEF FetchTypes, FetchWhole
  <2>3. /\ cache' = [cache EXCEPT ![b] = tmp[b]]
        /\ worker' = [Moved(b, "tmp", "cache") EXCEPT ![one].pc = "mark"]
        /\ UNCHANGED call
    BY <1>8, <2>2 DEF RenameTmp
  <2>4. worker'[one].pc = "mark" /\ worker'[one].oid = b
    BY <1>1, <2>2, <2>3, RenameTmpMoves
  <2>5. \A d \in Blob : cache'[d] = IF d = b THEN "whole" ELSE cache[d]
    BY <1>1, <2>2, <2>3 DEF StoreTypes
  <2>6. BlobsWhole'
    BY <1>1, <2>1, <2>5 DEF BlobsWhole
  <2>7. CallsWhole'
    BY <1>1, <2>3, <2>5, CallsStayWhole
  <2>8. FetchWhole(one)'
    BY <2>2, <2>4, <2>5 DEF FetchWhole
  <2> QED
    BY <2>6, <2>7, <2>8 DEF CacheInv
<1>9. CASE Hydrated(one)
  <2>1. /\ worker[one].pc = "mark" /\ verified' = verified \cup {b}
        /\ known' = known \cup {b} /\ Finish(one, "ok", worker)
        /\ UNCHANGED <<cache, tmp, pq, wait, verifying, checks>>
    BY <1>9 DEF Hydrated
  <2>2. b \in Blob /\ worker \in [Worker -> Fetch] /\ cache[b] = "whole"
    BY <1>1, <2>1 DEF FetchTypes, FetchWhole
  <2>3. StoreTypes'
    BY <1>1, <2>1, <2>2 DEF StoreTypes, Finish
  <2>4. /\ worker'[one].pc = "step" /\ CallsKept
        /\ \A c \in worker[one].waits : call'[c].pc = "ok"
        /\ \A c \in Client \ worker[one].waits : call'[c] = call[c]
    BY <2>1, <2>2, <2>3, Finishes
  <2>5. \A c \in worker[one].waits : call[c].oid = b
    BY <1>1 DEF WaitInv
  <2>6. \A c \in Client :
          \/ call'[c] = call[c]
          \/ call'[c].pc = "ok" /\ cache'[call'[c].oid] = "whole"
    BY <2>1, <2>2, <2>4, <2>5 DEF CallsKept
  <2>7. CallsWhole'
    BY <1>1, <2>1, <2>6, CallsStayWhole
  <2>8. BlobsWhole'
    BY <1>1, <2>1, <2>2 DEF BlobsWhole
  <2>9. FetchWhole(one)'
    BY <2>4 DEF FetchWhole
  <2> QED
    BY <2>7, <2>8, <2>9 DEF CacheInv
<1> QED
  BY <1>3, <1>4, <1>5, <1>6, <1>7, <1>8, <1>9, Zenon DEF WorkerStep

-----------------------------------------------------------------------------
(* What the engine does to the hydrator *)

\* A request makes a call, or is done with one that has returned.
LEMMA CallReplaced ==
  ASSUME HydratorInv, NEW c \in Client, call[c].pc \in {"idle", "ok", "err"},
         NEW new \in HydrateCall, new.pc \in {"idle", "stat"},
         new.pc # "idle" => new.oid \in Blob,
         call' = [call EXCEPT ![c] = new], UNCHANGED <<cache, tmp, serviceVars, worker, known>>
  PROVE  /\ HydratorInv' /\ call'[c] = new /\ \A d \in Client \ {c} : call'[d] = call[d]
         /\ \A one \in Worker : CacheInv(one) => CacheInv(one)'
<1>1. StoreTypes /\ CallTypes /\ FetchTypes /\ WaitInv
  BY DEF HydratorInv
<1>2. /\ call' \in [Client -> HydrateCall] /\ call'[c] = new
      /\ \A d \in Client \ {c} : call'[d] = call[d]
  BY <1>1 DEF CallTypes
<1>3. CallTypes'
  BY <1>1, <1>2 DEF CallTypes
<1>4. StoreTypes' /\ FetchTypes' /\ UNCHANGED <<wait, verifying>>
  BY <1>1 DEF StoreTypes, FetchTypes, serviceVars
<1>5. \A d \in Client : call[d].pc \in {"waiting", "verifying"} => call'[d] = call[d]
  BY <1>2
<1>6. WaitInv'
  BY <1>1, <1>4, <1>5, WaitFrame
<1>7. ASSUME NEW one \in Worker, CacheInv(one) PROVE CacheInv(one)'
  <2>1. BlobsWhole /\ CallsWhole /\ FetchWhole(one)
    BY <1>7 DEF CacheInv
  <2>2. BlobsWhole' /\ FetchWhole(one)'
    BY <2>1 DEF BlobsWhole, FetchWhole, serviceVars
  <2>3. \A d \in Client : call'[d] = call[d] \/ call'[d].pc \notin {"remove", "clear", "ok"}
    BY <1>2
  <2>4. CallsWhole'
    BY <1>1, <2>1, <2>3, CallsStayWhole
  <2> QED
    BY <2>2, <2>4 DEF CacheInv
<1> QED
  BY <1>2, <1>3, <1>4, <1>6, <1>7 DEF HydratorInv

\* A new generation has its own sizes; nothing else of the mount is the hydrator's.
LEMMA HydratorFrame ==
  ASSUME HydratorInv, known' \subseteq Blob, UNCHANGED <<cache, tmp, serviceVars, worker, call>>
  PROVE  HydratorInv' /\ \A one \in Worker : CacheInv(one) => CacheInv(one)'
<1>1. StoreTypes /\ CallTypes /\ FetchTypes /\ WaitInv
  BY DEF HydratorInv
<1>2. StoreTypes' /\ CallTypes' /\ FetchTypes'
  BY <1>1 DEF StoreTypes, CallTypes, FetchTypes, serviceVars
<1>3. WaitInv'
  BY <1>1, WaitFrame DEF serviceVars
<1>4. ASSUME NEW one \in Worker, CacheInv(one) PROVE CacheInv(one)'
  <2>1. BlobsWhole /\ CallsWhole /\ FetchWhole(one)
    BY <1>4 DEF CacheInv
  <2>2. BlobsWhole' /\ CallsWhole' /\ FetchWhole(one)'
    BY <2>1 DEF BlobsWhole, CallsWhole, FetchWhole, serviceVars
  <2> QED
    BY <2>2 DEF CacheInv
<1> QED
  BY <1>2, <1>3, <1>4 DEF HydratorInv
=============================================================================
