-------------------------- MODULE DispatchPromise ---------------------------
(***************************************************************************)
(* What `defn dispatch` promises its caller (the comment on dispatch.Run,  *)
(* without any of its concurrency): every entry of the brick list settles  *)
(* at most once, a verdict is given once, and unless the run could not be  *)
(* carried out (2) it is given after every entry has settled and is 0 only *)
(* if all of them settled as idempotent and all merges worked.             *)
(***************************************************************************)
EXTENDS Integers

CONSTANTS Worker, Outcome

VARIABLES
  settled,   \* the outcome each entry settled with ("pending" before)
  merged,    \* no merge of an agent branch has failed
  verdict    \* 0, 1, 2, or -1 before

pvars == <<settled, merged, verdict>>

PInit ==
  /\ settled = [w \in Worker |-> "pending"]
  /\ merged = TRUE
  /\ verdict = -1

Settle(w) ==
  /\ verdict = -1 /\ settled[w] = "pending"
  /\ \E o \in Outcome : settled' = [settled EXCEPT ![w] = o]
  /\ UNCHANGED <<merged, verdict>>

AllSettled == \A w \in Worker : settled[w] # "pending"

MergeFails ==
  /\ verdict = -1 /\ AllSettled
  /\ merged' = FALSE
  /\ UNCHANGED <<settled, verdict>>

Conclude ==
  /\ verdict = -1 /\ AllSettled
  /\ verdict' = IF merged /\ \A w \in Worker : settled[w] = "idempotent"
                THEN 0 ELSE 1
  /\ UNCHANGED <<settled, merged>>

\* The run cannot be set up, or its plan cannot be written.
GiveUp ==
  /\ verdict = -1
  /\ verdict' = 2
  /\ UNCHANGED <<settled, merged>>

PNext == (\E w \in Worker : Settle(w)) \/ MergeFails \/ Conclude \/ GiveUp

\* A verdict is always given.
PSpec == PInit /\ [][PNext]_pvars /\ WF_pvars(Conclude \/ GiveUp)
=============================================================================
