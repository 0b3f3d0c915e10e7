----------------------------- MODULE StrategyPool -----------------------------
(***************************************************************************)
(* The strategy worker pool: FairQueue hands the jobs out, StrategyJobs    *)
(* runs them.  A worker's get takes the job of the user whose turn it is,  *)
(* and handle_strategy_job goes on with it; a run belongs to one user, and *)
(* which of the user's jobs is at the front is left open.                  *)
(***************************************************************************)
EXTENDS FairQueue, StrategyJobs

CONSTANT OwnerOf   \* telegram_id of a run

ASSUME OwnerAssumption == OwnerOf \in [Runs -> Users]

vars == <<queueVars, jobsVars>>

TypeOK == QueueTypeOK /\ JobsTypeOK

Init == QueueInit /\ JobsInit

\* strategy_scheduler, the nudges and the safety poll, through enqueue_strategy
Enqueue(u) == put(u) /\ UNCHANGED jobsVars

_worker_loop(w, r, k) == get(OwnerOf[r]) /\ Take(w, r, k)

Handle(w) == handle_strategy_job(w) /\ UNCHANGED queueVars

Next ==
    \/ \E u \in Users : Enqueue(u)
    \/ \E w \in Workers, r \in Runs, k \in Kinds : _worker_loop(w, r, k)
    \/ \E w \in Workers : (Skip(w) /\ UNCHANGED queueVars) \/ Handle(w)
    \/ \E r \in Runs, on \in BOOLEAN : SetRunning(r, on) /\ UNCHANGED queueVars

Spec == Init /\ [][Next]_vars
\* a worker never rests on a job: cycles end, at the timeout at the latest
FairSpec == Spec /\ \A w \in Workers : WF_vars(Handle(w))
=============================================================================
