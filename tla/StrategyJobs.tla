----------------------------- MODULE StrategyJobs -----------------------------
(***************************************************************************)
(* handle_strategy_job: the workers of the strategy queue, the per-run job *)
(* lock, and the jobs deferred behind it.  A run is a user on a network.   *)
(* Jobs are scheduler ticks, fill nudges (a cycle now, whatever the        *)
(* interval) and safety passes (the rails only).  What a cycle does is     *)
(* StrategySession's subject; here it takes a while and ends.              *)
(***************************************************************************)
EXTENDS Naturals

CONSTANTS
    Runs,      \* (telegram_id, network) keys
    Vol,       \* the runs of the volume bot, which defer one job at most
    Workers,
    Kinds,     \* the kinds of job that arrive
    NoRun,
    None       \* no deferred job

ASSUME JobsAssumption ==
    /\ Vol \subseteq Runs /\ NoRun \notin Runs
    /\ Kinds \subseteq {"tick", "nudge", "safety"} /\ None \notin Kinds

VARIABLES
    running,   \* the row's running flag
    worker,    \* what each worker does
    pending,   \* _job_pending_payloads
    raised     \* history: the run's last job left by an exception

jobsVars == <<running, worker, pending, raised>>

\* kind: of the payload; safety: _safety, read off the first payload of a job
Idle == [pc |-> "idle", run |-> NoRun, kind |-> None, safety |-> FALSE]

JobsTypeOK ==
    /\ running \in [Runs -> BOOLEAN]
    /\ worker \in [Workers -> {Idle} \cup
                    [pc : {"got", "load", "cycle"}, run : Runs, kind : Kinds,
                     safety : BOOLEAN]]
    /\ pending \in [Runs -> Kinds \cup {None}]
    /\ raised \in [Runs -> BOOLEAN]

JobsInit ==
    /\ running = [r \in Runs |-> FALSE]
    /\ worker = [w \in Workers |-> Idle]
    /\ pending = [r \in Runs |-> None]
    /\ raised = [r \in Runs |-> FALSE]

\* _job_locks: w is past the lock of r, in the middle of a job
Holds(w, r) == worker[w].run = r /\ worker[w].pc \in {"load", "cycle"}
Locked(r) == \E w \in Workers : Holds(w, r)

\* the user starts and stops the strategy, or a cycle stops it
SetRunning(r, on) ==
    /\ running' = [running EXCEPT ![r] = on]
    /\ UNCHANGED <<worker, pending, raised>>

\* a worker takes a job off the queue; the safety poll leaves the volume bot out
Take(w, r, k) ==
    /\ worker[w].pc = "idle" /\ (k = "safety" => r \notin Vol)
    /\ worker' = [worker EXCEPT ![w] =
                    [pc |-> "got", run |-> r, kind |-> k, safety |-> FALSE]]
    /\ UNCHANGED <<running, pending, raised>>

\* the user's circuit is open
Skip(w) ==
    /\ worker[w].pc = "got"
    /\ worker' = [worker EXCEPT ![w] = Idle]
    /\ UNCHANGED <<running, pending, raised>>

\* mutant: the last payload wins, nudge or not
CoalescedLastWins(r, k) == k

\* what is deferred once a job of kind k comes while another runs: a safety pass
\* is redundant; a nudge sticks; the volume bot drops the rest
Coalesced(r, k) ==
    IF k = "safety" THEN pending[r]
    ELSE IF "nudge" \in {k, pending[r]} THEN "nudge"
    ELSE k

Coalesce(w) ==
    /\ worker[w].pc = "got" /\ Locked(worker[w].run)
    /\ pending' = [pending EXCEPT ![worker[w].run] =
                     Coalesced(worker[w].run, worker[w].kind)]
    /\ worker' = [worker EXCEPT ![w] = Idle]
    /\ UNCHANGED <<running, raised>>

Lock(w) ==
    /\ worker[w].pc = "got" /\ ~Locked(worker[w].run)
    /\ worker' = [worker EXCEPT ![w] =
                    [pc |-> "load", run |-> worker[w].run, kind |-> worker[w].kind,
                     safety |-> worker[w].kind = "safety"]]
    /\ raised' = [raised EXCEPT ![worker[w].run] = FALSE]
    /\ UNCHANGED <<running, pending>>

\* mutant: a stopped run keeps what was deferred
LoadStateKeeps(w) ==
    /\ worker[w].pc = "load"
    /\ IF running[worker[w].run]
       THEN worker' = [worker EXCEPT ![w].pc = "cycle"]
       ELSE worker' = [worker EXCEPT ![w] = Idle]
    /\ UNCHANGED <<running, pending, raised>>

\* the row is read; a stopped run drops what was deferred and ends the job
LoadState(w) ==
    /\ worker[w].pc = "load"
    /\ IF running[worker[w].run]
       THEN worker' = [worker EXCEPT ![w].pc = "cycle"] /\ UNCHANGED pending
       ELSE /\ worker' = [worker EXCEPT ![w] = Idle]
            /\ pending' = [pending EXCEPT ![worker[w].run] = None]
    /\ UNCHANGED <<running, raised>>

\* mutant: goes round again without looking whether a job was deferred
CycleEndGoesOn(w) ==
    /\ worker[w].pc = "cycle"
    /\ LET r == worker[w].run IN
       /\ pending' = [pending EXCEPT ![r] = None]
       /\ worker' = [worker EXCEPT ![w] = [pc |-> "load", run |-> r, kind |-> pending[r],
                                          safety |-> worker[w].safety]]
    /\ UNCHANGED <<running, raised>>

\* the cycle ends, in whatever way; the deferred job is next, with the _safety of
\* the job before
CycleEnd(w) ==
    /\ worker[w].pc = "cycle"
    /\ LET r == worker[w].run IN
       /\ pending' = [pending EXCEPT ![r] = None]
       /\ worker' = [worker EXCEPT ![w] =
                       IF pending[r] = None THEN Idle
                       ELSE [pc |-> "load", run |-> r, kind |-> pending[r],
                             safety |-> worker[w].safety]]
    /\ UNCHANGED <<running, raised>>

\* the row cannot be read (before the cycle, or in _mark_cycle_error): the exception
\* leaves the loop and the lock, and what was deferred stays
Raises(w) ==
    /\ worker[w].pc \in {"load", "cycle"}
    /\ worker' = [worker EXCEPT ![w] = Idle]
    /\ raised' = [raised EXCEPT ![worker[w].run] = TRUE]
    /\ UNCHANGED <<running, pending>>

handle_strategy_job(w) ==
    Coalesce(w) \/ Lock(w) \/ LoadState(w) \/ CycleEnd(w) \/ Raises(w)

-----------------------------------------------------------------------------
(* Properties *)

\* Cycles of one run never overlap, and a job is deferred only behind a worker
\* that will take it up: nothing is left behind when the lock is released, save
\* where the job ended in an exception, and then only until the next job
\* (handle_strategy_job: the lock, the pop on a stopped run, the final pop).
DeferredHasHolder ==
    /\ \A r \in Runs : pending[r] # None => Locked(r) \/ raised[r]
    /\ \A r \in Runs, v, w \in Workers : Holds(v, r) /\ Holds(w, r) => v = w

\* A fill nudge deferred behind a running cycle gets its cycle, as a nudge, unless
\* the run is stopped or the job raises: a later tick does not erase it (Coalesced,
\* CycleEnd). It may run as a safety pass, for _safety is read off the first payload.
NudgeServed == \A r \in Runs :
    pending[r] = "nudge" ~>
        \/ \E w \in Workers : worker[w].run = r /\ worker[w].pc = "cycle"
                              /\ worker[w].kind = "nudge"
        \/ ~running[r] \/ raised[r]

=============================================================================
