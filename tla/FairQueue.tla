------------------------------ MODULE FairQueue ------------------------------
(***************************************************************************)
(* _FairStrategyQueue: the per-user queues of strategy jobs, from which    *)
(* the workers take by deficit.  The jobs of a user are only counted.  put *)
(* waits while the queue is full; a caller that gives up (the put timeout  *)
(* of enqueue_strategy) has changed nothing here.                          *)
(***************************************************************************)
EXTENDS Integers, FiniteSetsExt

CONSTANTS
    Users,
    MaxSize,   \* maxsize of the queue
    MaxJobs    \* bound on the jobs ever put

ASSUME FairQueueAssumption == MaxSize \in Nat \ {0} /\ MaxJobs \in Nat

VARIABLES
    perUser,   \* jobs in each of _per_user
    since,     \* when each user entered _per_user, whose dict keeps that order
    deficit,   \* _deficit
    jobs,      \* jobs put so far
    passed,    \* history: jobs of each other user taken since u has one waiting
    owed       \* history: how many that could be, when u came

queueVars == <<perUser, since, deficit, jobs, passed, owed>>

QueueTypeOK ==
    /\ perUser \in [Users -> Nat]
    /\ since \in [Users -> Nat]
    /\ deficit \in [Users -> Nat]
    /\ jobs \in 0..MaxJobs
    /\ passed \in [Users -> [Users -> Nat]] /\ owed \in [Users -> [Users -> Nat]]

QueueInit ==
    /\ perUser = [u \in Users |-> 0]
    /\ since = [u \in Users |-> 0]
    /\ deficit = [u \in Users |-> 0]
    /\ jobs = 0
    /\ passed = [u \in Users |-> [v \in Users |-> 0]] /\ owed = passed

\* the users with a job; _size
active == {u \in Users : perUser[u] > 0}
qsize == MapThenSumSet(LAMBDA u : perUser[u], Users)

\* how often each user may be served before u: as often as its deficit is ahead,
\* and once more on a tie
Ahead(u, d) == [v \in Users |-> IF d[v] < d[u] THEN 0 ELSE d[v] - d[u] + 1]

put(u) ==
    /\ qsize < MaxSize /\ jobs < MaxJobs
    /\ jobs' = jobs + 1
    /\ perUser' = [perUser EXCEPT ![u] = @ + 1]
    /\ IF u \in active THEN UNCHANGED <<since, passed, owed>>
       ELSE /\ since' = [since EXCEPT ![u] = jobs]
            /\ passed' = [passed EXCEPT ![u] = [v \in Users |-> 0]]
            /\ owed' = [owed EXCEPT ![u] = Ahead(u, deficit)]
    /\ UNCHANGED deficit

\* mutant: the quantum goes to the user served alone
EarnedByServed(served) == deficit

\* a quantum for everyone with a job, one unit off the user served
Earned(served) == [u \in Users |->
    deficit[u] + (IF u \in active THEN 1 ELSE 0) - (IF u = served THEN 1 ELSE 0)]

\* max over the dict: the first user with the largest deficit
Largest(u) ==
    /\ u \in active
    /\ \A v \in active :
        \/ deficit[v] < deficit[u]
        \/ deficit[v] = deficit[u] /\ since[u] <= since[v]

\* a drained user leaves the dict; its deficit stays
get(u) ==
    /\ Largest(u)
    /\ deficit' = Earned(u)
    /\ perUser' = [perUser EXCEPT ![u] = @ - 1]
    /\ passed' = [w \in Users |-> [v \in Users |->
                     IF w = u THEN 0
                     ELSE passed[w][v] + (IF v = u /\ w \in active THEN 1 ELSE 0)]]
    /\ owed' = [owed EXCEPT ![u] = Ahead(u, Earned(u))]
    /\ UNCHANGED <<jobs, since>>

-----------------------------------------------------------------------------
(* Properties *)

\* A waiting user is passed over by another no more often than the other's deficit
\* was ahead of its own when it came, a tie included: everyone waiting earns a
\* quantum at each get, so nobody starves (_FairStrategyQueue.get).
WaitBounded == \A u \in active : \A v \in Users \ {u} : passed[u][v] <= owed[u][v]

=============================================================================
