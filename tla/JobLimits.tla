------------------------------ MODULE JobLimits ------------------------------
(***************************************************************************)
(* The limits on a workspace's concurrent jobs: JobService.create_job      *)
(* counts the workspace's active rows under a lock on the workspace row    *)
(* (enforce_workspace_job_limits) and then inserts the row of the new job. *)
(* launch_screen and launch_backtest do both in one transaction and so     *)
(* hold the lock until the row is committed; launch_smoke_job and          *)
(* launch_cache_warm run in autocommit mode, and the lock is gone before   *)
(* the row is inserted.  A request and the job it creates share one name.  *)
(***************************************************************************)
EXTENDS Naturals, FiniteSets

CONSTANTS
    Workspaces,
    Requests,        \* launch requests
    NoRequest,       \* what holds a free lock
    WorkspaceOf,     \* the workspace of every request
    KindOf,          \* its kind: "research", "smoke" or "other"
    TotalLimit,      \* WORKSPACE_MAX_CONCURRENT_JOBS; 0 is no limit
    ResearchLimit,   \* WORKSPACE_MAX_CONCURRENT_RESEARCH_JOBS
    SmokeLimit       \* WORKSPACE_MAX_CONCURRENT_SMOKE_JOBS

Kinds == {"research", "smoke", "other"}

ASSUME RequestsAssumption ==
    /\ IsFiniteSet(Requests)
    /\ NoRequest \notin Requests
    /\ WorkspaceOf \in [Requests -> Workspaces]
    /\ KindOf \in [Requests -> Kinds]
ASSUME LimitsAssumption ==
    TotalLimit \in Nat /\ ResearchLimit \in Nat /\ SmokeLimit \in Nat

VARIABLES
    pc,        \* where every request is
    lock,      \* the request whose transaction has locked a workspace row
    active,    \* jobs whose committed row is queued or running
    revived    \* history: jobs set running again after they had finished

vars == <<pc, lock, active, revived>>

Waiting == {"waiting", "locked", "counted", "admitted"}
Pcs == {"idle", "created", "rejected", "crashed"} \union Waiting

ActiveIn(w) == {r \in active : WorkspaceOf[r] = w}
ActiveOf(w, kind) == {r \in ActiveIn(w) : KindOf[r] = kind}

Init ==
    /\ pc = [r \in Requests |-> "idle"]
    /\ lock = [w \in Workspaces |-> NoRequest]
    /\ active = {}
    /\ revived = {}

\* A limit is in force when it is positive.
Reached(limit, jobs) == limit > 0 /\ Cardinality(jobs) >= limit

\* Plausible slip: launch_screen forgets transaction.atomic.
SlipNoTransaction(r) == FALSE

\* launch_screen and launch_backtest wrap create_job in transaction.atomic.
InTransaction(r) == KindOf[r] = "research"

KindLimit(r) == CASE KindOf[r] = "research" -> ResearchLimit
                  [] KindOf[r] = "smoke" -> SmokeLimit
                  [] OTHER -> 0

Release(r) == lock' = [lock EXCEPT ![WorkspaceOf[r]] = NoRequest]

MoveTo(r, place) == pc' = [pc EXCEPT ![r] = place]

\* Plausible slip: a rejection is caught inside the transaction, which stays open.
SlipRejectKeepsLock(r) == MoveTo(r, "rejected") /\ UNCHANGED lock

\* The exception of a reached limit rolls the transaction back.
Reject(r) == MoveTo(r, "rejected") /\ Release(r)

-----------------------------------------------------------------------------
\* The view calls launch_*, which calls create_job.
Arrive(r) ==
    /\ pc[r] = "idle"
    /\ MoveTo(r, "waiting")
    /\ UNCHANGED <<lock, active, revived>>

\* select_for_update on the workspace row.
LockWorkspace(r) ==
    /\ pc[r] = "waiting"
    /\ lock[WorkspaceOf[r]] = NoRequest
    /\ lock' = [lock EXCEPT ![WorkspaceOf[r]] = r]
    /\ MoveTo(r, "locked")
    /\ UNCHANGED <<active, revived>>

\* The first count, of all active jobs.
CountAll(r) ==
    /\ pc[r] = "locked"
    /\ IF Reached(TotalLimit, ActiveIn(WorkspaceOf[r]))
       THEN Reject(r)
       ELSE MoveTo(r, "counted") /\ UNCHANGED lock
    /\ UNCHANGED <<active, revived>>

\* The second, of the jobs of its kind, and the end of the block: it ends the
\* transaction unless it is inside the caller's.
CountKind(r) ==
    /\ pc[r] = "counted"
    /\ IF Reached(KindLimit(r), ActiveOf(WorkspaceOf[r], KindOf[r]))
       THEN Reject(r)
       ELSE /\ MoveTo(r, "admitted")
            /\ IF InTransaction(r) THEN UNCHANGED lock ELSE Release(r)
    /\ UNCHANGED <<active, revived>>

\* JobRun.objects.create, committed.  Its foreign key takes a share lock on the
\* workspace row, which waits for the request that has locked it.
InsertJob(r) ==
    /\ pc[r] = "admitted"
    /\ lock[WorkspaceOf[r]] \in {NoRequest, r}
    /\ active' = active \union {r}
    /\ MoveTo(r, "created")
    /\ Release(r)
    /\ UNCHANGED revived

\* The web process dies: the database rolls back and frees the lock.
CrashRequest(r) ==
    /\ pc[r] \in Waiting
    /\ MoveTo(r, "crashed")
    /\ IF lock[WorkspaceOf[r]] = r THEN Release(r) ELSE UNCHANGED lock
    /\ UNCHANGED <<active, revived>>

\* The job comes to an end (JobLifecycle).
FinishJob(r) ==
    /\ r \in active
    /\ active' = active \ {r}
    /\ UNCHANGED <<pc, lock, revived>>

\* _mark_running on the redelivered message of a finished job (JobLifecycle): it
\* becomes active again without any count.
ReviveJob(r) ==
    /\ pc[r] = "created"
    /\ r \notin active
    /\ active' = active \union {r}
    /\ revived' = revived \union {r}
    /\ UNCHANGED <<pc, lock>>

RequestStep(r) ==
    LockWorkspace(r) \/ CountAll(r) \/ CountKind(r) \/ InsertJob(r)

Next == \E r \in Requests : \/ Arrive(r) \/ RequestStep(r) \/ CrashRequest(r)
                            \/ FinishJob(r) \/ ReviveJob(r)

Spec == Init /\ [][Next]_vars

\* A request in progress goes on; the database queues the sessions that wait for a
\* row lock, so a session gets its turn.
Fairness == \A r \in Requests : SF_vars(RequestStep(r))

FairSpec == Spec /\ Fairness

-----------------------------------------------------------------------------
TypeOK ==
    /\ pc \in [Requests -> Pcs]
    /\ lock \in [Workspaces -> Requests \union {NoRequest}]
    /\ active \subseteq Requests
    /\ revived \subseteq Requests

\* A workspace's lock is held exactly by a request between its select_for_update
\* and the end of its transaction, so at most one request counts at a time.
LockHeld ==
    /\ TypeOK
    /\ \A r \in Requests :
          lock[WorkspaceOf[r]] = r <=> \/ pc[r] \in {"locked", "counted"}
                                       \/ pc[r] = "admitted" /\ InTransaction(r)
    /\ \A w \in Workspaces : lock[w] # NoRequest => WorkspaceOf[lock[w]] = w

\* However many screens and backtests are launched at once, a workspace has at
\* most ResearchLimit of them active, those brought back by a redelivery aside.
ResearchWithinLimit ==
    ResearchLimit > 0 => \A w \in Workspaces :
        Cardinality(ActiveOf(w, "research") \ revived) <= ResearchLimit

\* The same for smoke jobs.  It fails: two requests count before either inserts.
SmokeWithinLimit ==
    SmokeLimit > 0 => \A w \in Workspaces :
        Cardinality(ActiveOf(w, "smoke") \ revived) <= SmokeLimit

\* Every launch is answered: no request waits for a lock for ever, whoever else
\* is rejected or crashes.
EveryLaunchAnswered ==
    \A r \in Requests : pc[r] \in Waiting ~> pc[r] \notin Waiting

=============================================================================
