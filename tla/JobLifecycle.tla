---------------------------- MODULE JobLifecycle ----------------------------
(***************************************************************************)
(* The life of a tracked job (apps.jobs): a web request creates a JobRun   *)
(* row and publishes a Celery message, a worker receives the message and   *)
(* runs the task under _run_with_tracking, and other requests ask for the  *)
(* job's cancellation.  Every database statement is an action of its own,  *)
(* because the project runs in autocommit mode and no caller keeps a lock  *)
(* across two of them.  The broker delivers at least once                  *)
(* (CELERY_TASK_ACKS_LATE), and the faults it and the processes around it  *)
(* may show are named, switched on by Faults and capped by MaxFaults.      *)
(***************************************************************************)
EXTENDS Naturals

CONSTANTS
    Jobs,         \* identities of JobRun rows
    Workers,      \* worker processes: one task at a time (--pool=solo)
    NoJob,        \* what an idle worker is working on
    MaxRetries,   \* TrackedJobTask.max_retries
    Steps,        \* checkpoints (update_progress calls) of the work
    Faults,       \* the faults that may happen
    MaxFaults     \* bound: how many of them, in all

FaultKinds == {"web_crash", "ambiguous_dispatch", "worker_crash",
               "visibility_timeout", "outcome_lost"}

ASSUME NoJobAssumption == NoJob \notin Jobs
ASSUME BoundsAssumption == MaxRetries \in Nat /\ Steps \in Nat /\ MaxFaults \in Nat
ASSUME FaultsAssumption == Faults \subseteq FaultKinds

VARIABLES
    row,        \* the JobRun row of every job, as committed
    launch,     \* where the request that launches the job is
    cancel,     \* where the request that cancels the job is
    queue,      \* queue[j][r]: undelivered messages for job j with retries = r
    attempt,    \* what every worker is doing
    faults,     \* how many faults have happened
    extra,      \* history: deliveries of a job beside the one its owner stands for
    redelivered,\* history: deliveries given back by workers that died at work
    abandoned,  \* history: jobs whose owner was lost with no message left
    runs        \* history: how often a job was marked running

vars == <<row, launch, cancel, queue, attempt, faults, extra, redelivered,
          abandoned, runs>>

-----------------------------------------------------------------------------
TerminalStates == {"succeeded", "failed", "cancelled"}
States == {"absent", "queued", "running"} \union TerminalStates
Errors == {"none", "dispatch_failed", "cancelled", "transient", "permanent"}
Tries == 0 .. MaxRetries

\* progress_percent: checkpoint k of the work, or 100
Full == Steps + 1

Row == [state : States, progress : 0 .. Full, cancelRequested : BOOLEAN,
        finished : BOOLEAN, error : Errors, retryCount : Tries]

Launch == {"none", "created", "sent", "failing",
           "accepted", "unavailable", "crashed"}

\* start: message received;    check: marked running, not yet checked;
\* work: in the task's body;   save: checked, about to save progress;
\* cancelling, retrying, failing: about to record that outcome;
\* publish: retry recorded, not yet published;   ack: task returned or raised
Pcs == {"idle", "start", "check", "work", "save", "cancelling", "retrying",
        "publish", "failing", "ack"}

\* held: the broker still waits for this delivery's acknowledgement.
\* preCancelled and late are history: the cancellation was committed before
\* the attempt was marked running; checkpoints saved after it was committed.
Attempt == [pc : Pcs, job : Jobs \union {NoJob}, retries : Tries,
            step : 0 .. Steps, held : BOOLEAN,
            preCancelled : BOOLEAN, late : Nat]

Idle == [pc |-> "idle", job |-> NoJob, retries |-> 0, step |-> 0,
         held |-> FALSE, preCancelled |-> FALSE, late |-> 0]

AbsentRow == [state |-> "absent", progress |-> 0, cancelRequested |-> FALSE,
              finished |-> FALSE, error |-> "none", retryCount |-> 0]

\* JobRun.is_terminal
IsTerminal(r) == r.state \in TerminalStates

\* The attempt still has writes to make for job j.
Active(w, j) == attempt[w].job = j /\ attempt[w].pc \notin {"idle", "ack"}

Init ==
    /\ row = [j \in Jobs |-> AbsentRow]
    /\ launch = [j \in Jobs |-> "none"]
    /\ cancel = [j \in Jobs |-> "idle"]
    /\ queue = [j \in Jobs |-> [r \in Tries |-> 0]]
    /\ attempt = [w \in Workers |-> Idle]
    /\ faults = 0
    /\ extra = [j \in Jobs |-> 0]
    /\ redelivered = [j \in Jobs |-> 0]
    /\ abandoned = {}
    /\ runs = [j \in Jobs |-> 0]

history == <<faults, extra, redelivered, abandoned, runs>>

\* _save_job: the named fields of one row.
SaveJob(j, r) == row' = [row EXCEPT ![j] = r]

SaveAttempt(w, a) == attempt' = [attempt EXCEPT ![w] = a]
Goto(w, pc) == SaveAttempt(w, [attempt[w] EXCEPT !.pc = pc])

-----------------------------------------------------------------------------
(* Plausible slips in the code, each the counterpart of one definition      *)
(* below: a property that none of them broke would say nothing.             *)

\* check_for_cancellation raises for every unfinished job.
SlipStopAlways(j) == ~IsTerminal(row[j])

\* The check between _mark_running and the body is forgotten.
SlipNoFirstCheck(w) ==
    LET a == attempt[w] IN
    /\ \/ a.pc = "check"
       \/ a.pc = "work" /\ a.step < Steps
    /\ Goto(w, IF a.pc = "check" THEN "work"
               ELSE IF row[a.job].cancelRequested /\ ~IsTerminal(row[a.job])
                    THEN "cancelling" ELSE "save")
    /\ UNCHANGED <<row, launch, cancel, queue, history>>

\* update_progress does not check.
SlipNoLaterCheck(w) ==
    LET a == attempt[w] IN
    /\ \/ a.pc = "check"
       \/ a.pc = "work" /\ a.step < Steps
    /\ Goto(w, IF a.pc = "work" THEN "save"
               ELSE IF row[a.job].cancelRequested /\ ~IsTerminal(row[a.job])
                    THEN "cancelling" ELSE "work")
    /\ UNCHANGED <<row, launch, cancel, queue, history>>

\* The last checkpoint reports 100 percent (a factor of 100 where the code has 95).
SlipLastStepIsFull(w) ==
    LET a == attempt[w] IN
    /\ a.pc = "save"
    /\ SaveJob(a.job, [row[a.job] EXCEPT !.progress =
                                   IF a.step + 1 = Steps THEN Full ELSE a.step + 1])
    /\ SaveAttempt(w, [attempt[w] EXCEPT !.pc = "work", !.step = @ + 1])
    /\ UNCHANGED <<launch, cancel, queue, history>>

\* The except clause for JobCancelledError does not return.
SlipCancelFallsThrough(w) ==
    /\ attempt[w].pc = "cancelling"
    /\ SaveJob(attempt[w].job, [row[attempt[w].job] EXCEPT
                                   !.state = "cancelled", !.error = "cancelled",
                                   !.finished = TRUE])
    /\ SaveAttempt(w, [attempt[w] EXCEPT !.pc = "work", !.step = Steps])
    /\ UNCHANGED <<launch, cancel, queue, history>>

\* _mark_retry with another count, and what the task does next.
SlipRetry(w, count, next) ==
    /\ attempt[w].pc = "retrying"
    /\ SaveJob(attempt[w].job, [row[attempt[w].job] EXCEPT !.state = "queued",
                                   !.error = "transient", !.retryCount = count,
                                   !.finished = FALSE])
    /\ Goto(w, next)
    /\ UNCHANGED <<launch, cancel, queue, history>>

SlipRetryCountedTwice(w) == SlipRetry(w, attempt[w].retries + 2, "publish")
SlipRetryNotCounted(w) == SlipRetry(w, attempt[w].retries, "publish")
SlipRetryNotPublished(w) == SlipRetry(w, attempt[w].retries + 1, "ack")

\* The new message carries the old number of retries.
SlipPublishSameRetry(w) ==
    LET a == attempt[w] IN
    /\ a.pc = "publish"
    /\ queue' = [queue EXCEPT ![a.job][a.retries] = @ + 1]
    /\ Goto(w, "ack")
    /\ UNCHANGED <<row, launch, cancel, history>>

\* task.retry is called without raise: _mark_failed follows.
SlipPublishFallsThrough(w) ==
    LET a == attempt[w] IN
    /\ a.pc = "publish"
    /\ queue' = [queue EXCEPT ![a.job][a.retries + 1] = @ + 1]
    /\ Goto(w, "failing")
    /\ UNCHANGED <<row, launch, cancel, history>>

-----------------------------------------------------------------------------
(* The launching request: JobService.launch_smoke_job, launch_screen, ...   *)

CreateJob(j) ==
    /\ launch[j] = "none"
    /\ launch' = [launch EXCEPT ![j] = "created"]
    /\ row' = [row EXCEPT ![j] = [AbsentRow EXCEPT !.state = "queued"]]
    /\ UNCHANGED <<cancel, queue, attempt, history>>

\* apply_async returns: the broker has the message.
Dispatch(j) ==
    /\ launch[j] = "created"
    /\ launch' = [launch EXCEPT ![j] = "sent"]
    /\ queue' = [queue EXCEPT ![j][0] = @ + 1]
    /\ UNCHANGED <<row, cancel, attempt, history>>

\* apply_async raises and the broker has nothing.
DispatchRefused(j) ==
    /\ launch[j] = "created"
    /\ launch' = [launch EXCEPT ![j] = "failing"]
    /\ UNCHANGED <<row, cancel, queue, attempt, history>>

\* The except branch: saved from the copy loaded at creation, whatever the row
\* has become since.
MarkDispatchFailed(j) ==
    /\ launch[j] = "failing"
    /\ launch' = [launch EXCEPT ![j] = "unavailable"]
    /\ SaveJob(j, [row[j] EXCEPT !.state = "failed", !.finished = TRUE,
                                 !.error = "dispatch_failed"])
    /\ UNCHANGED <<cancel, queue, attempt, history>>

\* The row is read again and the view answers 202 if it is still queued.
AnswerLaunch(j) ==
    /\ launch[j] = "sent"
    /\ launch' = [launch EXCEPT ![j] =
                     IF row[j].state = "queued" THEN "accepted" ELSE "unavailable"]
    /\ UNCHANGED <<row, cancel, queue, attempt, history>>

LaunchStep(j) ==
    Dispatch(j) \/ DispatchRefused(j) \/ MarkDispatchFailed(j) \/ AnswerLaunch(j)

-----------------------------------------------------------------------------
(* The cancelling request: JobService.request_cancellation.                 *)

\* The view loads the row; a terminal one is returned as it is.  (Bound: a
\* second request after the first is saved only moves a timestamp.)
ReadForCancel(j) ==
    /\ cancel[j] = "idle"
    /\ row[j].state # "absent"
    /\ ~IsTerminal(row[j])
    /\ ~row[j].cancelRequested
    /\ cancel' = [cancel EXCEPT ![j] = "checked"]
    /\ UNCHANGED <<row, launch, queue, attempt, history>>

\* Only the cancel fields are saved, even if the job has finished meanwhile.
SaveCancelRequest(j) ==
    /\ cancel[j] = "checked"
    /\ cancel' = [cancel EXCEPT ![j] = "idle"]
    /\ SaveJob(j, [row[j] EXCEPT !.cancelRequested = TRUE])
    /\ UNCHANGED <<launch, queue, attempt, history>>

-----------------------------------------------------------------------------
(* The worker: _run_with_tracking around the task's body.                   *)

Receive(w, j, r) ==
    /\ attempt[w].pc = "idle"
    /\ queue[j][r] > 0
    /\ queue' = [queue EXCEPT ![j][r] = @ - 1]
    /\ attempt' = [attempt EXCEPT ![w] =
                      [Idle EXCEPT !.pc = "start", !.job = j, !.retries = r,
                                   !.held = TRUE]]
    /\ UNCHANGED <<row, launch, cancel, history>>

\* _mark_running: unconditional.
MarkRunning(w) ==
    LET j == attempt[w].job IN
    /\ attempt[w].pc = "start"
    /\ SaveJob(j, [row[j] EXCEPT !.state = "running", !.error = "none",
                                 !.finished = FALSE])
    /\ SaveAttempt(w, [attempt[w] EXCEPT !.pc = "check",
                                         !.preCancelled = row[j].cancelRequested])
    /\ runs' = [runs EXCEPT ![j] = @ + 1]
    /\ UNCHANGED <<launch, cancel, queue, faults, extra, redelivered, abandoned>>

\* What check_for_cancellation finds in the row it refreshes.
MustStop(j) == row[j].cancelRequested /\ ~IsTerminal(row[j])

\* check_for_cancellation, before the body and first thing in update_progress.
CheckForCancellation(w) ==
    LET a == attempt[w] IN
    /\ \/ a.pc = "check"
       \/ a.pc = "work" /\ a.step < Steps
    /\ Goto(w, IF MustStop(a.job) THEN "cancelling"
               ELSE IF a.pc = "check" THEN "work" ELSE "save")
    /\ UNCHANGED <<row, launch, cancel, queue, history>>

\* The rest of update_progress.
SaveProgress(w) ==
    LET a == attempt[w] IN
    /\ a.pc = "save"
    /\ SaveJob(a.job, [row[a.job] EXCEPT !.progress = a.step + 1])
    /\ SaveAttempt(w, [attempt[w] EXCEPT !.pc = "work", !.step = @ + 1,
                                         !.late = IF row[a.job].cancelRequested
                                                   THEN @ + 1 ELSE @])
    /\ UNCHANGED <<launch, cancel, queue, history>>

\* An exception reaches the except clause.  The body may raise anything; the
\* database errors of a check or a save are not in TRANSIENT_EXCEPTIONS.
Raise(w, kind) ==
    LET a == attempt[w] IN
    /\ \/ a.pc = "work" /\ kind \in {"transient", "permanent"}
       \/ a.pc \in {"check", "save"} /\ kind = "permanent"
    /\ Goto(w, IF kind = "transient" /\ a.retries < MaxRetries
               THEN "retrying" ELSE "failing")
    /\ UNCHANGED <<row, launch, cancel, queue, history>>

MarkCancelled(w) ==
    LET j == attempt[w].job IN
    /\ attempt[w].pc = "cancelling"
    /\ SaveJob(j, [row[j] EXCEPT !.state = "cancelled", !.error = "cancelled",
                                 !.finished = TRUE])
    /\ Goto(w, "ack")
    /\ UNCHANGED <<launch, cancel, queue, history>>

MarkRetry(w) ==
    LET j == attempt[w].job IN
    /\ attempt[w].pc = "retrying"
    /\ SaveJob(j, [row[j] EXCEPT !.state = "queued", !.error = "transient",
                                 !.retryCount = attempt[w].retries + 1,
                                 !.finished = FALSE])
    /\ Goto(w, "publish")
    /\ UNCHANGED <<launch, cancel, queue, history>>

\* task.retry publishes the next message before the present one is acknowledged.
PublishRetry(w) ==
    LET a == attempt[w] IN
    /\ a.pc = "publish"
    /\ queue' = [queue EXCEPT ![a.job][a.retries + 1] = @ + 1]
    /\ Goto(w, "ack")
    /\ UNCHANGED <<row, launch, cancel, history>>

MarkFailed(w) ==
    LET j == attempt[w].job IN
    /\ attempt[w].pc = "failing"
    /\ SaveJob(j, [row[j] EXCEPT !.state = "failed", !.error = "permanent",
                                 !.finished = TRUE])
    /\ Goto(w, "ack")
    /\ UNCHANGED <<launch, cancel, queue, history>>

\* The body returned.  The row is not read again before it is saved.
MarkSucceeded(w) ==
    LET j == attempt[w].job IN
    /\ attempt[w].pc = "work"
    /\ attempt[w].step = Steps
    /\ SaveJob(j, [row[j] EXCEPT !.state = "succeeded", !.progress = Full,
                                 !.error = "none", !.finished = TRUE])
    /\ Goto(w, "ack")
    /\ UNCHANGED <<launch, cancel, queue, history>>

\* CELERY_TASK_ACKS_LATE: the message goes when the task is over.
Acknowledge(w) ==
    /\ attempt[w].pc = "ack"
    /\ attempt' = [attempt EXCEPT ![w] = Idle]
    /\ UNCHANGED <<row, launch, cancel, queue, history>>

WorkerStep(w) ==
    \/ MarkRunning(w) \/ CheckForCancellation(w) \/ SaveProgress(w)
    \/ \E kind \in {"transient", "permanent"} : Raise(w, kind)
    \/ MarkCancelled(w) \/ MarkRetry(w) \/ PublishRetry(w)
    \/ MarkFailed(w) \/ MarkSucceeded(w) \/ Acknowledge(w)

-----------------------------------------------------------------------------
(* Faults of the processes and of the broker.                               *)

Strike(kind) ==
    /\ kind \in Faults
    /\ faults < MaxFaults
    /\ faults' = faults + 1

\* The web process dies; before the message is out, nobody will send it.
WebCrash(j) ==
    /\ Strike("web_crash")
    /\ launch[j] \in {"created", "sent", "failing"}
    /\ launch' = [launch EXCEPT ![j] = "crashed"]
    /\ abandoned' = IF launch[j] = "sent" THEN abandoned ELSE abandoned \union {j}
    /\ UNCHANGED <<row, cancel, queue, attempt, extra, redelivered, runs>>

\* apply_async raises although the broker stored the message.
AmbiguousDispatch(j) ==
    /\ Strike("ambiguous_dispatch")
    /\ launch[j] = "created"
    /\ launch' = [launch EXCEPT ![j] = "failing"]
    /\ queue' = [queue EXCEPT ![j][0] = @ + 1]
    /\ extra' = [extra EXCEPT ![j] = @ + 1]
    /\ UNCHANGED <<row, cancel, attempt, redelivered, abandoned, runs>>

\* The worker process dies, and the broker delivers its message again unless it
\* has done so already.  The job is handed back if the worker was still at work on
\* it; if all was written and only the acknowledgement was missing, the delivery is
\* one too many.
WorkerCrash(w) ==
    LET a == attempt[w]
        Deliver == queue' = [queue EXCEPT ![a.job][a.retries] = @ + 1]
    IN
    /\ Strike("worker_crash")
    /\ a.pc # "idle"
    /\ attempt' = [attempt EXCEPT ![w] = Idle]
    /\ \/ /\ a.held /\ a.pc # "ack"
          /\ Deliver
          /\ redelivered' = [redelivered EXCEPT ![a.job] = @ + 1]
          /\ UNCHANGED <<extra, abandoned>>
       \/ /\ a.held /\ a.pc = "ack"
          /\ Deliver
          /\ extra' = [extra EXCEPT ![a.job] = @ + 1]
          /\ UNCHANGED <<redelivered, abandoned>>
       \/ /\ ~a.held
          /\ abandoned' = IF a.pc = "ack" THEN abandoned
                           ELSE abandoned \union {a.job}
          /\ UNCHANGED <<queue, extra, redelivered>>
    /\ UNCHANGED <<row, launch, cancel, runs>>

\* The task outlives the broker's visibility timeout: the message is delivered
\* again while the first attempt is still at work.
VisibilityTimeout(w) ==
    LET a == attempt[w] IN
    /\ Strike("visibility_timeout")
    /\ a.pc # "idle" /\ a.held
    /\ attempt' = [attempt EXCEPT ![w].held = FALSE]
    /\ queue' = [queue EXCEPT ![a.job][a.retries] = @ + 1]
    /\ extra' = [extra EXCEPT ![a.job] = @ + 1]
    /\ UNCHANGED <<row, launch, cancel, redelivered, abandoned, runs>>

\* A write outside the try block, or the publication of the retry, fails: the
\* exception leaves the task and the message is acknowledged all the same.
OutcomeLost(w) ==
    LET a == attempt[w] IN
    /\ Strike("outcome_lost")
    /\ \/ a.pc \in {"start", "check", "cancelling", "retrying", "publish", "failing"}
       \/ a.pc = "work" /\ a.step = Steps
    /\ Goto(w, "ack")
    /\ abandoned' = abandoned \union {a.job}
    /\ UNCHANGED <<row, launch, cancel, queue, extra, redelivered, runs>>

Fault ==
    \/ \E j \in Jobs : WebCrash(j) \/ AmbiguousDispatch(j)
    \/ \E w \in Workers : WorkerCrash(w) \/ VisibilityTimeout(w) \/ OutcomeLost(w)

-----------------------------------------------------------------------------
Next ==
    \/ \E j \in Jobs : CreateJob(j) \/ LaunchStep(j)
    \/ \E j \in Jobs : ReadForCancel(j) \/ SaveCancelRequest(j)
    \/ \E w \in Workers, j \in Jobs, r \in Tries : Receive(w, j, r)
    \/ \E w \in Workers : WorkerStep(w)
    \/ Fault

Spec == Init /\ [][Next]_vars

\* A request in progress goes on, a task in progress goes on, and the broker's
\* queue is first-in first-out: a waiting message is taken in its turn.
Fairness ==
    /\ \A j \in Jobs : WF_vars(LaunchStep(j))
    /\ \A w \in Workers : WF_vars(WorkerStep(w))
    /\ \A j \in Jobs : SF_vars(\E w \in Workers, r \in Tries : Receive(w, j, r))

FairSpec == Spec /\ Fairness

-----------------------------------------------------------------------------
(* Properties.                                                              *)

TypeOK ==
    /\ row \in [Jobs -> Row]
    /\ launch \in [Jobs -> Launch]
    /\ cancel \in [Jobs -> {"idle", "checked"}]
    /\ queue \in [Jobs -> [Tries -> Nat]]
    /\ attempt \in [Workers -> Attempt]
    /\ faults \in Nat
    /\ extra \in [Jobs -> Nat]
    /\ redelivered \in [Jobs -> Nat]
    /\ abandoned \in SUBSET Jobs
    /\ runs \in [Jobs -> Nat]

\* No delivery of j so far came beside its owner: the broker may have delivered a
\* message again, but only one whose worker died at work.
Undisturbed(j) == extra[j] = 0

\* Who will still write the outcome of job j: the request that launches it, a
\* message, or the attempt of a worker.
LaunchOwns(j) == launch[j] \in {"created", "failing"}
MessageOwns(j) == \E r \in Tries : queue[j][r] > 0
WorkerOwns(j) == \E w \in Workers : Active(w, j)

\* A queued or running job is never left without an owner: every hand-over
\* (request to broker, broker to worker, retry to broker) creates the next owner
\* before the last one goes, also when workers crash.  Only the losses WebCrash,
\* OutcomeLost and a second loss of the same delivery break it, and they are
\* recorded in abandoned.
NoOrphan ==
    \A j \in Jobs : row[j].state \in {"queued", "running"} /\ j \notin abandoned
                      => LaunchOwns(j) \/ MessageOwns(j) \/ WorkerOwns(j)

\* While the job is undisturbed, exactly one of them owns it if it is unfinished and
\* none if it is finished, through crashes of workers at work and of requests, so no
\* two processes ever write the same row.
SingleOwner ==
    \A j \in Jobs : Undisturbed(j) =>
        /\ LaunchOwns(j) => ~MessageOwns(j) /\ ~WorkerOwns(j)
        /\ MessageOwns(j) => ~WorkerOwns(j)
        /\ \A r, s \in Tries : queue[j][r] > 0 /\ queue[j][s] > 0 => r = s
        /\ \A v, w \in Workers : Active(v, j) /\ Active(w, j) => v = w
        /\ IsTerminal(row[j]) => ~LaunchOwns(j) /\ ~MessageOwns(j) /\ ~WorkerOwns(j)

\* A finished job keeps its outcome: _mark_running and the dispatch-failure branch
\* do not look at the state they overwrite, so this rests on SingleOwner.
TerminalIsFinal ==
    [][\A j \in Jobs : Undisturbed(j) /\ IsTerminal(row[j]) =>
           row'[j] = [row[j] EXCEPT !.cancelRequested = row'[j].cancelRequested]]_vars

\* A cancellation committed before an attempt starts keeps it from the body:
\* the check that follows _mark_running sees it, whatever other requests do.
CancelPreventsWork ==
    \A w \in Workers : attempt[w].preCancelled /\ Undisturbed(attempt[w].job)
                          => attempt[w].pc \notin {"work", "save", "retrying", "publish"}

\* A cancellation committed during an attempt lets at most one more checkpoint
\* through, the one whose check had already passed.
CancelOverrun ==
    \A w \in Workers : attempt[w].job \in Jobs /\ Undisturbed(attempt[w].job)
                          => attempt[w].late <= 1

\* retry_count, error and state agree with the retry under way: a row that waits
\* for retry k has the message (or the worker) of retry k, or the worker that is
\* about to publish it, or, if that worker died first, its own message k - 1 again.
RetryAccounted ==
    \A j \in Jobs :
        LET k == row[j].retryCount
            Has(r) == \/ queue[j][r] > 0
                      \/ \E w \in Workers : /\ Active(w, j) /\ attempt[w].pc = "start"
                                             /\ attempt[w].retries = r
        IN
        Undisturbed(j) /\ row[j].state = "queued" /\ row[j].error = "transient"
            /\ j \notin abandoned
        => \/ Has(k)
           \/ \E w \in Workers : /\ Active(w, j) /\ attempt[w].pc = "publish"
                                  /\ attempt[w].retries + 1 = k
           \/ redelivered[j] > 0 /\ Has(k - 1)

\* A delivery beside the owner buys at most one more round of retries, and one given
\* back by a worker that died at work a single run.
BoundedRuns ==
    \A j \in Jobs : runs[j] <= (MaxRetries + 1) * (1 + extra[j]) + redelivered[j]

\* 100 percent is shown exactly for the jobs that succeeded: no late update_progress
\* lowers it, and no failed attempt leaves it behind.
SucceededMeansComplete ==
    \A j \in Jobs : Undisturbed(j) =>
        (row[j].state = "succeeded" <=> row[j].progress = Full)

\* The same without the proviso: cancellation is honoured however often the
\* broker delivers.  It is not: check_for_cancellation ignores a request on a row
\* that another attempt of the same job has just finished.
CancelAlwaysHonoured ==
    \A w \in Workers : attempt[w].preCancelled
                          => attempt[w].pc \notin {"work", "save", "retrying", "publish"}

\* A launch is answered 503 only if its message was not sent.  It is not: the
\* answer is 503 whenever a worker was quicker than the request's second read.
UnavailableMeansNotSent ==
    \A j \in Jobs : launch[j] = "unavailable" /\ Undisturbed(j) => runs[j] = 0

\* Every launched job comes to a final outcome and keeps it, unless its owner was
\* lost: retries end, redeliveries end, and a cancelled job does not linger.
EventuallySettled ==
    \A j \in Jobs : (launch[j] # "none")
                      ~> [](IsTerminal(row[j]) \/ j \in abandoned)

\* The statuses seen from outside, void for a job that was disturbed.
Status == INSTANCE JobStatus WITH
    status <- [j \in Jobs |-> IF Undisturbed(j) THEN row[j].state ELSE "void"],
    asked <- [j \in Jobs |-> Undisturbed(j) /\ row[j].cancelRequested],
    tries <- [j \in Jobs |-> IF Undisturbed(j) THEN runs[j] ELSE 0],
    allowed <- [j \in Jobs |-> IF Undisturbed(j) THEN MaxRetries + 1 + redelivered[j]
                                                ELSE 0]

\* The lifecycle implements what JobStatus promises.
ImplementsStatus == Status!Spec

=============================================================================
