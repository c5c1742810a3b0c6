-------------------------- MODULE ScheduledLaunch --------------------------
(***************************************************************************)
(* A schedule launches runs of its template (apps.automation).  The launch  *)
(* writes to the run, to its job's metadata and to the schedule after the   *)
(* job's message is out, from copies it read before, while the task that    *)
(* got the message writes to the same rows from copies of its own.  Who     *)
(* finds the job finished sends the notifications.                          *)
(*                                                                         *)
(* Actor 0 of a run is the launch (launch_schedule, launch_template,        *)
(* launch_screen); actor k in 1 .. MaxRetries + 1 is the task's attempt k.  *)
(* The schedule has notify_on_success and notify_on_failure set, as the     *)
(* model's defaults are, and the broker delivers every message once:        *)
(* JobLifecycle covers the rest.                                            *)
(***************************************************************************)
EXTENDS Naturals, FiniteSets

CONSTANTS
    Runs,         \* the runs of one schedule
    NoRun,        \* what last_job_run_id is before the first
    MaxRetries,   \* TrackedJobTask.max_retries
    Steps         \* how often the task saves its progress and reads the job again

ASSUME NoRunAssumption == NoRun \notin Runs
ASSUME StepsAssumption == MaxRetries \in Nat /\ Steps \in Nat

VARIABLES
    row,       \* the job and run rows of every run, as committed
    pc,        \* where every actor of a run is
    copy,      \* what the actor's objects held when it last read the rows
    step,      \* how often the attempt has read the job again
    queue,     \* the attempts whose message is out
    schedule,  \* the schedule's last_launch_status and last_job_run_id
    sent,      \* history: notifications of a run sent to each addressee
    told,      \* history: outcomes they announced
    inTime     \* history: the runs whose tag nobody was about to overwrite

vars == <<row, pc, copy, step, queue, schedule, sent, told, inTime>>

-----------------------------------------------------------------------------
Attempts == 1 .. MaxRetries + 1
Actors == 0 .. MaxRetries + 1

TerminalStates == {"succeeded", "failed", "cancelled"}
States == {"absent", "queued", "running"} \union TerminalStates

\* tagged: the job's metadata has run_schedule_id;   result: it has the result;
\* template: the run's source_template is set.
Row == [state : States, tagged : BOOLEAN, result : BOOLEAN, template : BOOLEAN]

Absent == [state |-> "absent", tagged |-> FALSE, result |-> FALSE, template |-> FALSE]

\* The schedule's own notification, an alert rule for its template, one for any
\* template, and the notice that the launch raised an exception.
Addressees == {"schedule", "template_rule", "any_rule", "exception"}

LaunchPcs == {"dispatch", "reread", "tag_run", "tag_job", "touch"}
TaskPcs == {"start", "work", "saved", "publish", "recheck"}
Pcs == {"idle", "done"} \union LaunchPcs \union TaskPcs \union {"notify", "send", "conclude"}

Terminal(r) == r.state \in TerminalStates

Init ==
    /\ row = [r \in Runs |-> Absent]
    /\ pc = [r \in Runs |-> [a \in Actors |-> "idle"]]
    /\ copy = [r \in Runs |-> [a \in Actors |-> Absent]]
    /\ step = [r \in Runs |-> [k \in Attempts |-> 0]]
    /\ queue = [r \in Runs |-> {}]
    /\ schedule = [status |-> "", job |-> NoRun]
    /\ sent = [r \in Runs |-> [x \in Addressees |-> 0]]
    /\ told = [r \in Runs |-> {}]
    /\ inTime = {}

Goto(r, a, next) == pc' = [pc EXCEPT ![r][a] = next]
Read(r, a) == copy' = [copy EXCEPT ![r][a] = row[r]]
SaveRow(r, new) == row' = [row EXCEPT ![r] = new]

\* The metadata column is saved whole, from the actor's copy.
WithMetadata(r, a) == [row[r] EXCEPT !.tagged = copy[r][a].tagged,
                                     !.result = copy[r][a].result]

notices == <<sent, told>>
others == <<step, queue, schedule, notices, inTime>>

\* The attempt holds a copy of the metadata that it will save.
Holds(r, k) == pc[r][k] \in {"start", "work", "saved"}

-----------------------------------------------------------------------------
(* Plausible slips, each the counterpart of one definition below.           *)

\* The launch notifies whatever the job's state.
SlipAlwaysNotify(r) ==
    /\ pc[r][0] = "touch"
    /\ schedule' = [status |-> copy[r][0].state, job |-> r]
    /\ Goto(r, 0, "notify")
    /\ UNCHANGED <<row, copy, step, queue, notices, inTime>>

\* The task never notifies of a failure.
SlipSilentFailure(r, k) ==
    /\ pc[r][k] = "recheck"
    /\ Goto(r, k, "done")
    /\ UNCHANGED <<row, copy, others>>

\* _mark_retry records the failure as final.
SlipRetryAsFailure(r, k) ==
    /\ pc[r][k] \in {"work", "saved"} /\ k <= MaxRetries
    /\ SaveRow(r, [WithMetadata(r, k) EXCEPT !.state = "failed"])
    /\ Goto(r, k, "publish")
    /\ UNCHANGED <<copy, others>>

\* task.request.retries is not compared with max_retries.
SlipRetryUnbounded(r, k) ==
    /\ pc[r][k] \in {"work", "saved"}
    /\ SaveRow(r, [WithMetadata(r, k) EXCEPT !.state = "queued"])
    /\ Goto(r, k, "publish")
    /\ UNCHANGED <<copy, others>>

\* _mark_succeeded does not save the metadata.
SlipNoResult(r, k) ==
    /\ pc[r][k] = "saved" /\ step[r][k] = Steps
    /\ SaveRow(r, [row[r] EXCEPT !.state = "succeeded"])
    /\ Goto(r, k, "notify")
    /\ UNCHANGED <<copy, others>>

-----------------------------------------------------------------------------
(* The launch.                                                              *)

\* launch_screen, up to the commit of the job and the run.
CreateRun(r) ==
    /\ pc[r][0] = "idle"
    /\ SaveRow(r, [Absent EXCEPT !.state = "queued"])
    /\ copy' = [copy EXCEPT ![r][0] = [Absent EXCEPT !.state = "queued"]]
    /\ Goto(r, 0, "dispatch")
    /\ UNCHANGED others

Dispatch(r) ==
    /\ pc[r][0] = "dispatch"
    /\ queue' = [queue EXCEPT ![r] = {1}]
    /\ Goto(r, 0, "reread")
    /\ UNCHANGED <<row, copy, step, schedule, notices, inTime>>

\* apply_async raises; enqueue_screen records it and goes on.
DispatchRefused(r) ==
    /\ pc[r][0] = "dispatch"
    /\ SaveRow(r, [WithMetadata(r, 0) EXCEPT !.state = "failed"])
    /\ Goto(r, 0, "reread")
    /\ UNCHANGED <<copy, others>>

RereadRun(r) ==
    /\ pc[r][0] = "reread"
    /\ Read(r, 0)
    /\ Goto(r, 0, "tag_run")
    /\ UNCHANGED <<row, others>>

TagRun(r) ==
    /\ pc[r][0] = "tag_run"
    /\ SaveRow(r, [row[r] EXCEPT !.template = TRUE])
    /\ Goto(r, 0, "tag_job")
    /\ UNCHANGED <<copy, others>>

TagJob(r) ==
    /\ pc[r][0] = "tag_job"
    /\ SaveRow(r, [WithMetadata(r, 0) EXCEPT !.tagged = TRUE])
    /\ inTime' = IF ~Terminal(row[r]) /\ \A k \in Attempts : ~Holds(r, k)
                  THEN inTime \union {r} ELSE inTime
    /\ Goto(r, 0, "touch")
    /\ UNCHANGED <<copy, step, queue, schedule, notices>>

\* last_launch_status is the state that was read before the tags were saved.
TouchSchedule(r) ==
    /\ pc[r][0] = "touch"
    /\ schedule' = [status |-> copy[r][0].state, job |-> r]
    /\ Goto(r, 0, IF Terminal(copy[r][0]) THEN "notify" ELSE "done")
    /\ UNCHANGED <<row, copy, step, queue, notices, inTime>>

\* The limits or the configuration refuse the launch, or a statement fails after the
\* message is out: the last of them saves the template, when everything is tagged.
LaunchRaises(r) ==
    /\ pc[r][0] \in {"idle", "reread", "tag_run", "tag_job", "touch"}
    /\ schedule' = [schedule EXCEPT !.status = "dispatch_exception"]
    /\ sent' = [sent EXCEPT ![r]["exception"] = @ + 1]
    /\ Goto(r, 0, "done")
    /\ UNCHANGED <<row, copy, step, queue, told, inTime>>

LaunchStep(r) ==
    \/ Dispatch(r) \/ DispatchRefused(r) \/ RereadRun(r) \/ TagRun(r)
    \/ TagJob(r) \/ TouchSchedule(r)

-----------------------------------------------------------------------------
(* The task: _run_with_tracking around execute_screen_run.                  *)

LoadJob(r, k) ==
    /\ pc[r][k] = "idle" /\ k \in queue[r]
    /\ queue' = [queue EXCEPT ![r] = @ \ {k}]
    /\ Read(r, k)
    /\ Goto(r, k, "start")
    /\ UNCHANGED <<row, step, schedule, notices, inTime>>

\* The metadata is not among the fields _mark_running saves.
MarkRunning(r, k) ==
    /\ pc[r][k] = "start"
    /\ SaveRow(r, [row[r] EXCEPT !.state = "running"])
    /\ Goto(r, k, "work")
    /\ UNCHANGED <<copy, others>>

\* update_progress, cancellation not requested.
SaveProgress(r, k) ==
    /\ pc[r][k] = "work"
    /\ SaveRow(r, WithMetadata(r, k))
    /\ Goto(r, k, "saved")
    /\ UNCHANGED <<copy, others>>

\* refresh_from_db after every update_progress but the last.
RefreshJob(r, k) ==
    /\ pc[r][k] = "saved" /\ step[r][k] < Steps
    /\ Read(r, k)
    /\ step' = [step EXCEPT ![r][k] = @ + 1]
    /\ Goto(r, k, "work")
    /\ UNCHANGED <<row, queue, schedule, notices, inTime>>

MarkSucceeded(r, k) ==
    /\ pc[r][k] = "saved" /\ step[r][k] = Steps
    /\ SaveRow(r, [WithMetadata(r, k) EXCEPT !.state = "succeeded", !.result = TRUE])
    /\ Goto(r, k, "notify")
    /\ UNCHANGED <<copy, others>>

\* A check finds the cancellation requested; the task returns as if it succeeded.
MarkCancelled(r, k) ==
    /\ pc[r][k] = "work"
    /\ SaveRow(r, [WithMetadata(r, k) EXCEPT !.state = "cancelled"])
    /\ Goto(r, k, "notify")
    /\ UNCHANGED <<copy, others>>

MarkFailed(r, k) ==
    /\ pc[r][k] \in {"work", "saved"}
    /\ SaveRow(r, [WithMetadata(r, k) EXCEPT !.state = "failed"])
    /\ Goto(r, k, "recheck")
    /\ UNCHANGED <<copy, others>>

MarkRetry(r, k) ==
    /\ pc[r][k] \in {"work", "saved"} /\ k <= MaxRetries
    /\ SaveRow(r, [WithMetadata(r, k) EXCEPT !.state = "queued"])
    /\ Goto(r, k, "publish")
    /\ UNCHANGED <<copy, others>>

PublishRetry(r, k) ==
    /\ pc[r][k] = "publish"
    /\ queue' = [queue EXCEPT ![r] = @ \union {k + 1}]
    /\ Goto(r, k, "recheck")
    /\ UNCHANGED <<row, copy, step, schedule, notices, inTime>>

\* The except clause of run_screen_job, for the failure and for the retry.
RecheckRun(r, k) ==
    /\ pc[r][k] = "recheck"
    /\ Goto(r, k, IF Terminal(row[r]) THEN "notify" ELSE "done")
    /\ UNCHANGED <<row, copy, others>>

TaskStep(r, k) ==
    \/ LoadJob(r, k) \/ MarkRunning(r, k) \/ SaveProgress(r, k) \/ RefreshJob(r, k)
    \/ MarkSucceeded(r, k) \/ MarkCancelled(r, k) \/ MarkFailed(r, k)
    \/ MarkRetry(r, k) \/ PublishRetry(r, k) \/ RecheckRun(r, k)

-----------------------------------------------------------------------------
(* dispatch_for_screen_run, by either.                                      *)

ReadForNotice(r, a) ==
    /\ pc[r][a] = "notify"
    /\ Read(r, a)
    /\ Goto(r, a, "send")
    /\ UNCHANGED <<row, others>>

\* Whom the run it read concerns; a delivery that fails is recorded, not raised.
Concerned(c) == {"any_rule"} \union (IF c.tagged THEN {"schedule"} ELSE {})
                             \union (IF c.template THEN {"template_rule"} ELSE {})

SendNotices(r, a) ==
    LET c == copy[r][a] IN
    /\ pc[r][a] = "send"
    /\ IF Terminal(c)
       THEN /\ sent' = [sent EXCEPT ![r] = [x \in Addressees |->
                           IF x \in Concerned(c) THEN sent[r][x] + 1 ELSE sent[r][x]]]
            /\ told' = [told EXCEPT ![r] = @ \union {c.state}]
       ELSE UNCHANGED notices
    /\ Goto(r, a, "conclude")
    /\ UNCHANGED <<row, copy, step, queue, schedule, inTime>>

\* _touch_schedule_terminal_state
Conclude(r, a) ==
    /\ pc[r][a] = "conclude"
    /\ schedule' = IF copy[r][a].tagged
                    THEN [status |-> copy[r][a].state, job |-> r] ELSE schedule
    /\ Goto(r, a, "done")
    /\ UNCHANGED <<row, copy, step, queue, notices, inTime>>

NoticeStep(r, a) == ReadForNotice(r, a) \/ SendNotices(r, a) \/ Conclude(r, a)

-----------------------------------------------------------------------------
Next ==
    \E r \in Runs :
        \/ CreateRun(r) \/ LaunchStep(r) \/ LaunchRaises(r)
        \/ \E k \in Attempts : TaskStep(r, k)
        \/ \E a \in Actors : NoticeStep(r, a)

Spec == Init /\ [][Next]_vars

\* Launches and tasks are straight-line code: what has begun goes on.
Fairness ==
    \A r \in Runs :
        /\ WF_vars(LaunchStep(r))
        /\ \A k \in Attempts : WF_vars(TaskStep(r, k))
        /\ \A a \in Actors : WF_vars(NoticeStep(r, a))

FairSpec == Spec /\ Fairness

-----------------------------------------------------------------------------
(* Properties.                                                              *)

TypeOK ==
    /\ row \in [Runs -> Row]
    /\ pc \in [Runs -> [Actors -> Pcs]]
    /\ copy \in [Runs -> [Actors -> Row]]
    /\ step \in [Runs -> [Attempts -> 0 .. Steps]]
    /\ queue \in [Runs -> SUBSET Attempts]
    /\ schedule \in [status : States \union {"", "dispatch_exception"},
                     job : Runs \union {NoRun}]
    /\ sent \in [Runs -> [Addressees -> Nat]]
    /\ told \in [Runs -> SUBSET TerminalStates]
    /\ inTime \in SUBSET Runs

Begun(r, a) == pc[r][a] # "idle"

\* Nothing of the run is under way any more.
Settled(r) == queue[r] = {} /\ \A a \in Actors : pc[r][a] \in {"idle", "done"}

Launched(r) == row[r].state # "absent"

\* A run whose tag was saved while no attempt held older metadata keeps its tag
\* through all the saves of all later attempts, and its result when it has one.
MetadataKept ==
    \A r \in inTime : /\ row[r].tagged
                      /\ row[r].state = "succeeded" => row[r].result

\* Such a run notifies its schedule and its template's rules: once, or, if it was
\* retried and the retry overtook the end of an earlier attempt, once per attempt.
InTimeIsNotified ==
    \A r \in inTime : Settled(r) =>
        \A x \in {"schedule", "template_rule"} :
            sent[r][x] \in 1 .. Cardinality({k \in Attempts : Begun(r, k)})

\* What notifications announce and what the schedule shows is the outcome the run
\* has: nobody reports a failure that a retry then overturns.
OutcomeTruthful ==
    /\ \A r \in Runs : told[r] \subseteq {row[r].state}
    /\ schedule.status \in TerminalStates => row[schedule.job].state = schedule.status

\* Whatever overtakes what, a launched run is announced to the rules that do not
\* name a template, or the launch's exception is.
NeverSilent ==
    \A r \in Runs : Launched(r) ~> (sent[r]["any_rule"] > 0 \/ sent[r]["exception"] > 0)

\* A scheduled run that was launched without an exception notifies its schedule.
\* It need not: a task that loaded the job before the launch tagged it saves the
\* metadata without the tag, and finds no schedule to notify.
ScheduledRunNotified ==
    \A r \in Runs : Launched(r) /\ Settled(r) /\ sent[r]["exception"] = 0
                      => sent[r]["schedule"] > 0

=============================================================================
