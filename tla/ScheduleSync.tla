---------------------------- MODULE ScheduleSync ----------------------------
(***************************************************************************)
(* A schedule and the periodic task that beat fires for it                  *)
(* (apps.automation, ScheduleService).  The two rows are written one after  *)
(* the other, the update's from copies the request loaded, each statement   *)
(* in a transaction of its own.  Django's save() of a row that is gone      *)
(* inserts it again; save(update_fields=...) of one raises.                 *)
(*                                                                         *)
(* One schedule and its template.  The request that creates it is one       *)
(* transaction; any number of requests change and delete it, and beat       *)
(* launches from it.  Deleting the template deletes the schedule with it.   *)
(***************************************************************************)
EXTENDS Naturals, FiniteSets

CONSTANTS
    ScheduleRequests,   \* requests in flight on the schedule
    Crons,              \* values of its crontab
    TaskIds,            \* bound: periodic tasks that can be inserted
    NoTask              \* periodic_task is null

ASSUME NoTaskAssumption == NoTask \notin TaskIds
ASSUME CronsAssumption == Crons # {}

VARIABLES
    ssTemplate,  \* its strategy template exists
    ssRow,       \* the RunSchedule row
    ssTasks,     \* the PeriodicTask rows
    ssUsed,      \* the task ids the database has given out
    ssReq,       \* the requests
    ssAlone,     \* history: the requests that met nobody else so far
    ssHurt,      \* history: nothing has put right a crash or an overlap yet
    ssMixed      \* history: a deletion overlapped another request, crashed, or was the template's

scheduleVars == <<ssTemplate, ssRow, ssTasks, ssUsed, ssReq, ssAlone, ssHurt, ssMixed>>

-----------------------------------------------------------------------------
\* name stands for the task's name, which holds the schedule's id and its name's slug.
Names == {"first", "renamed"}

ScheduleRow == [exists : BOOLEAN, cron : Crons, enabled : BOOLEAN, name : Names,
                task : TaskIds \union {NoTask}, status : {"", "launched"}]

TaskRow == [exists : BOOLEAN, cron : Crons, enabled : BOOLEAN, name : Names]

RequestPcs == {"idle", "save", "sync", "link", "delete_row", "delete_task", "touch"}
Request == [pc : RequestPcs, copy : ScheduleRow]

NoSchedule == [exists |-> FALSE, cron |-> CHOOSE c \in Crons : TRUE, enabled |-> FALSE,
               name |-> "first", task |-> NoTask, status |-> ""]
NoPeriodicTask == [exists |-> FALSE, cron |-> NoSchedule.cron, enabled |-> FALSE, name |-> "first"]

LiveTasks == {k \in TaskIds : ssTasks[k].exists}

\* PeriodicTask.name is unique.
NameTaken(name, id) == \E k \in LiveTasks : k # id /\ ssTasks[k].name = name

Busy == {q \in ScheduleRequests : ssReq[q].pc \notin {"idle", "touch"}}

At(q, pc) == ssReq[q].pc = pc
Become(q, pc, copy) == ssReq' = [ssReq EXCEPT ![q] = [pc |-> pc, copy |-> copy]]
End(q) == Become(q, "idle", NoSchedule)

\* The bookkeeping of a request that starts: it and all it meets are no longer alone.
Enter(q) ==
    /\ ssAlone' = IF Busy = {} THEN ssAlone \union {q} ELSE ssAlone \ (Busy \union {q})
    /\ ssHurt' = (ssHurt \/ Busy # {})

-----------------------------------------------------------------------------
(* Plausible slips, each the counterpart of one definition below.           *)

\* Of TaskOf: sync_periodic_task leaves the enabled flag of an existing task alone.
SlipTaskOf(row) ==
    [exists |-> TRUE, cron |-> row.cron, name |-> row.name,
     enabled |-> IF row.task \in LiveTasks THEN ssTasks[row.task].enabled ELSE row.enabled]

\* What sync_periodic_task writes into the task, from the request's copy of the schedule.
TaskOf(row) == [exists |-> TRUE, cron |-> row.cron, enabled |-> row.enabled, name |-> row.name]

\* Of SyncTask: sync_periodic_task makes a new task every time.
SlipSyncNew(q) ==
    LET c == ssReq[q].copy
        id == CHOOSE k \in TaskIds \ ssUsed : TRUE
    IN  /\ At(q, "sync") /\ ssUsed # TaskIds
        /\ IF NameTaken(c.name, id)
           THEN End(q) /\ UNCHANGED <<ssTasks, ssUsed>>
           ELSE /\ ssTasks' = [ssTasks EXCEPT ![id] = TaskOf(c)]
                /\ ssUsed' = ssUsed \union {id}
                /\ Become(q, "link", [c EXCEPT !.task = id])
        /\ UNCHANGED <<ssTemplate, ssRow, ssAlone, ssHurt, ssMixed>>

-----------------------------------------------------------------------------
SyncInit ==
    /\ ssTemplate = TRUE
    /\ ssRow = NoSchedule
    /\ ssTasks = [k \in TaskIds |-> NoPeriodicTask]
    /\ ssUsed = {}
    /\ ssReq = [q \in ScheduleRequests |-> [pc |-> "idle", copy |-> NoSchedule]]
    /\ ssAlone = {}
    /\ ssHurt = FALSE
    /\ ssMixed = FALSE

\* create_schedule: the schedule, its task and the link in one transaction.
CreateSchedule ==
    /\ ssUsed = {} /\ ssTemplate
    /\ \E id \in TaskIds, c \in Crons, e \in BOOLEAN :
           LET row == [NoSchedule EXCEPT !.exists = TRUE, !.cron = c, !.enabled = e, !.task = id]
           IN  /\ ssRow' = row
               /\ ssTasks' = [ssTasks EXCEPT ![id] = TaskOf(row)]
               /\ ssUsed' = {id}
    /\ UNCHANGED <<ssTemplate, ssReq, ssAlone, ssHurt, ssMixed>>

\* RunScheduleDetailView.patch loads the schedule, its task with it.
LoadForUpdate(q) ==
    /\ At(q, "idle") /\ ssRow.exists
    /\ Become(q, "save", ssRow)
    /\ Enter(q)
    /\ ssMixed' = (ssMixed \/ \E p \in Busy : At(p, "delete_row") \/ At(p, "delete_task"))
    /\ UNCHANGED <<ssTemplate, ssRow, ssTasks, ssUsed>>

\* update_schedule sets the submitted fields on its copy and saves every column; a
\* schedule deleted meanwhile comes back, unless its task or its template is gone and a
\* key fails.
SaveSchedule(q) ==
    /\ At(q, "save")
    /\ \E c \in Crons, e \in BOOLEAN, n \in Names :
           LET new == [ssReq[q].copy EXCEPT !.cron = c, !.enabled = e, !.name = n]
           IN  IF ssTemplate /\ new.task \in LiveTasks \union {NoTask}
               THEN ssRow' = new /\ Become(q, "sync", new)
               ELSE UNCHANGED ssRow /\ End(q)
    /\ UNCHANGED <<ssTemplate, ssTasks, ssUsed, ssAlone, ssHurt, ssMixed>>

\* sync_periodic_task, up to periodic_task.save(): the task the copy points at, written
\* whole (inserted again if it is gone), or a new one.  A taken name raises.
SyncTask(q) ==
    LET c == ssReq[q].copy
    IN  /\ At(q, "sync")
        /\ \E id \in IF c.task = NoTask THEN TaskIds \ ssUsed ELSE {c.task} :
               IF NameTaken(c.name, id)
               THEN End(q) /\ UNCHANGED <<ssTasks, ssUsed>>
               ELSE /\ ssTasks' = [ssTasks EXCEPT ![id] = TaskOf(c)]
                    /\ ssUsed' = ssUsed \union {id}
                    /\ IF id = c.task THEN End(q) ELSE Become(q, "link", [c EXCEPT !.task = id])
        /\ ssHurt' = (ssHurt /\ ~(q \in ssAlone /\ c.task # NoTask))
        /\ UNCHANGED <<ssTemplate, ssRow, ssAlone, ssMixed>>

\* ... and the link to a new task, in that column alone.
LinkTask(q) ==
    /\ At(q, "link")
    /\ ssRow' = IF ssRow.exists THEN [ssRow EXCEPT !.task = ssReq[q].copy.task] ELSE ssRow
    /\ End(q)
    /\ UNCHANGED <<ssTemplate, ssTasks, ssUsed, ssAlone, ssHurt, ssMixed>>

\* RunScheduleDetailView.delete and delete_schedule: the schedule, then its task, whose
\* deletion nulls the column that points at it.
LoadForDelete(q) ==
    /\ At(q, "idle") /\ ssRow.exists
    /\ Become(q, "delete_row", ssRow)
    /\ Enter(q)
    /\ ssMixed' = (ssMixed \/ Busy # {})
    /\ UNCHANGED <<ssTemplate, ssRow, ssTasks, ssUsed>>

DeleteRow(q) ==
    /\ At(q, "delete_row")
    /\ ssRow' = NoSchedule
    /\ IF ssReq[q].copy.task = NoTask THEN End(q) ELSE Become(q, "delete_task", ssReq[q].copy)
    /\ UNCHANGED <<ssTemplate, ssTasks, ssUsed, ssAlone, ssHurt, ssMixed>>

DeleteTask(q) ==
    LET id == ssReq[q].copy.task
    IN  /\ At(q, "delete_task")
        /\ ssTasks' = [ssTasks EXCEPT ![id] = NoPeriodicTask]
        /\ ssRow' = IF ssRow.task = id THEN [ssRow EXCEPT !.task = NoTask] ELSE ssRow
        /\ End(q)
        /\ UNCHANGED <<ssTemplate, ssUsed, ssAlone, ssHurt, ssMixed>>

\* StrategyTemplateDetailView.delete: the database deletes the schedule with its template
\* (on_delete=CASCADE) and knows nothing of the periodic task.
DeleteTemplate ==
    /\ ssTemplate /\ ssTemplate' = FALSE
    /\ ssRow' = NoSchedule
    /\ ssMixed' = (ssMixed \/ ssRow.exists)
    /\ UNCHANGED <<ssTasks, ssUsed, ssReq, ssAlone, ssHurt>>

\* Beat fires an enabled task: get_schedule raises when the schedule is gone.
Fire(q) ==
    /\ At(q, "idle")
    /\ \E k \in LiveTasks : ssTasks[k].enabled
    /\ ssRow.exists
    /\ Become(q, "touch", ssRow)
    /\ UNCHANGED <<ssTemplate, ssRow, ssTasks, ssUsed, ssAlone, ssHurt, ssMixed>>

\* launch_schedule records the launch in its own columns; on a deleted row that raises.
TouchAfterLaunch(q) ==
    /\ At(q, "touch")
    /\ ssRow' = IF ssRow.exists THEN [ssRow EXCEPT !.status = "launched"] ELSE ssRow
    /\ End(q)
    /\ UNCHANGED <<ssTemplate, ssTasks, ssUsed, ssAlone, ssHurt, ssMixed>>

\* The web process dies between two statements.
CrashRequest(q) ==
    /\ q \in Busy
    /\ End(q)
    /\ ssHurt' = TRUE
    /\ ssMixed' = (ssMixed \/ At(q, "delete_task"))
    /\ UNCHANGED <<ssTemplate, ssRow, ssTasks, ssUsed, ssAlone>>

RequestStep(q) ==
    \/ LoadForUpdate(q) \/ SaveSchedule(q) \/ SyncTask(q) \/ LinkTask(q)
    \/ LoadForDelete(q) \/ DeleteRow(q) \/ DeleteTask(q)
    \/ Fire(q) \/ TouchAfterLaunch(q) \/ CrashRequest(q)

SyncNext == CreateSchedule \/ DeleteTemplate \/ \E q \in ScheduleRequests : RequestStep(q)

SyncSpec == SyncInit /\ [][SyncNext]_scheduleVars

-----------------------------------------------------------------------------
(* Properties.                                                              *)

\* The rows and the requests keep their types.
SyncTypeOK ==
    /\ ssTemplate \in BOOLEAN
    /\ ssRow \in ScheduleRow
    /\ ssTasks \in [TaskIds -> TaskRow]
    /\ ssUsed \subseteq TaskIds
    /\ ssReq \in [ScheduleRequests -> Request]
    /\ ssAlone \subseteq ScheduleRequests
    /\ ssHurt \in BOOLEAN /\ ssMixed \in BOOLEAN

\* Beat fires when the schedule says so: with no request half way, the schedule's task
\* has its crontab and its enabled flag.  A crash between the two saves or an overlap
\* of updates breaks that (sync_periodic_task runs after schedule.save()), and the next
\* update that meets no other puts it right.
TaskFollowsSchedule ==
    Busy = {} /\ ssRow.exists /\ ~ssHurt /\ ~ssMixed =>
        /\ ssRow.task \in LiveTasks
        /\ LET task == ssTasks[ssRow.task]
           IN  <<task.cron, task.enabled, task.name>> = <<ssRow.cron, ssRow.enabled, ssRow.name>>

\* A schedule is launched by one task, a deleted one by none: only a deletion that
\* overlapped another request or died half way (delete_schedule deletes the schedule
\* first), or that of its template, leaves a second task or one without a schedule.
NoStrayTask ==
    ~ssMixed /\ Busy = {} => LiveTasks = IF ssRow.exists THEN {ssRow.task} ELSE {}

=============================================================================
