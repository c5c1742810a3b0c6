------------------------------- MODULE Digest -------------------------------
(***************************************************************************)
(* Workspace digests (apps.automation).  Every hour a task looks for        *)
(* workspaces whose digest hour it is, mails everybody who wants it the     *)
(* runs that finished since the last digest, and only then records the      *)
(* time in last_digest_sent_at, from which the next window starts.  Tasks   *)
(* may overlap and are delivered again after a crash; an administrator may  *)
(* be saving the preferences, a worker finishing a run.                     *)
(*                                                                         *)
(* One workspace.  The clock ticks once per digest slot, DigestSlots slots  *)
(* a day: what happens in one slot may happen in either order.              *)
(***************************************************************************)
EXTENDS Integers, FiniteSets

CONSTANTS
    DigestTasks,   \* executions of send_notification_digests that may overlap
    DigestRuns,    \* screen and backtest runs of the workspace
    Members,       \* users with a row of notification preferences
    WsOwner,       \* the member who owns the workspace
    DigestSlots,   \* slots a day
    LastTick,      \* bound: the clock stops here
    MaxEdits       \* bound: how often preferences are saved

ASSUME DigestAssumption == /\ WsOwner \in Members
                           /\ DigestSlots \in Nat \ {0} /\ LastTick \in Nat \ {0} /\ MaxEdits \in Nat

VARIABLES
    dgClock,      \* the current slot
    dgPref,       \* WorkspaceNotificationPreference, as committed
    dgWants,      \* the members with digest_enabled and email_enabled
    dgStamp,      \* the slot of a run's finished_at; 0: still running
    dgSaved,      \* the runs whose finished_at is committed
    dgTask,       \* the executions of the digest task
    dgEdit,       \* the request that saves the workspace's preferences
    dgEdits,      \* how often preferences were saved
    dgEvents,     \* NotificationEvent rows of digests: in whose totals a run is counted
    dgMailed,     \* history: digests mailed to an address on a day
    dgExcused,    \* history: runs no window could hold, or that nobody was to hear of
    dgDisturbed   \* history: two tasks overlapped, one crashed, or a stale mark was saved

digestVars == <<dgClock, dgPref, dgWants, dgStamp, dgSaved, dgTask, dgEdit,
                dgEdits, dgEvents, dgMailed, dgExcused, dgDisturbed>>

-----------------------------------------------------------------------------
Ticks == 1 .. LastTick
Days == 0 .. LastTick \div DigestSlots
MailCap == 2   \* bound: how far mails are counted
Hour(t) == t % DigestSlots
Day(t) == t \div DigestSlots

\* address: where digests go that no member asked for, by email_enabled and default_email;
\* mark: last_digest_sent_at, 0 for null.
WorkspacePreference == [enabled : BOOLEAN, address : {"off", "default", "owner"},
                        hour : 0 .. DigestSlots - 1, mark : 0 .. LastTick]

\* Who a digest is addressed to: a member by user id, or the default address.
Recipients == Members \union {"default"}

\* queued: beat has sent the message, or will (sync_system_tasks keeps an hourly task);
\* mark and address: the columns of the preferences the task goes on to use.
TaskRecord == [pc : {"queued", "check", "collect", "send", "done"}, now : 0 .. LastTick,
               mark : 0 .. LastTick, address : {"off", "default", "owner"},
               runs : SUBSET DigestRuns, todo : SUBSET Recipients]

NoTaskRecord == [pc |-> "queued", now |-> 0, mark |-> 0, address |-> "off", runs |-> {}, todo |-> {}]
Ended == [NoTaskRecord EXCEPT !.pc = "done"]

\* The task has read the preferences and not yet saved the mark.
Under(w) == dgTask[w].pc \in {"check", "collect", "send"}

SetTask(w, new) == dgTask' = [dgTask EXCEPT ![w] = new]

-----------------------------------------------------------------------------
(* Plausible slips, each the counterpart of one definition below.           *)

\* A run that finishes as the window closes is left to the next one.
SlipRunsBetween(since, now) == {r \in dgSaved : since < dgStamp[r] /\ dgStamp[r] < now}

\* The date of the last digest is not compared with today's.
SlipNoDateCheck(w) ==
    /\ dgTask[w].pc = "check"
    /\ SetTask(w, [dgTask[w] EXCEPT !.pc = "collect"])
    /\ UNCHANGED <<dgClock, dgPref, dgWants, dgStamp, dgSaved, dgEdit, dgEdits, dgEvents, dgMailed,
                   dgExcused, dgDisturbed>>

\* The next window starts one slot late.
SlipMarkSent(w) ==
    /\ dgTask[w].pc = "send" /\ dgTask[w].todo = {}
    /\ dgPref' = [dgPref EXCEPT !.mark = dgTask[w].now + 1]
    /\ SetTask(w, Ended)
    /\ UNCHANGED <<dgClock, dgWants, dgStamp, dgSaved, dgEdit, dgEdits, dgEvents, dgMailed, dgExcused,
                   dgDisturbed>>

-----------------------------------------------------------------------------
\* _build_digest_payload: the workspace's runs with since < finished_at <= now.
RunsBetween(since, now) == {r \in dgSaved : since < dgStamp[r] /\ dgStamp[r] <= now}

\* since = last_digest_sent_at or now - one day
Since(mark, now) == IF mark = 0 THEN now - DigestSlots ELSE mark

\* The rows as get_or_create makes them (default_email is the owner's), and nothing
\* finished yet.
DigestInit ==
    /\ dgClock = 1
    /\ dgPref \in [enabled : {FALSE}, address : {"default"}, hour : 0 .. DigestSlots - 1, mark : {0}]
    /\ dgWants = {}
    /\ dgStamp = [r \in DigestRuns |-> 0]
    /\ dgSaved = {}
    /\ dgTask = [w \in DigestTasks |-> NoTaskRecord]
    /\ dgEdit = [loaded |-> FALSE, mark |-> 0]
    /\ dgEdits = 0
    /\ dgEvents = {}
    /\ dgMailed = [u \in Recipients |-> [d \in Days |-> 0]]
    /\ dgExcused = {}
    /\ dgDisturbed = FALSE

DigestTick ==
    /\ dgClock < LastTick
    /\ dgClock' = dgClock + 1
    /\ UNCHANGED <<dgPref, dgWants, dgStamp, dgSaved, dgTask, dgEdit, dgEdits, dgEvents, dgMailed,
                   dgExcused, dgDisturbed>>

\* The marks from which some window starts, or which some task or request will save.
Marks == {dgPref.mark, dgEdit.mark} \union {dgTask[w].mark : w \in DigestTasks}
             \union {dgTask[w].now : w \in {v \in DigestTasks : dgTask[v].pc = "send"}}

\* A worker takes the time a run finished at, and commits the row later.
StampRun(r) ==
    /\ dgStamp[r] = 0
    /\ dgStamp' = [dgStamp EXCEPT ![r] = dgClock]
    /\ UNCHANGED <<dgClock, dgPref, dgWants, dgSaved, dgTask, dgEdit, dgEdits, dgEvents, dgMailed,
                   dgExcused, dgDisturbed>>

CommitRun(r) ==
    /\ dgStamp[r] # 0 /\ r \notin dgSaved
    /\ dgSaved' = dgSaved \union {r}
    /\ dgExcused' = IF \E m \in Marks : dgStamp[r] <= m THEN dgExcused \union {r} ELSE dgExcused
    /\ UNCHANGED <<dgClock, dgPref, dgWants, dgStamp, dgTask, dgEdit, dgEdits, dgEvents, dgMailed,
                   dgDisturbed>>

\* UserNotificationPreferenceView.patch: a member's own row, read and saved in one go.
SaveUserPreference(u) ==
    /\ dgEdits < MaxEdits /\ dgEdits' = dgEdits + 1
    /\ dgWants' = IF u \in dgWants THEN dgWants \ {u} ELSE dgWants \union {u}
    /\ UNCHANGED <<dgClock, dgPref, dgStamp, dgSaved, dgTask, dgEdit, dgEvents, dgMailed,
                   dgExcused, dgDisturbed>>

\* WorkspaceNotificationPreferenceView.patch loads the row ...
LoadPreference ==
    /\ ~dgEdit.loaded /\ dgEdits < MaxEdits
    /\ dgEdit' = [loaded |-> TRUE, mark |-> dgPref.mark]
    /\ UNCHANGED <<dgClock, dgPref, dgWants, dgStamp, dgSaved, dgTask, dgEdits, dgEvents, dgMailed,
                   dgExcused, dgDisturbed>>

\* ... and saves every column of it, last_digest_sent_at too.
SavePreference ==
    /\ dgEdit.loaded /\ dgEdits < MaxEdits /\ dgEdits' = dgEdits + 1
    /\ dgPref' \in {p \in WorkspacePreference : p.mark = dgEdit.mark}
    /\ dgDisturbed' = (dgDisturbed \/ dgEdit.mark # dgPref.mark)
    /\ dgEdit' = [loaded |-> FALSE, mark |-> 0]
    /\ UNCHANGED <<dgClock, dgWants, dgStamp, dgSaved, dgTask, dgEvents, dgMailed, dgExcused>>

-----------------------------------------------------------------------------
(* The digest task.                                                         *)

\* dispatch_pending_digests: the preferences with digests on and this hour, read at once.
StartTask(w) ==
    /\ dgTask[w].pc = "queued"
    /\ IF dgPref.enabled /\ dgPref.hour = Hour(dgClock)
       THEN SetTask(w, [NoTaskRecord EXCEPT !.pc = "check", !.now = dgClock,
                                               !.mark = dgPref.mark, !.address = dgPref.address])
       ELSE SetTask(w, Ended)
    /\ dgDisturbed' = (dgDisturbed \/ \E v \in DigestTasks : Under(v))
    /\ UNCHANGED <<dgClock, dgPref, dgWants, dgStamp, dgSaved, dgEdit, dgEdits, dgEvents, dgMailed,
                   dgExcused>>

\* dispatch_workspace_digest: one digest a day.
CheckDate(w) ==
    LET t == dgTask[w]
        today == t.mark # 0 /\ Day(t.mark) = Day(t.now)
    IN  /\ t.pc = "check"
        /\ SetTask(w, IF today THEN Ended ELSE [t EXCEPT !.pc = "collect"])
        /\ UNCHANGED <<dgClock, dgPref, dgWants, dgStamp, dgSaved, dgEdit, dgEdits, dgEvents, dgMailed,
                       dgExcused, dgDisturbed>>

\* _digest_recipients: everybody who wants it, else the default address, else the owner.
DigestRecipients(address) ==
    IF dgWants # {} THEN dgWants
    ELSE CASE address = "off" -> {} [] address = "default" -> {"default"}
           [] address = "owner" -> {WsOwner}

\* The runs and the recipients are read; with none of either there is nothing to mail.
Collect(w) ==
    LET t == dgTask[w]
        runs == RunsBetween(Since(t.mark, t.now), t.now)
        everybody == DigestRecipients(t.address)
        old == {r \in dgSaved : t.mark = 0 /\ dgStamp[r] <= t.now - DigestSlots}
        nobody == IF everybody = {} THEN runs ELSE {}
    IN  /\ t.pc = "collect"
        /\ SetTask(w, [t EXCEPT !.pc = "send", !.runs = runs, !.address = "off", !.mark = 0,
                                !.todo = IF runs = {} THEN {} ELSE everybody])
        /\ dgExcused' = dgExcused \union old \union nobody
        /\ UNCHANGED <<dgClock, dgPref, dgWants, dgStamp, dgSaved, dgEdit, dgEdits, dgEvents, dgMailed,
                       dgDisturbed>>

\* _channel_is_enabled for a digest, from the rows as they are now.
DigestEnabledFor(u) ==
    /\ dgPref.enabled /\ dgPref.address # "off"
    /\ u \in Members => u \in dgWants

\* _create_and_send_event: the event row, then the mail, which may fail; a disabled
\* channel leaves a skipped event.  Every run is in the digest's totals; only the ten
\* that finished last have a line of their own (run_items[:10]).
SendDigest(w, u) ==
    /\ dgTask[w].pc = "send" /\ u \in dgTask[w].todo
    /\ dgEvents' = dgEvents \union {<<u, r>> : r \in dgTask[w].runs}
    /\ \/ /\ DigestEnabledFor(u)
          /\ dgMailed' = [dgMailed EXCEPT ![u][Day(dgTask[w].now)] = IF @ < MailCap THEN @ + 1 ELSE @]
       \/ UNCHANGED dgMailed
    /\ SetTask(w, [dgTask[w] EXCEPT !.todo = @ \ {u}])
    /\ UNCHANGED <<dgClock, dgPref, dgWants, dgStamp, dgSaved, dgEdit, dgEdits, dgExcused, dgDisturbed>>

\* last_digest_sent_at = now, in that column alone.
MarkSent(w) ==
    /\ dgTask[w].pc = "send" /\ dgTask[w].todo = {}
    /\ dgPref' = [dgPref EXCEPT !.mark = dgTask[w].now]
    /\ SetTask(w, Ended)
    /\ UNCHANGED <<dgClock, dgWants, dgStamp, dgSaved, dgEdit, dgEdits, dgEvents, dgMailed, dgExcused,
                   dgDisturbed>>

\* The worker dies: the message was not acknowledged and is delivered again.
CrashTask(w) ==
    /\ Under(w)
    /\ SetTask(w, NoTaskRecord)
    /\ dgDisturbed' = TRUE
    /\ UNCHANGED <<dgClock, dgPref, dgWants, dgStamp, dgSaved, dgEdit, dgEdits, dgEvents, dgMailed,
                   dgExcused>>

TaskStep(w) ==
    \/ StartTask(w) \/ CheckDate(w) \/ Collect(w)
    \/ \E u \in Recipients : SendDigest(w, u)
    \/ MarkSent(w) \/ CrashTask(w)

DigestNext ==
    \/ DigestTick
    \/ \E r \in DigestRuns : StampRun(r) \/ CommitRun(r)
    \/ \E u \in Members : SaveUserPreference(u)
    \/ LoadPreference \/ SavePreference
    \/ \E w \in DigestTasks : TaskStep(w)

DigestSpec == DigestInit /\ [][DigestNext]_digestVars

-----------------------------------------------------------------------------
(* Properties.                                                              *)

\* The variables keep their types: above all the mark, which orders the windows.
DigestTypeOK ==
    /\ dgClock \in Ticks
    /\ dgPref \in WorkspacePreference
    /\ dgWants \subseteq Members
    /\ dgStamp \in [DigestRuns -> 0 .. LastTick]
    /\ dgSaved \subseteq DigestRuns
    /\ dgTask \in [DigestTasks -> TaskRecord]
    /\ dgEdit \in [loaded : BOOLEAN, mark : 0 .. LastTick]
    /\ dgEdits \in 0 .. MaxEdits
    /\ dgEvents \subseteq Recipients \X DigestRuns
    /\ dgMailed \in [Recipients -> [Days -> 0 .. MailCap]]
    /\ dgExcused \subseteq DigestRuns
    /\ dgDisturbed \in BOOLEAN

\* No run falls between two windows: whatever crashed, overlapped or was saved from a
\* stale copy (dispatch_workspace_digest, the preferences' patch), a run that finished
\* by last_digest_sent_at is counted in the totals of an event for somebody.  Excused are the runs committed
\* only after their window was read, older than a first window, or with no recipient.
DigestLosesNoRun ==
    \A r \in dgSaved \ dgExcused :
        dgStamp[r] <= dgPref.mark => \E u \in Recipients : <<u, r>> \in dgEvents

\* Undisturbed - no overlap, no crash, no preferences saved over a newer mark - nobody
\* is mailed two digests of one day, even when the digest hour is moved during the day
\* (the date check of dispatch_workspace_digest).
OneDigestADay == dgDisturbed \/ \A u \in Recipients, d \in Days : dgMailed[u][d] <= 1

=============================================================================
