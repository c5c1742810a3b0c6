-------------------------- MODULE JobStatus_proofs --------------------------
(***************************************************************************)
(* The job lifecycle implements JobStatus, for every number of jobs,        *)
(* workers, retries, steps and faults: what a reader sees of a job, step    *)
(* by step, and how often its work is started.                              *)
(***************************************************************************)
EXTENDS JobOutcomes_proofs

USE NoJobAssumption, BoundsAssumption

-----------------------------------------------------------------------------
(* The lifecycle implements JobStatus.                                      *)

\* What JobStatus sees of a job.
SeenStatus(j) == IF Undisturbed(j) THEN row[j].state ELSE "void"
SeenAsked(j) == Undisturbed(j) /\ row[j].cancelRequested
SeenTries(j) == IF Undisturbed(j) THEN runs[j] ELSE 0
SeenAllowed(j) == IF Undisturbed(j) THEN MaxRetries + 1 + redelivered[j] ELSE 0
SeenSame(j) == UNCHANGED <<SeenStatus(j), SeenAsked(j), SeenTries(j), SeenAllowed(j)>>

\* The actions of JobStatus, of one job.
SeenCreate(j) == /\ SeenStatus(j) = "absent" /\ SeenStatus(j)' = "queued"
                 /\ UNCHANGED <<SeenAsked(j), SeenTries(j), SeenAllowed(j)>>
SeenRefuse(j) == /\ SeenStatus(j) = "queued" /\ SeenTries(j) = 0 /\ SeenStatus(j)' = "failed"
                 /\ UNCHANGED <<SeenAsked(j), SeenTries(j), SeenAllowed(j)>>
SeenStart(j) == /\ \/ SeenStatus(j) = "queued"
                   \/ SeenStatus(j) = "running" /\ SeenAllowed(j) > MaxRetries + 1
                /\ SeenTries(j) < SeenAllowed(j)
                /\ SeenStatus(j)' = "running" /\ SeenTries(j)' = SeenTries(j) + 1
                /\ UNCHANGED <<SeenAsked(j), SeenAllowed(j)>>
SeenRequeue(j) == /\ SeenStatus(j) = "running" /\ SeenTries(j) < SeenAllowed(j)
                  /\ SeenStatus(j)' = "queued"
                  /\ UNCHANGED <<SeenAsked(j), SeenTries(j), SeenAllowed(j)>>
SeenFinish(j) == /\ SeenStatus(j) = "running"
                 /\ \/ SeenStatus(j)' \in {"succeeded", "failed"}
                    \/ SeenAsked(j) /\ SeenStatus(j)' = "cancelled"
                 /\ UNCHANGED <<SeenAsked(j), SeenTries(j), SeenAllowed(j)>>
SeenLose(j) == /\ SeenStatus(j) \in {"queued", "running"}
               /\ SeenAllowed(j)' = SeenAllowed(j) + 1
               /\ UNCHANGED <<SeenStatus(j), SeenAsked(j), SeenTries(j)>>
SeenAsk(j) == /\ SeenStatus(j) \notin {"absent", "void"} /\ SeenAsked(j)' = TRUE
              /\ UNCHANGED <<SeenStatus(j), SeenTries(j), SeenAllowed(j)>>

\* A step that one job's reader sees is a step of JobStatus.
LEMMA SeenIsStep ==
    ASSUME NEW j \in Jobs, \A k \in Jobs : k # j => SeenSame(k),
           \/ SeenSame(j) \/ ~Undisturbed(j)'
           \/ SeenCreate(j) \/ SeenRefuse(j) \/ SeenStart(j) \/ SeenRequeue(j) \/ SeenFinish(j)
           \/ SeenLose(j) \/ SeenAsk(j)
    PROVE  [Status!Next]_(Status!vars)
<1> DEFINE st == [k \in Jobs |-> SeenStatus(k)]
           as == [k \in Jobs |-> SeenAsked(k)]
           tr == [k \in Jobs |-> SeenTries(k)]
           al == [k \in Jobs |-> SeenAllowed(k)]
<1>1. /\ st' = [st EXCEPT ![j] = SeenStatus(j)'] /\ as' = [as EXCEPT ![j] = SeenAsked(j)']
      /\ tr' = [tr EXCEPT ![j] = SeenTries(j)'] /\ al' = [al EXCEPT ![j] = SeenAllowed(j)']
      /\ st[j] = SeenStatus(j) /\ as[j] = SeenAsked(j) /\ tr[j] = SeenTries(j) /\ al[j] = SeenAllowed(j)
  BY DEF SeenSame
<1>2. /\ SeenStatus(j)' = SeenStatus(j) => st' = st
      /\ SeenAsked(j)' = SeenAsked(j) => as' = as
      /\ SeenTries(j)' = SeenTries(j) => tr' = tr
      /\ SeenAllowed(j)' = SeenAllowed(j) => al' = al
  BY <1>1
<1>3. /\ st = [k \in Jobs |-> IF Undisturbed(k) THEN row[k].state ELSE "void"]
      /\ as = [k \in Jobs |-> Undisturbed(k) /\ row[k].cancelRequested]
      /\ tr = [k \in Jobs |-> IF Undisturbed(k) THEN runs[k] ELSE 0]
      /\ al = [k \in Jobs |-> IF Undisturbed(k) THEN MaxRetries + 1 + redelivered[k] ELSE 0]
      /\ st' = [k \in Jobs |-> IF Undisturbed(k) THEN row[k].state ELSE "void"]'
      /\ as' = [k \in Jobs |-> Undisturbed(k) /\ row[k].cancelRequested]'
      /\ tr' = [k \in Jobs |-> IF Undisturbed(k) THEN runs[k] ELSE 0]'
      /\ al' = [k \in Jobs |-> IF Undisturbed(k) THEN MaxRetries + 1 + redelivered[k] ELSE 0]'
  BY DEF SeenStatus, SeenAsked, SeenTries, SeenAllowed
<1> HIDE DEF st, as, tr, al
<1>4. CASE SeenSame(j)
  <2>1. UNCHANGED <<st, as, tr, al>>
    BY <1>2, <1>4 DEF SeenSame
  <2>2. QED
    BY <1>3, <2>1 DEF Status!vars
<1>5. CASE ~Undisturbed(j)'
  <2>1. SeenStatus(j)' = "void" /\ SeenAsked(j)' = FALSE /\ SeenTries(j)' = 0 /\ SeenAllowed(j)' = 0
    BY <1>5 DEF SeenStatus, SeenAsked, SeenTries, SeenAllowed
  <2>2. Status!Void(j)
    BY <1>1, <1>3, <2>1 DEF Status!Void
  <2>3. QED
    BY <2>2 DEF Status!Next
<1>6. CASE SeenCreate(j)
  <2>1. Status!Create(j)
    BY <1>1, <1>2, <1>3, <1>6 DEF SeenCreate, Status!Create
  <2>2. QED
    BY <2>1 DEF Status!Next
<1>7. CASE SeenRefuse(j)
  <2>1. Status!Refuse(j)
    BY <1>1, <1>2, <1>3, <1>7 DEF SeenRefuse, Status!Refuse
  <2>2. QED
    BY <2>1 DEF Status!Next
<1>8. CASE SeenStart(j)
  <2>1. Status!Start(j)
    BY <1>1, <1>2, <1>3, <1>8 DEF SeenStart, Status!Start
  <2>2. QED
    BY <2>1 DEF Status!Next
<1>9. CASE SeenRequeue(j)
  <2>1. Status!Requeue(j)
    BY <1>1, <1>2, <1>3, <1>9 DEF SeenRequeue, Status!Requeue
  <2>2. QED
    BY <2>1 DEF Status!Next
<1>10. CASE SeenFinish(j)
  <2>1. Status!Finish(j)
    BY <1>1, <1>2, <1>3, <1>10 DEF SeenFinish, Status!Finish
  <2>2. QED
    BY <2>1 DEF Status!Next
<1>11. CASE SeenLose(j)
  <2>1. Status!LoseWorker(j)
    BY <1>1, <1>2, <1>3, <1>11 DEF SeenLose, Status!LoseWorker
  <2>2. QED
    BY <2>1 DEF Status!Next
<1>12. CASE SeenAsk(j)
  <2>1. Status!Ask(j)
    BY <1>1, <1>2, <1>3, <1>12 DEF SeenAsk, Status!Ask
  <2>2. QED
    BY <2>1 DEF Status!Next
<1>13. QED
  BY <1>4, <1>5, <1>6, <1>7, <1>8, <1>9, <1>10, <1>11, <1>12

-----------------------------------------------------------------------------
(* How often the work is started.  The owner of an undisturbed job carries   *)
(* its retries along: the job was started once for each of them and once    *)
(* for each lost worker.                                                    *)

\* A message finds its job waiting, or left running by a lost worker.
Ready(j) == row[j].state = "queued" \/ (row[j].state = "running" /\ redelivered[j] > 0)

LaunchOK(j) ==
    /\ launch[j] = "none" <=> row[j].state = "absent"
    /\ launch[j] = "none" => ~row[j].cancelRequested
    /\ launch[j] \in {"none", "created", "failing"} => runs[j] = 0
    /\ launch[j] \in {"created", "failing"} => row[j].state = "queued"
    /\ cancel[j] = "checked" => row[j].state # "absent"

MessageOK(j) == \A r \in Tries : queue[j][r] > 0 => runs[j] <= r + redelivered[j] /\ Ready(j)

StartedOK(j, a) ==
    /\ a.pc = "start" => runs[j] <= a.retries + redelivered[j] /\ Ready(j)
    /\ a.pc # "start" => /\ runs[j] <= a.retries + 1 + redelivered[j]
                         /\ row[j].state = IF a.pc = "publish" THEN "queued" ELSE "running"
    /\ a.pc = "cancelling" => row[j].cancelRequested

StartOK(j) ==
    extra[j] = 0 => /\ LaunchOK(j) /\ MessageOK(j)
                    /\ \A w \in Workers : Active(w, j) => StartedOK(j, attempt[w])

StartInv == IndInv /\ \A j \in Jobs : StartOK(j)

LEMMA StartFacts ==
    ASSUME Typed, NEW j \in Jobs
    PROVE  /\ row \in [Jobs -> Row] /\ row[j] \in Row /\ queue \in [Jobs -> [Tries -> Nat]]
           /\ extra \in [Jobs -> Nat] /\ redelivered \in [Jobs -> Nat] /\ runs \in [Jobs -> Nat]
           /\ launch \in [Jobs -> Launch] /\ cancel \in [Jobs -> {"idle", "checked"}]
           /\ attempt \in [Workers -> Attempt]
BY DEF Typed, TypeOK

\* A step that gives job j nothing new.
LEMMA StartFrame ==
    ASSUME Typed, NEW j \in Jobs, StartOK(j),
           extra'[j] = 0 => extra[j] = 0,
           \/ launch'[j] = launch[j]
           \/ launch[j] # "none" /\ launch'[j] \notin {"none", "created"}
              /\ (launch'[j] = "failing" => launch[j] = "created"),
           cancel'[j] \in {cancel[j], "idle"},
           row'[j].state = row[j].state, row[j].cancelRequested => row'[j].cancelRequested,
           row'[j].cancelRequested => row[j].cancelRequested \/ launch[j] # "none",
           runs'[j] = runs[j], redelivered'[j] = redelivered[j],
           \A r \in Tries : queue'[j][r] > 0 => queue[j][r] > 0,
           \A w \in Workers : Active(w, j)' => Active(w, j) /\ attempt'[w] = attempt[w]
    PROVE  StartOK(j)'
<1> SUFFICES ASSUME extra'[j] = 0
             PROVE  /\ LaunchOK(j)' /\ MessageOK(j)'
                    /\ \A w \in Workers : Active(w, j)' => StartedOK(j, attempt[w])'
  BY DEF StartOK
<1>1. /\ LaunchOK(j) /\ MessageOK(j)
      /\ \A w \in Workers : Active(w, j) => StartedOK(j, attempt[w])
  BY DEF StartOK
<1>2. LaunchOK(j)'
  BY <1>1 DEF LaunchOK
<1>3. MessageOK(j)'
  BY <1>1 DEF MessageOK, Ready
<1>4. ASSUME NEW w \in Workers, Active(w, j)'
      PROVE  StartedOK(j, attempt[w])'
  BY <1>1, <1>4 DEF StartedOK, Ready
<1>5. QED
  BY <1>2, <1>3, <1>4

\* A step of the worker that owns job j.
LEMMA StartUpdate ==
    ASSUME Typed, NEW j \in Jobs, StartOK(j), Solo(j), extra[j] = 0,
           NEW w \in Workers, Active(w, j),
           launch'[j] = launch[j], cancel'[j] = cancel[j], row'[j].state # "absent",
           \A v \in Workers : v # w => attempt'[v] = attempt[v],
           MessageOK(j)', Active(w, j)' => StartedOK(j, attempt[w])'
    PROVE  StartOK(j)'
<1>1. /\ launch[j] \notin {"none", "created", "failing"}
      /\ \A v \in Workers : Active(v, j) => v = w
  BY DEF Solo
<1>2. LaunchOK(j)'
  BY <1>1 DEF LaunchOK
<1>3. \A v \in Workers : Active(v, j)' => v = w
  BY <1>1 DEF Active
<1>4. QED
  BY <1>2, <1>3 DEF StartOK

LEMMA StartRequests ==
    ASSUME Typed, NEW i \in Jobs, NEW j \in Jobs, StartOK(j), Solo(j),
           CreateJob(i) \/ LaunchStep(i) \/ ReadForCancel(i) \/ SaveCancelRequest(i)
    PROVE  StartOK(j)'
<1>0. /\ row \in [Jobs -> Row] /\ row[j] \in Row /\ queue \in [Jobs -> [Tries -> Nat]]
      /\ launch \in [Jobs -> Launch] /\ cancel \in [Jobs -> {"idle", "checked"}]
      /\ redelivered[j] \in Nat /\ runs[j] \in Nat
  BY StartFacts
<1>1. UNCHANGED <<attempt, extra, redelivered, runs>>
  BY DEF CreateJob, LaunchStep, Dispatch, DispatchRefused, MarkDispatchFailed, AnswerLaunch,
     ReadForCancel, SaveCancelRequest, history
<1>2. \A w \in Workers : (Active(w, j)' <=> Active(w, j)) /\ attempt'[w] = attempt[w]
  BY <1>1 DEF Active
<1>3. CASE i # j
  <2>1. launch'[j] = launch[j] /\ cancel'[j] = cancel[j] /\ row'[j] = row[j] /\ queue'[j] = queue[j]
    BY <1>0, <1>3 DEF CreateJob, LaunchStep, Dispatch, DispatchRefused, MarkDispatchFailed,
       AnswerLaunch, ReadForCancel, SaveCancelRequest, SaveJob
  <2>2. QED
    BY <1>1, <1>2, <2>1, StartFrame
<1>4. CASE i = j
  <2>0. SUFFICES ASSUME extra[j] = 0
                 PROVE  StartOK(j)'
    BY <1>1 DEF StartOK
  <2>a. /\ LaunchOK(j) /\ MessageOK(j)
        /\ \A w \in Workers : Active(w, j) => StartedOK(j, attempt[w])
    BY <2>0 DEF StartOK
  <2>b. launch[j] \in {"none", "created", "failing"} =>
            (\A r \in Tries : queue[j][r] = 0) /\ (\A w \in Workers : ~Active(w, j))
    BY <2>0 DEF Solo
  <2>1. CASE CreateJob(j)
    <3>1. /\ launch[j] = "none" /\ launch'[j] = "created" /\ row'[j].state = "queued" /\ queue' = queue
      BY <1>0, <2>1, RowFacts DEF CreateJob, AbsentRow
    <3>2. LaunchOK(j)'
      BY <1>1, <2>a, <3>1 DEF LaunchOK
    <3>3. MessageOK(j)'
      BY <2>b, <3>1 DEF MessageOK
    <3>4. QED
      BY <1>2, <2>b, <3>1, <3>2, <3>3 DEF StartOK
  <2>2. CASE Dispatch(j)
    <3>1. /\ launch[j] = "created" /\ launch'[j] = "sent" /\ row' = row /\ cancel' = cancel
          /\ queue' = [queue EXCEPT ![j][0] = @ + 1]
      BY <1>0, <2>2 DEF Dispatch
    <3>2. LaunchOK(j)'
      BY <1>1, <2>a, <3>1 DEF LaunchOK
    <3>3. \A r \in Tries : queue'[j][r] > 0 => r = 0
      BY <1>0, <2>b, <3>1
    <3>4. runs'[j] = 0 /\ Ready(j)'
      BY <1>1, <2>a, <3>1 DEF LaunchOK, Ready
    <3>5. MessageOK(j)'
      BY <1>0, <1>1, <3>3, <3>4 DEF MessageOK
    <3>6. QED
      BY <1>2, <2>b, <3>1, <3>2, <3>5 DEF StartOK
  <2>3. CASE DispatchRefused(j) \/ AnswerLaunch(j)
    <3>1. /\ UNCHANGED <<row, cancel, queue>>
          /\ \/ launch[j] = "created" /\ launch'[j] = "failing"
             \/ launch[j] = "sent" /\ launch'[j] \in {"accepted", "unavailable"}
      BY <1>0, <2>3 DEF DispatchRefused, AnswerLaunch
    <3>2. QED
      BY <1>1, <1>2, <3>1, StartFrame
  <2>4. CASE MarkDispatchFailed(j)
    <3>1. /\ launch[j] = "failing" /\ launch'[j] = "unavailable" /\ UNCHANGED <<queue, cancel>>
          /\ row'[j].state = "failed"
      BY <1>0, <2>4 DEF MarkDispatchFailed, SaveJob, Row
    <3>2. LaunchOK(j)'
      BY <3>1 DEF LaunchOK
    <3>3. MessageOK(j)'
      BY <2>b, <3>1 DEF MessageOK
    <3>4. QED
      BY <1>2, <2>b, <3>1, <3>2, <3>3 DEF StartOK
  <2>5. CASE ReadForCancel(j)
    <3>1. /\ UNCHANGED <<row, launch, queue>> /\ row[j].state # "absent"
      BY <2>5 DEF ReadForCancel
    <3>2. LaunchOK(j)' /\ MessageOK(j)'
      BY <1>1, <2>a, <3>1 DEF LaunchOK, MessageOK, Ready
    <3>3. \A w \in Workers : Active(w, j)' => StartedOK(j, attempt[w])'
      BY <1>1, <1>2, <2>a, <3>1 DEF StartedOK, Ready
    <3>4. QED
      BY <3>2, <3>3 DEF StartOK
  <2>6. CASE SaveCancelRequest(j)
    <3>1. /\ UNCHANGED <<launch, queue>> /\ cancel'[j] = "idle"
          /\ row'[j].state = row[j].state /\ row'[j].cancelRequested = TRUE
      BY <1>0, <2>6 DEF SaveCancelRequest, SaveJob, Row
    <3>2. launch[j] # "none"
      BY <2>6, <2>a DEF SaveCancelRequest, LaunchOK
    <3>3. QED
      BY <1>1, <1>2, <3>1, <3>2, StartFrame
  <2>7. QED
    BY <1>4, <2>1, <2>2, <2>3, <2>4, <2>5, <2>6 DEF LaunchStep
<1>5. QED
  BY <1>3, <1>4

LEMMA StartReceive ==
    ASSUME Typed, NEW w \in Workers, NEW i \in Jobs, NEW r \in Tries, Receive(w, i, r),
           NEW j \in Jobs, StartOK(j), Solo(j)
    PROVE  StartOK(j)'
<1>0. /\ queue \in [Jobs -> [Tries -> Nat]] /\ attempt \in [Workers -> Attempt]
  BY StartFacts
<1>1. /\ UNCHANGED <<row, launch, cancel, extra, redelivered, runs>>
      /\ queue[i][r] > 0 /\ attempt[w].pc = "idle"
      /\ queue' = [queue EXCEPT ![i][r] = @ - 1]
      /\ attempt' = [attempt EXCEPT ![w] = [Idle EXCEPT !.pc = "start", !.job = i, !.retries = r,
                                                        !.held = TRUE]]
  BY DEF Receive, history
<1>2. /\ attempt'[w].pc = "start" /\ attempt'[w].job = i /\ attempt'[w].retries = r
      /\ \A v \in Workers : v # w => attempt'[v] = attempt[v]
  BY <1>0, <1>1 DEF Idle
<1>3. \A s \in Tries : queue'[j][s] > 0 => queue[j][s] > 0
  BY <1>0, <1>1
<1>4. CASE i # j
  <2>1. \A v \in Workers : Active(v, j)' => Active(v, j) /\ attempt'[v] = attempt[v]
    BY <1>2, <1>4 DEF Active
  <2>2. QED
    BY <1>1, <1>3, <2>1, StartFrame
<1>5. CASE i = j
  <2>0. SUFFICES ASSUME extra[j] = 0
                 PROVE  StartOK(j)'
    BY <1>1 DEF StartOK
  <2>1. LaunchOK(j)' /\ MessageOK(j)'
    BY <1>1, <1>3, <2>0 DEF StartOK, LaunchOK, MessageOK, Ready
  <2>2. \A v \in Workers : Active(v, j)' => v = w
    BY <1>1, <1>2, <1>5, <2>0 DEF Solo, Active
  <2>3. StartedOK(j, attempt[w])'
    BY <1>1, <1>2, <1>5, <2>0 DEF StartOK, MessageOK, StartedOK, Ready
  <2>4. QED
    BY <2>1, <2>2, <2>3 DEF StartOK
<1>6. QED
  BY <1>4, <1>5

\* What the owner of an undisturbed job knows.
LEMMA OwnerFacts ==
    ASSUME Typed, NEW j \in Jobs, Solo(j), StartOK(j), extra[j] = 0, NEW w \in Workers, Active(w, j)
    PROVE  /\ \A r \in Tries : queue[j][r] = 0
           /\ ~IsTerminal(row[j]) /\ launch[j] \notin {"none", "created", "failing"}
           /\ StartedOK(j, attempt[w]) /\ LaunchOK(j)
           /\ runs[j] \in Nat /\ redelivered[j] \in Nat /\ attempt[w].retries \in Tries
<1>1. /\ runs[j] \in Nat /\ redelivered[j] \in Nat /\ attempt[w].retries \in Tries
      /\ \A r \in Tries : queue[j][r] \in Nat
  BY StartFacts, TypedFacts
<1>2. \A r \in Tries : ~(queue[j][r] > 0)
  BY DEF Solo
<1>3. QED
  BY <1>1, <1>2 DEF Solo, StartOK

\* The last write of an attempt.
LEMMA OutcomeIsTerminal ==
    ASSUME Typed, NEW w \in Workers, NEW j \in Jobs, j = attempt[w].job
    PROVE  /\ MarkCancelled(w) => row'[j].state = "cancelled"
           /\ MarkFailed(w) => row'[j].state = "failed"
           /\ MarkSucceeded(w) => row'[j].state = "succeeded"
           /\ MarkCancelled(w) \/ MarkFailed(w) \/ MarkSucceeded(w) =>
                  IsTerminal(row'[j]) /\ row'[j].cancelRequested = row[j].cancelRequested
<1>0. row \in [Jobs -> Row] /\ row[j] \in Row
  BY StartFacts
<1>1. MarkCancelled(w) => row'[j].state = "cancelled" /\ row'[j].cancelRequested = row[j].cancelRequested
  BY <1>0 DEF MarkCancelled, SaveJob, Row
<1>2. MarkFailed(w) => row'[j].state = "failed" /\ row'[j].cancelRequested = row[j].cancelRequested
  BY <1>0 DEF MarkFailed, SaveJob, Row
<1>3. ASSUME MarkSucceeded(w)
      PROVE  row'[j].state = "succeeded" /\ row'[j].cancelRequested = row[j].cancelRequested
  <2>1. row'[j] = [row[j] EXCEPT !.state = "succeeded", !.progress = Full, !.error = "none",
                                 !.finished = TRUE]
    BY <1>0, <1>3 DEF MarkSucceeded, SaveJob
  <2>2. QED
    BY <1>0, <2>1 DEF Row
<1>4. QED
  BY <1>1, <1>2, <1>3 DEF IsTerminal, TerminalStates

LEMMA StartWorker ==
    ASSUME Typed, NEW w \in Workers, WorkerStep(w), NEW j \in Jobs, StartOK(j), Solo(j)
    PROVE  StartOK(j)'
<1>0. /\ row \in [Jobs -> Row] /\ row[j] \in Row /\ attempt[w] \in Attempt
      /\ attempt \in [Workers -> Attempt] /\ runs \in [Jobs -> Nat]
      /\ queue \in [Jobs -> [Tries -> Nat]]
      /\ attempt[w].job \in Jobs /\ attempt[w].pc # "idle"
  BY BusyFacts, StartFacts, TypedFacts DEF WorkerAction
<1>1. /\ UNCHANGED <<launch, cancel, extra, redelivered>>
      /\ runs' = runs \/ (MarkRunning(w) /\ runs' = [runs EXCEPT ![attempt[w].job] = @ + 1])
      /\ \A v \in Workers : v # w => attempt'[v] = attempt[v]
      /\ \A k \in Jobs : k # attempt[w].job => row'[k] = row[k] /\ queue'[k] = queue[k]
  <2>1. /\ UNCHANGED <<launch, cancel, extra, redelivered>>
        /\ runs' = runs \/ (MarkRunning(w) /\ runs' = [runs EXCEPT ![attempt[w].job] = @ + 1])
    BY DEF WorkerStep, MarkRunning, CheckForCancellation, SaveProgress, Raise, MarkCancelled,
       MarkRetry, PublishRetry, MarkFailed, MarkSucceeded, Acknowledge, history
  <2>2. QED
    BY <1>0, <2>1, WorkerEffect
<1>2. CASE ~Active(w, j)
  <2>1. ~Active(w, j)' /\ row'[j] = row[j] /\ queue'[j] = queue[j] /\ runs'[j] = runs[j]
    <3>1. CASE attempt[w].job = j
      <4>1. attempt[w].pc = "ack"
        BY <1>0, <1>2, <3>1 DEF Active
      <4>2. attempt'[w].pc = "idle" /\ UNCHANGED <<row, queue>>
        BY <1>0, <3>1, <4>1, WorkerEffect
      <4>3. ~MarkRunning(w)
        BY <4>1 DEF MarkRunning
      <4>4. QED
        BY <1>1, <4>2, <4>3 DEF Active
    <3>2. CASE attempt[w].job # j
      <4>1. attempt'[w].job # j \/ attempt'[w].pc \in {"idle", "ack"}
        BY <1>0, <3>2, WorkerEffect
      <4>2. QED
        BY <1>0, <1>1, <3>2, <4>1 DEF Active
    <3>3. QED
      BY <3>1, <3>2
  <2>2. \A v \in Workers : Active(v, j)' => Active(v, j) /\ attempt'[v] = attempt[v]
    BY <1>1, <1>2, <2>1 DEF Active
  <2>3. QED
    BY <1>1, <2>1, <2>2, StartFrame
<1>3. CASE Active(w, j) /\ extra[j] # 0
  BY <1>1, <1>3 DEF StartOK
<1>4. CASE Active(w, j) /\ extra[j] = 0
  <2>0. /\ attempt[w].job = j /\ attempt[w].pc # "ack" /\ \A r \in Tries : queue[j][r] = 0
        /\ StartedOK(j, attempt[w]) /\ LaunchOK(j) /\ ~IsTerminal(row[j])
        /\ runs[j] \in Nat /\ redelivered[j] \in Nat
        /\ attempt[w].retries \in Tries /\ attempt[w].retries \in Nat
        /\ launch'[j] = launch[j] /\ cancel'[j] = cancel[j]
    BY <1>1, <1>4, OwnerFacts, TriesFacts DEF Active
  \* A step that leaves the job no message ...
  <2>1. ASSUME queue' = queue, row'[j].state # "absent", Active(w, j)' => StartedOK(j, attempt[w])'
        PROVE  StartOK(j)'
    <3>1. MessageOK(j)'
      BY <2>0, <2>1 DEF MessageOK
    <3>2. QED
      BY <1>1, <1>4, <2>0, <2>1, <3>1, StartUpdate
  \* ... and one after which the worker is at work still and the row in its state.
  <2>2. ASSUME queue' = queue, runs' = runs, row'[j].state = row[j].state,
               row'[j].cancelRequested = row[j].cancelRequested,
               attempt[w].pc \notin {"start", "publish"}, attempt'[w].pc \notin {"start", "publish"},
               attempt'[w].retries = attempt[w].retries,
               attempt'[w].pc = "cancelling" => row[j].cancelRequested
        PROVE  StartOK(j)'
    <3>1. runs[j] <= attempt[w].retries + 1 + redelivered[j] /\ row[j].state = "running"
      BY <2>0, <2>2 DEF StartedOK
    <3>2. StartedOK(j, attempt[w])'
      BY <1>1, <2>2, <3>1 DEF StartedOK
    <3>3. QED
      BY <2>1, <2>2, <3>1, <3>2
  <2>3. CASE MarkRunning(w)
    <3>1. /\ row'[j].state = "running"
      BY <1>0, <2>0, <2>3 DEF MarkRunning, SaveJob, Row
    <3>2. /\ attempt'[w].pc = "check" /\ attempt'[w].retries = attempt[w].retries
      BY <1>0, <2>3 DEF MarkRunning, SaveAttempt, Attempt
    <3>3. attempt[w].pc = "start" /\ queue' = queue /\ runs'[j] = runs[j] + 1
      BY <1>0, <2>0, <2>3 DEF MarkRunning
    <3>4. runs[j] <= attempt[w].retries + redelivered[j]
      BY <2>0, <3>3 DEF StartedOK
    <3>5. runs'[j] <= attempt'[w].retries + 1 + redelivered'[j]
      BY <1>1, <2>0, <3>2, <3>3, <3>4
    <3>6. StartedOK(j, attempt[w])'
      BY <3>1, <3>2, <3>5 DEF StartedOK
    <3>7. QED
      BY <2>1, <3>1, <3>3, <3>6
  <2>4. CASE CheckForCancellation(w)
    <3>1. PICK pc \in {"cancelling", "work", "save"} :
               Goto(w, pc) /\ (pc = "cancelling" => row[j].cancelRequested)
      BY <2>0, <2>4 DEF CheckForCancellation, MustStop
    <3>2. attempt[w].pc \in {"check", "work"} /\ UNCHANGED <<row, queue, runs>>
      BY <2>4 DEF CheckForCancellation, history
    <3>3. attempt'[w].pc = pc /\ attempt'[w].retries = attempt[w].retries
      BY <1>0, <3>1, NameFacts, GotoFacts
    <3>4. QED
      BY <2>2, <3>1, <3>2, <3>3
  <2>5. CASE SaveProgress(w)
    <3>1. row'[j].state = row[j].state /\ row'[j].cancelRequested = row[j].cancelRequested
      BY <1>0, <2>0, <2>5 DEF SaveProgress, SaveJob, Row
    <3>2. attempt'[w].pc = "work" /\ attempt'[w].retries = attempt[w].retries
      BY <1>0, <2>5 DEF SaveProgress, SaveAttempt, Attempt
    <3>3. attempt[w].pc = "save" /\ UNCHANGED <<queue, runs>>
      BY <2>5 DEF SaveProgress, history
    <3>4. QED
      BY <2>2, <3>1, <3>2, <3>3
  <2>6. ASSUME NEW kind \in {"transient", "permanent"}, Raise(w, kind)
        PROVE  StartOK(j)'
    <3>1. PICK pc \in {"retrying", "failing"} : Goto(w, pc)
      BY <2>6 DEF Raise
    <3>2. attempt[w].pc \in {"check", "work", "save"} /\ UNCHANGED <<row, queue, runs>>
      BY <2>6 DEF Raise, history
    <3>3. attempt'[w].pc = pc /\ attempt'[w].retries = attempt[w].retries
      BY <1>0, <3>1, NameFacts, GotoFacts
    <3>4. QED
      BY <2>2, <3>1, <3>2, <3>3
  <2>7. CASE MarkRetry(w)
    <3>1. row'[j].state = "queued"
      BY <1>0, <2>0, <2>7 DEF MarkRetry, SaveJob, Row
    <3>2. Goto(w, "publish") /\ attempt[w].pc = "retrying" /\ UNCHANGED <<queue, runs>>
      BY <2>7 DEF MarkRetry, history
    <3>3. attempt'[w].pc = "publish" /\ attempt'[w].retries = attempt[w].retries
      BY <1>0, <3>2, NameFacts, GotoFacts
    <3>4. runs[j] <= attempt[w].retries + 1 + redelivered[j]
      BY <2>0, <3>2 DEF StartedOK
    <3>5. StartedOK(j, attempt[w])'
      BY <1>1, <3>1, <3>2, <3>3, <3>4 DEF StartedOK
    <3>6. QED
      BY <2>1, <3>1, <3>2, <3>5
  <2>8. CASE PublishRetry(w)
    <3>1. PICK n \in Tries : n = attempt[w].retries + 1
      BY <2>8, TypedFacts DEF PublishRetry
    <3>2. /\ attempt[w].pc = "publish" /\ Goto(w, "ack") /\ UNCHANGED <<row, runs>>
          /\ queue' = [queue EXCEPT ![j][n] = @ + 1]
      BY <2>0, <2>8, <3>1 DEF PublishRetry, history
    <3>3. attempt'[w].pc = "ack"
      BY <1>0, <3>2, NameFacts, GotoFacts
    <3>4. runs[j] <= n + redelivered[j] /\ row[j].state = "queued"
      BY <2>0, <3>1, <3>2 DEF StartedOK
    <3>5. \A r \in Tries : queue'[j][r] > 0 => r = n
      BY <1>0, <2>0, <3>2
    <3>6. MessageOK(j)'
      BY <1>1, <3>2, <3>4, <3>5 DEF MessageOK, Ready
    <3>7. QED
      BY <1>1, <1>4, <2>0, <3>2, <3>3, <3>4, <3>6, StartUpdate DEF Active
  <2>9. CASE MarkCancelled(w) \/ MarkFailed(w) \/ MarkSucceeded(w)
    <3>1. Goto(w, "ack") /\ queue' = queue
      BY <2>9 DEF MarkCancelled, MarkFailed, MarkSucceeded
    <3>2. attempt'[w].pc = "ack"
      BY <1>0, <3>1, NameFacts, GotoFacts
    <3>3. row'[j].state # "absent"
      <4>1. IsTerminal(row'[j])
        BY <1>0, <2>0, <2>9, OutcomeIsTerminal
      <4>2. QED
        BY <4>1 DEF IsTerminal, TerminalStates
    <3>4. QED
      BY <2>1, <3>1, <3>2, <3>3 DEF Active
  <2>10. CASE Acknowledge(w)
    BY <2>0, <2>10 DEF Acknowledge
  <2>11. QED
    BY <2>3, <2>4, <2>5, <2>6, <2>7, <2>8, <2>9, <2>10 DEF WorkerStep
<1>5. QED
  BY <1>2, <1>3, <1>4

\* What a crash at work leaves of an undisturbed job.
LEMMA StartCrash ==
    ASSUME Typed, NEW w \in Workers, WorkerCrash(w), NEW j \in Jobs, StartOK(j), Solo(j)
    PROVE  StartOK(j)'
<1>0. /\ attempt \in [Workers -> Attempt] /\ queue \in [Jobs -> [Tries -> Nat]]
      /\ extra \in [Jobs -> Nat] /\ redelivered \in [Jobs -> Nat]
      /\ attempt[w].job \in Jobs /\ attempt[w].retries \in Tries /\ attempt[w].pc # "idle"
  BY BusyFacts, StartFacts, TypedFacts DEF WorkerAction
<1>1. /\ UNCHANGED <<row, launch, cancel, runs>> /\ attempt'[w].pc = "idle"
      /\ \A v \in Workers : v # w => attempt'[v] = attempt[v]
  BY <1>0 DEF WorkerCrash, Idle
<1>2. \A v \in Workers : Active(v, j)' => Active(v, j) /\ attempt'[v] = attempt[v]
  BY <1>1 DEF Active
<1>3. PICK i \in Jobs, n \in Tries : i = attempt[w].job /\ n = attempt[w].retries
  BY <1>0
<1>4. CASE attempt[w].held /\ attempt[w].pc # "ack"
  <2>1. /\ queue' = [queue EXCEPT ![i][n] = @ + 1] /\ redelivered' = [redelivered EXCEPT ![i] = @ + 1]
        /\ extra' = extra
    BY <1>3, <1>4 DEF WorkerCrash
  <2>2. CASE i # j
    <3>1. queue'[j] = queue[j] /\ redelivered'[j] = redelivered[j]
      BY <1>0, <2>1, <2>2
    <3>2. QED
      BY <1>1, <1>2, <2>1, <3>1, StartFrame
  <2>3. CASE i = j /\ extra[j] # 0
    BY <2>1, <2>3 DEF StartOK
  <2>4. CASE i = j /\ extra[j] = 0
    <3>1. Active(w, j)
      BY <1>0, <1>3, <1>4, <2>4 DEF Active
    <3>2. /\ \A r \in Tries : queue[j][r] = 0
          /\ ~IsTerminal(row[j]) /\ StartedOK(j, attempt[w]) /\ LaunchOK(j)
          /\ launch[j] \notin {"none", "created", "failing"}
          /\ runs[j] \in Nat /\ redelivered[j] \in Nat /\ n \in Nat
      BY <2>4, <3>1, OwnerFacts, TriesFacts
    <3>3. redelivered'[j] = redelivered[j] + 1 /\ \A r \in Tries : queue'[j][r] > 0 => r = n
      BY <1>0, <2>1, <2>4, <3>2
    <3>4. runs[j] <= n + 1 + redelivered[j] /\ row[j].state \in {"queued", "running"}
      BY <1>3, <3>2 DEF StartedOK, Ready
    <3>5. MessageOK(j)'
      BY <1>1, <3>2, <3>3, <3>4 DEF MessageOK, Ready
    <3>6. ~Active(w, j)' /\ row'[j].state # "absent"
      BY <1>1, <3>4 DEF Active
    <3>7. QED
      BY <1>1, <2>4, <3>1, <3>5, <3>6, StartUpdate
  <2>5. QED
    BY <2>2, <2>3, <2>4
<1>5. CASE attempt[w].held /\ attempt[w].pc = "ack"
  <2>1. /\ queue' = [queue EXCEPT ![i][n] = @ + 1] /\ extra' = [extra EXCEPT ![i] = @ + 1]
        /\ redelivered' = redelivered
    BY <1>3, <1>5 DEF WorkerCrash
  <2>2. CASE i = j
    BY <1>0, <2>1, <2>2 DEF StartOK
  <2>3. CASE i # j
    <3>1. queue'[j] = queue[j] /\ extra'[j] = extra[j]
      BY <1>0, <2>1, <2>3
    <3>2. QED
      BY <1>1, <1>2, <2>1, <3>1, StartFrame
  <2>4. QED
    BY <2>2, <2>3
<1>6. CASE ~attempt[w].held
  <2>1. UNCHANGED <<queue, extra, redelivered>>
    BY <1>6 DEF WorkerCrash
  <2>2. QED
    BY <1>1, <1>2, <2>1, StartFrame
<1>7. QED
  BY <1>4, <1>5, <1>6

LEMMA StartFault ==
    ASSUME Typed, Fault, NEW j \in Jobs, StartOK(j), Solo(j)
    PROVE  StartOK(j)'
<1>0. /\ launch \in [Jobs -> Launch] /\ queue \in [Jobs -> [Tries -> Nat]]
      /\ extra \in [Jobs -> Nat] /\ attempt \in [Workers -> Attempt]
  BY StartFacts
<1>1. ASSUME NEW i \in Jobs, WebCrash(i)
      PROVE  StartOK(j)'
  <2>1. /\ UNCHANGED <<row, cancel, queue, attempt, extra, redelivered, runs>>
        /\ launch'[j] = launch[j] \/ (launch[j] # "none" /\ launch'[j] = "crashed")
    BY <1>0, <1>1 DEF WebCrash
  <2>2. \A v \in Workers : Active(v, j)' => Active(v, j) /\ attempt'[v] = attempt[v]
    BY <2>1 DEF Active
  <2>3. QED
    BY <2>1, <2>2, StartFrame
<1>2. ASSUME NEW i \in Jobs, AmbiguousDispatch(i)
      PROVE  StartOK(j)'
  <2>1. /\ UNCHANGED <<row, cancel, attempt, redelivered, runs>>
        /\ launch' = [launch EXCEPT ![i] = "failing"] /\ queue' = [queue EXCEPT ![i][0] = @ + 1]
        /\ extra' = [extra EXCEPT ![i] = @ + 1]
    BY <1>2 DEF AmbiguousDispatch
  <2>2. CASE i = j
    BY <1>0, <2>1, <2>2 DEF StartOK
  <2>3. CASE i # j
    <3>1. launch'[j] = launch[j] /\ queue'[j] = queue[j] /\ extra'[j] = extra[j]
      BY <1>0, <2>1, <2>3
    <3>2. \A v \in Workers : Active(v, j)' => Active(v, j) /\ attempt'[v] = attempt[v]
      BY <2>1 DEF Active
    <3>3. QED
      BY <2>1, <3>1, <3>2, StartFrame
  <2>4. QED
    BY <2>2, <2>3
<1>3. ASSUME NEW w \in Workers, VisibilityTimeout(w)
      PROVE  StartOK(j)'
  <2>1. PICK i \in Jobs, n \in Tries : i = attempt[w].job /\ n = attempt[w].retries
    BY <1>3, BusyFacts, TypedFacts DEF WorkerAction
  <2>2. /\ UNCHANGED <<row, launch, cancel, redelivered, runs>>
        /\ queue' = [queue EXCEPT ![i][n] = @ + 1] /\ extra' = [extra EXCEPT ![i] = @ + 1]
        /\ attempt' = [attempt EXCEPT ![w].held = FALSE]
    BY <1>3, <2>1 DEF VisibilityTimeout
  <2>3. CASE i = j
    BY <1>0, <2>2, <2>3 DEF StartOK
  <2>4. CASE i # j
    <3>1. queue'[j] = queue[j] /\ extra'[j] = extra[j]
      BY <1>0, <2>2, <2>4
    <3>2. attempt'[w].job = i /\ \A v \in Workers : v # w => attempt'[v] = attempt[v]
      BY <1>0, <2>1, <2>2 DEF Attempt
    <3>3. \A v \in Workers : Active(v, j)' => Active(v, j) /\ attempt'[v] = attempt[v]
      BY <2>4, <3>2 DEF Active
    <3>4. QED
      BY <2>2, <3>1, <3>3, StartFrame
  <2>5. QED
    BY <2>3, <2>4
<1>4. ASSUME NEW w \in Workers, OutcomeLost(w)
      PROVE  StartOK(j)'
  <2>1. Goto(w, "ack") /\ UNCHANGED <<row, launch, cancel, queue, extra, redelivered, runs>>
    BY <1>4 DEF OutcomeLost
  <2>2. attempt'[w].pc = "ack" /\ \A v \in Workers : v # w => attempt'[v] = attempt[v]
    BY <1>0, <2>1, NameFacts, GotoFacts
  <2>3. \A v \in Workers : Active(v, j)' => Active(v, j) /\ attempt'[v] = attempt[v]
    BY <2>2 DEF Active
  <2>4. QED
    BY <2>1, <2>3, StartFrame
<1>5. QED
  BY <1>1, <1>2, <1>3, <1>4, StartCrash DEF Fault

LEMMA StartInit == Init => StartInv
<1> SUFFICES ASSUME Init
             PROVE  StartInv
  OBVIOUS
<1>1. IndInv
  BY TypedInit, OwnInit DEF IndInv
<1>2. ASSUME NEW j \in Jobs
      PROVE  StartOK(j)
  <2>1. /\ launch[j] = "none" /\ row[j].state = "absent" /\ ~row[j].cancelRequested
        /\ runs[j] = 0 /\ cancel[j] = "idle"
        /\ (\A r \in Tries : queue[j][r] = 0) /\ \A w \in Workers : ~Active(w, j)
    BY DEF Init, AbsentRow, Active, Idle
  <2>2. QED
    BY <2>1 DEF StartOK, LaunchOK, MessageOK
<1>3. QED
  BY <1>1, <1>2 DEF StartInv

LEMMA StartStep == StartInv /\ [Next]_vars => StartInv'
<1> SUFFICES ASSUME StartInv, [Next]_vars
             PROVE  StartInv'
  OBVIOUS
<1>1. IndInv'
  BY IndStep DEF StartInv
<1>2. ASSUME NEW j \in Jobs
      PROVE  StartOK(j)'
  <2>1. Typed /\ Solo(j) /\ StartOK(j)
    BY DEF StartInv, IndInv, OwnInv
  <2>2. CASE UNCHANGED vars
    BY <2>1, <2>2 DEF StartOK, LaunchOK, MessageOK, StartedOK, Ready, Active, vars
  <2>3. CASE Next
    BY <2>1, <2>3, StartRequests, StartReceive, StartWorker, StartFault DEF Next
  <2>4. QED
    BY <2>2, <2>3
<1>3. QED
  BY <1>1, <1>2 DEF StartInv

-----------------------------------------------------------------------------
(* Every step of the lifecycle is one of JobStatus.                         *)

\* Nothing that the reader of job k sees has changed.
LEMMA SeenFrame ==
    ASSUME NEW k \in Jobs, row'[k].state = row[k].state,
           row'[k].cancelRequested = row[k].cancelRequested,
           extra'[k] = extra[k], runs'[k] = runs[k], redelivered'[k] = redelivered[k]
    PROVE  SeenSame(k)
BY DEF SeenSame, SeenStatus, SeenAsked, SeenTries, SeenAllowed, Undisturbed

\* What is seen of an undisturbed job.
LEMMA SeenPlain ==
    ASSUME NEW j \in Jobs
    PROVE  /\ extra[j] = 0 => /\ Undisturbed(j) /\ SeenStatus(j) = row[j].state
                              /\ SeenAsked(j) <=> row[j].cancelRequested
                              /\ SeenTries(j) = runs[j]
                              /\ SeenAllowed(j) = MaxRetries + 1 + redelivered[j]
           /\ extra'[j] = 0 => /\ SeenStatus(j)' = row'[j].state
                               /\ SeenAsked(j)' <=> row'[j].cancelRequested
                               /\ SeenTries(j)' = runs'[j]
                               /\ SeenAllowed(j)' = MaxRetries + 1 + redelivered'[j]
BY DEF SeenStatus, SeenAsked, SeenTries, SeenAllowed, Undisturbed

\* A step of an undisturbed job that stays undisturbed.
LEMMA SeenRequests ==
    ASSUME Typed, NEW j \in Jobs, StartOK(j), Solo(j), extra[j] = 0,
           CreateJob(j) \/ LaunchStep(j) \/ ReadForCancel(j) \/ SaveCancelRequest(j)
    PROVE  SeenSame(j) \/ SeenCreate(j) \/ SeenRefuse(j) \/ SeenAsk(j)
<1>0. row \in [Jobs -> Row] /\ row[j] \in Row /\ LaunchOK(j)
  BY StartFacts DEF StartOK
<1>1. UNCHANGED <<extra, redelivered, runs>>
  BY DEF CreateJob, LaunchStep, Dispatch, DispatchRefused, MarkDispatchFailed, AnswerLaunch,
     ReadForCancel, SaveCancelRequest, history
<1>2. CASE row' = row
  BY <1>1, <1>2, SeenFrame
<1>3. CASE CreateJob(j)
  <2>1. row'[j] = [AbsentRow EXCEPT !.state = "queued"] /\ launch[j] = "none"
    BY <1>0, <1>3 DEF CreateJob
  <2>2. row'[j].state = "queued" /\ row'[j].cancelRequested = FALSE
    BY <2>1 DEF AbsentRow
  <2>3. row[j].state = "absent" /\ ~row[j].cancelRequested
    BY <1>0, <2>1 DEF LaunchOK
  <2>4. row[j].cancelRequested \in BOOLEAN
    BY <1>0 DEF Row
  <2>5. QED
    BY <1>1, <2>2, <2>3, <2>4, SeenPlain DEF SeenCreate, SeenAsked, Undisturbed
<1>4. CASE MarkDispatchFailed(j)
  <2>1. launch[j] = "failing"
    BY <1>4 DEF MarkDispatchFailed
  <2>2. row'[j].state = "failed" /\ row'[j].cancelRequested = row[j].cancelRequested
    BY <1>0, <1>4 DEF MarkDispatchFailed, SaveJob, Row
  <2>3. row[j].state = "queued" /\ runs[j] = 0
    BY <1>0, <2>1 DEF LaunchOK
  <2>4. QED
    BY <1>1, <2>2, <2>3, SeenPlain DEF SeenRefuse, SeenAsked, Undisturbed
<1>5. CASE SaveCancelRequest(j)
  <2>1. cancel[j] = "checked"
    BY <1>5 DEF SaveCancelRequest
  <2>2. row'[j].state = row[j].state /\ row'[j].cancelRequested = TRUE
    BY <1>0, <1>5 DEF SaveCancelRequest, SaveJob, Row
  <2>3. row[j].state # "absent" /\ row[j].state # "void"
    BY <1>0, <2>1 DEF LaunchOK, Row, States, TerminalStates
  <2>4. QED
    BY <1>1, <2>2, <2>3, SeenPlain DEF SeenAsk, SeenAsked, Undisturbed
<1>6. QED
  BY <1>2, <1>3, <1>4, <1>5 DEF LaunchStep, Dispatch, DispatchRefused, AnswerLaunch, ReadForCancel

LEMMA SeenWorker ==
    ASSUME Typed, NEW w \in Workers, WorkerStep(w), NEW j \in Jobs, j = attempt[w].job,
           StartOK(j), Solo(j), extra[j] = 0
    PROVE  SeenSame(j) \/ SeenStart(j) \/ SeenRequeue(j) \/ SeenFinish(j)
<1>0. row \in [Jobs -> Row] /\ row[j] \in Row /\ runs \in [Jobs -> Nat] /\ redelivered \in [Jobs -> Nat]
  BY StartFacts
<1>1. UNCHANGED <<extra, redelivered>>
  BY DEF WorkerStep, MarkRunning, CheckForCancellation, SaveProgress, Raise, MarkCancelled,
     MarkRetry, PublishRetry, MarkFailed, MarkSucceeded, Acknowledge, history
<1>2. CASE UNCHANGED <<row, runs>>
  BY <1>1, <1>2, SeenFrame
<1>3. ASSUME attempt[w].pc \notin {"idle", "ack"}
      PROVE  /\ StartedOK(j, attempt[w]) /\ runs[j] \in Nat /\ redelivered[j] \in Nat
             /\ attempt[w].retries \in Nat /\ attempt[w].retries <= MaxRetries
  <2>1. Active(w, j)
    BY <1>3 DEF Active
  <2>2. QED
    BY <2>1, OwnerFacts DEF Tries
<1>4. CASE MarkRunning(w)
  <2>1. attempt[w].pc = "start" /\ runs'[j] = runs[j] + 1
    BY <1>0, <1>4 DEF MarkRunning
  <2>2. row'[j].state = "running" /\ row'[j].cancelRequested = row[j].cancelRequested
    BY <1>0, <1>4 DEF MarkRunning, SaveJob, Row
  <2>3. runs[j] <= attempt[w].retries + redelivered[j] /\ Ready(j)
    BY <1>3, <2>1 DEF StartedOK
  <2>4. runs[j] < MaxRetries + 1 + redelivered[j]
    BY <1>3, <2>1, <2>3
  <2>5. \/ row[j].state = "queued"
        \/ row[j].state = "running" /\ MaxRetries + 1 + redelivered[j] > MaxRetries + 1
    BY <1>3, <2>1, <2>3 DEF Ready
  <2>6. /\ SeenStatus(j) = row[j].state /\ SeenTries(j) = runs[j]
        /\ SeenAllowed(j) = MaxRetries + 1 + redelivered[j]
        /\ SeenStatus(j)' = row'[j].state /\ SeenTries(j)' = runs'[j]
        /\ SeenAllowed(j)' = SeenAllowed(j) /\ SeenAsked(j)' = SeenAsked(j)
    BY <1>1, <2>2 DEF SeenStatus, SeenTries, SeenAllowed, SeenAsked, Undisturbed
  <2>7. QED
    BY <2>1, <2>2, <2>4, <2>5, <2>6 DEF SeenStart
<1>5. ASSUME runs' = runs, row'[j].cancelRequested = row[j].cancelRequested
      PROVE  /\ SeenStatus(j) = row[j].state /\ SeenTries(j) = runs[j]
             /\ SeenAllowed(j) = MaxRetries + 1 + redelivered[j]
             /\ SeenAsked(j) = row[j].cancelRequested
             /\ SeenStatus(j)' = row'[j].state
             /\ UNCHANGED <<SeenTries(j), SeenAllowed(j), SeenAsked(j)>>
  <2>1. row[j].cancelRequested \in BOOLEAN
    BY <1>0 DEF Row
  <2>2. QED
    BY <1>1, <1>5, <2>1 DEF SeenStatus, SeenTries, SeenAllowed, SeenAsked, Undisturbed
<1>6. CASE SaveProgress(w)
  <2>1. row'[j].state = row[j].state /\ row'[j].cancelRequested = row[j].cancelRequested
    BY <1>0, <1>6 DEF SaveProgress, SaveJob, Row
  <2>2. runs' = runs
    BY <1>6 DEF SaveProgress, history
  <2>3. QED
    BY <1>1, <2>1, <2>2, SeenFrame
<1>7. CASE MarkRetry(w)
  <2>1. row'[j].state = "queued" /\ row'[j].cancelRequested = row[j].cancelRequested
    BY <1>0, <1>7 DEF MarkRetry, SaveJob, Row
  <2>2. attempt[w].pc = "retrying" /\ runs' = runs /\ attempt[w].retries < MaxRetries
    BY <1>7, TypedFacts DEF MarkRetry, history
  <2>3. runs[j] <= attempt[w].retries + 1 + redelivered[j] /\ row[j].state = "running"
    BY <1>3, <2>2 DEF StartedOK
  <2>4. runs[j] < MaxRetries + 1 + redelivered[j]
    BY <1>3, <2>2, <2>3
  <2>5. QED
    BY <1>5, <2>1, <2>2, <2>3, <2>4 DEF SeenRequeue
<1>8. CASE MarkCancelled(w) \/ MarkFailed(w) \/ MarkSucceeded(w)
  <2>1. attempt[w].pc \in {"cancelling", "failing", "work"} /\ runs' = runs
        /\ (MarkCancelled(w) => attempt[w].pc = "cancelling")
    BY <1>8 DEF MarkCancelled, MarkFailed, MarkSucceeded, history
  <2>2. row'[j].cancelRequested = row[j].cancelRequested
    BY <1>8, OutcomeIsTerminal
  <2>3. row[j].state = "running" /\ (MarkCancelled(w) => row[j].cancelRequested)
    BY <1>3, <2>1 DEF StartedOK
  <2>4. row'[j].state \in {"succeeded", "failed"} \/ (MarkCancelled(w) /\ row'[j].state = "cancelled")
    BY <1>8, OutcomeIsTerminal
  <2>5. QED
    BY <1>5, <2>1, <2>2, <2>3, <2>4 DEF SeenFinish
<1>9. QED
  BY <1>2, <1>4, <1>6, <1>7, <1>8 DEF WorkerStep, CheckForCancellation, Raise, PublishRetry,
     Acknowledge, history

\* A crash at work is what JobStatus calls a lost worker; the other faults it does not see,
\* or they end its promise.
LEMMA SeenCrash ==
    ASSUME Typed, NEW w \in Workers, WorkerCrash(w), NEW j \in Jobs, j = attempt[w].job,
           StartOK(j), Solo(j), extra[j] = 0, extra'[j] = 0
    PROVE  SeenSame(j) \/ SeenLose(j)
<1>0. /\ redelivered \in [Jobs -> Nat] /\ extra \in [Jobs -> Nat] /\ UNCHANGED <<row, runs>>
      /\ attempt[w].pc # "idle"
  BY StartFacts DEF WorkerCrash
<1>1. CASE UNCHANGED <<extra, redelivered>>
  BY <1>0, <1>1, SeenFrame
<1>2. CASE extra' = [extra EXCEPT ![j] = @ + 1]
  BY <1>0, <1>2
<1>3. CASE attempt[w].held /\ attempt[w].pc # "ack"
  <2>1. redelivered'[j] = redelivered[j] + 1
    BY <1>0, <1>3 DEF WorkerCrash
  <2>2. Active(w, j)
    BY <1>0, <1>3 DEF Active
  <2>3. row[j].state \in {"queued", "running"} /\ redelivered[j] \in Nat
    BY <2>2, OwnerFacts DEF StartedOK, Ready
  <2>4. /\ SeenStatus(j) = row[j].state /\ SeenAllowed(j) = MaxRetries + 1 + redelivered[j]
        /\ SeenAllowed(j)' = MaxRetries + 1 + redelivered'[j]
        /\ UNCHANGED <<SeenStatus(j), SeenTries(j), SeenAsked(j)>>
    BY <1>0 DEF SeenStatus, SeenTries, SeenAllowed, SeenAsked, Undisturbed
  <2>5. QED
    BY <2>1, <2>3, <2>4 DEF SeenLose
<1>4. QED
  BY <1>1, <1>2, <1>3 DEF WorkerCrash

LEMMA SeenStep == StartInv /\ [Next]_vars => [Status!Next]_(Status!vars)
<1> SUFFICES ASSUME StartInv, [Next]_vars
             PROVE  [Status!Next]_(Status!vars)
  OBVIOUS
<1>0. /\ Typed /\ \A j \in Jobs : Solo(j) /\ StartOK(j)
      /\ row \in [Jobs -> Row] /\ extra \in [Jobs -> Nat] /\ runs \in [Jobs -> Nat]
      /\ redelivered \in [Jobs -> Nat]
  BY DEF StartInv, IndInv, OwnInv, Typed, TypeOK
<1>1. CASE UNCHANGED <<row, extra, runs, redelivered>>
  BY <1>1 DEF Status!vars, Undisturbed
<1>2. CASE Next
  <2>1. ASSUME NEW j \in Jobs, extra[j] # 0
        PROVE  ~Undisturbed(j)'
    BY <1>0, <1>2, <2>1, StaysDisturbed DEF Undisturbed
  <2>2. ASSUME NEW j \in Jobs,
               CreateJob(j) \/ LaunchStep(j) \/ ReadForCancel(j) \/ SaveCancelRequest(j)
        PROVE  [Status!Next]_(Status!vars)
    <3>1. /\ UNCHANGED <<extra, runs, redelivered>>
          /\ \A k \in Jobs : k # j => row'[k] = row[k]
      BY <1>0, <2>2 DEF CreateJob, LaunchStep, Dispatch, DispatchRefused, MarkDispatchFailed,
         AnswerLaunch, ReadForCancel, SaveCancelRequest, SaveJob, history
    <3>2. \A k \in Jobs : k # j => SeenSame(k)
      BY <3>1, SeenFrame
    <3>3. extra[j] = 0 => SeenSame(j) \/ SeenCreate(j) \/ SeenRefuse(j) \/ SeenAsk(j)
      BY <1>0, <2>2, SeenRequests
    <3>4. QED
      BY <2>1, <3>2, <3>3, SeenIsStep
  <2>3. ASSUME NEW w \in Workers, WorkerStep(w)
        PROVE  [Status!Next]_(Status!vars)
    <3>1. PICK j \in Jobs : j = attempt[w].job
      BY <1>0, <2>3, BusyFacts DEF WorkerAction
    <3>2. /\ UNCHANGED <<extra, redelivered>>
          /\ runs' = runs \/ runs' = [runs EXCEPT ![j] = @ + 1]
      BY <2>3, <3>1 DEF WorkerStep, MarkRunning, CheckForCancellation, SaveProgress, Raise,
         MarkCancelled, MarkRetry, PublishRetry, MarkFailed, MarkSucceeded, Acknowledge, history
    <3>3. \A k \in Jobs : k # j => row'[k] = row[k] /\ runs'[k] = runs[k]
      BY <1>0, <2>3, <3>1, <3>2, WorkerEffect
    <3>4. \A k \in Jobs : k # j => SeenSame(k)
      BY <3>2, <3>3, SeenFrame
    <3>5. extra[j] = 0 => SeenSame(j) \/ SeenStart(j) \/ SeenRequeue(j) \/ SeenFinish(j)
      BY <1>0, <2>3, <3>1, SeenWorker
    <3>6. QED
      BY <2>1, <3>4, <3>5, SeenIsStep
  <2>4. ASSUME NEW w \in Workers, WorkerCrash(w)
        PROVE  [Status!Next]_(Status!vars)
    <3>1. PICK j \in Jobs : j = attempt[w].job
      BY <1>0, <2>4, BusyFacts DEF WorkerAction
    <3>2. /\ UNCHANGED <<row, runs>>
          /\ \A k \in Jobs : k # j => extra'[k] = extra[k] /\ redelivered'[k] = redelivered[k]
      BY <1>0, <2>4, <3>1 DEF WorkerCrash
    <3>3. \A k \in Jobs : k # j => SeenSame(k)
      BY <3>2, SeenFrame
    <3>4. extra[j] = 0 => SeenSame(j) \/ SeenLose(j) \/ ~Undisturbed(j)'
      BY <1>0, <2>4, <3>1, SeenCrash DEF Undisturbed
    <3>5. QED
      BY <2>1, <3>3, <3>4, SeenIsStep
  <2>5. ASSUME NEW j \in Jobs, extra' = [extra EXCEPT ![j] = @ + 1],
               UNCHANGED <<row, runs, redelivered>>
        PROVE  [Status!Next]_(Status!vars)
    <3>1. ~Undisturbed(j)' /\ \A k \in Jobs : k # j => extra'[k] = extra[k]
      BY <1>0, <2>5 DEF Undisturbed
    <3>2. \A k \in Jobs : k # j => SeenSame(k)
      BY <2>5, <3>1, SeenFrame
    <3>3. QED
      BY <3>1, <3>2, SeenIsStep
  <2>6. ASSUME NEW j \in Jobs, WebCrash(j) \/ AmbiguousDispatch(j)
        PROVE  [Status!Next]_(Status!vars)
    BY <1>1, <2>5, <2>6 DEF WebCrash, AmbiguousDispatch
  <2>7. ASSUME NEW w \in Workers, VisibilityTimeout(w)
        PROVE  [Status!Next]_(Status!vars)
    <3>1. attempt[w].job \in Jobs
      BY <1>0, <2>7, BusyFacts DEF WorkerAction
    <3>2. QED
      BY <2>5, <2>7, <3>1 DEF VisibilityTimeout
  <2>8. ASSUME (\E w \in Workers : OutcomeLost(w))
               \/ \E w \in Workers, j \in Jobs, r \in Tries : Receive(w, j, r)
        PROVE  [Status!Next]_(Status!vars)
    BY <1>1, <2>8 DEF OutcomeLost, Receive, history
  <2>9. QED
    BY <1>2, <2>2, <2>3, <2>4, <2>6, <2>7, <2>8 DEF Next, Fault
<1>3. QED
  BY <1>1, <1>2 DEF vars

\* The lifecycle implements JobStatus: seen from outside, an undisturbed job goes through
\* its statuses in order, and its work is started once, once for each retry, and once for
\* each worker that was lost at it.
THEOREM StatusImplemented == Spec => ImplementsStatus
<1>1. Init => Status!Init
  <2> SUFFICES ASSUME Init
               PROVE  Status!Init
    OBVIOUS
  <2>1. \A j \in Jobs : /\ Undisturbed(j) /\ row[j].state = "absent"
                        /\ row[j].cancelRequested = FALSE /\ runs[j] = 0 /\ redelivered[j] = 0
    BY DEF Init, AbsentRow, Undisturbed
  <2>2. /\ [j \in Jobs |-> IF Undisturbed(j) THEN row[j].state ELSE "void"]
           = [j \in Jobs |-> "absent"]
        /\ [j \in Jobs |-> IF Undisturbed(j) THEN runs[j] ELSE 0] = [j \in Jobs |-> 0]
    BY <2>1
  <2>3. [j \in Jobs |-> Undisturbed(j) /\ row[j].cancelRequested] = [j \in Jobs |-> FALSE]
    BY <2>1
  <2>4. [j \in Jobs |-> IF Undisturbed(j) THEN MaxRetries + 1 + redelivered[j] ELSE 0]
        = [j \in Jobs |-> MaxRetries + 1]
    BY <2>1
  <2>5. QED
    BY <2>2, <2>3, <2>4 DEF Status!Init
<1>2. QED
  BY <1>1, StartInit, StartStep, SeenStep, PTL DEF Spec, ImplementsStatus, Status!Spec

=============================================================================
