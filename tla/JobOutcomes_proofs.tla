------------------------- MODULE JobOutcomes_proofs -------------------------
(***************************************************************************)
(* What ownership gives the reader of a job: a cancellation is honoured,    *)
(* progress agrees with the outcome and a retry with its count, and a job   *)
(* runs no more often than its deliveries pay for; for every number of      *)
(* jobs, workers, retries, steps and faults.                                *)
(***************************************************************************)
EXTENDS JobLifecycle_proofs, FiniteSetTheorems

USE NoJobAssumption, BoundsAssumption

-----------------------------------------------------------------------------
WorkerAction(w) == WorkerStep(w) \/ WorkerCrash(w) \/ VisibilityTimeout(w) \/ OutcomeLost(w)

\* A job that is undisturbed after a step was so before it.
LEMMA StaysDisturbed ==
    ASSUME Typed, Next, NEW j \in Jobs, extra'[j] = 0
    PROVE  extra[j] = 0
<1>0. extra \in [Jobs -> Nat]
  BY DEF Typed, TypeOK
<1>1. ASSUME NEW i \in Jobs, extra' = [extra EXCEPT ![i] = @ + 1]
      PROVE  extra[j] = 0
  BY <1>0, <1>1
<1>2. CASE extra' = extra
  BY <1>2
<1>3. CASE Fault
  <2>1. ASSUME NEW i \in Jobs, WebCrash(i) \/ AmbiguousDispatch(i)
        PROVE  extra[j] = 0
    BY <1>1, <1>2, <2>1 DEF WebCrash, AmbiguousDispatch
  <2>2. ASSUME NEW w \in Workers, VisibilityTimeout(w) \/ WorkerCrash(w) \/ OutcomeLost(w)
        PROVE  extra[j] = 0
    <3>1. attempt[w].pc # "idle"
      BY <2>2 DEF VisibilityTimeout, WorkerCrash, OutcomeLost
    <3>2. attempt[w].job \in Jobs
      BY <3>1 DEF Typed, WorkerOK
    <3>3. extra' = extra \/ extra' = [extra EXCEPT ![attempt[w].job] = @ + 1]
      BY <2>2 DEF VisibilityTimeout, WorkerCrash, OutcomeLost
    <3>4. QED
      BY <1>1, <1>2, <3>2, <3>3
  <2>3. QED
    BY <1>3, <2>1, <2>2 DEF Fault
<1>4. ASSUME NEW i \in Jobs, CreateJob(i) \/ LaunchStep(i) \/ ReadForCancel(i) \/ SaveCancelRequest(i)
      PROVE  extra' = extra
  BY <1>4 DEF CreateJob, LaunchStep, Dispatch, DispatchRefused, MarkDispatchFailed, AnswerLaunch,
       ReadForCancel, SaveCancelRequest, history
<1>5. ASSUME NEW w \in Workers, WorkerStep(w)
      PROVE  extra' = extra
  BY <1>5 DEF WorkerStep, MarkRunning, CheckForCancellation, SaveProgress, Raise, MarkCancelled,
       MarkRetry, PublishRetry, MarkFailed, MarkSucceeded, Acknowledge, history
<1>6. ASSUME NEW w \in Workers, NEW i \in Jobs, NEW r \in Tries, Receive(w, i, r)
      PROVE  extra' = extra
  BY <1>6 DEF Receive, history
<1>7. QED
  BY <1>2, <1>3, <1>4, <1>5, <1>6 DEF Next

LEMMA BusyFacts ==
    ASSUME Typed, NEW w \in Workers, WorkerAction(w)
    PROVE  attempt[w].pc # "idle" /\ attempt[w].job \in Jobs
<1>1. attempt[w].pc # "idle"
  <2>1. CASE WorkerStep(w)
    BY <2>1 DEF WorkerStep, MarkRunning, CheckForCancellation, SaveProgress, Raise, MarkCancelled,
         MarkRetry, PublishRetry, MarkFailed, MarkSucceeded, Acknowledge
  <2>2. CASE WorkerCrash(w) \/ VisibilityTimeout(w) \/ OutcomeLost(w)
    BY <2>2 DEF WorkerCrash, VisibilityTimeout, OutcomeLost
  <2>3. QED
    BY <2>1, <2>2 DEF WorkerAction
<1>2. QED
  BY <1>1 DEF Typed, WorkerOK

\* While a worker is active for an undisturbed job nobody else writes its row, but for the
\* mark of a cancellation.
LEMMA OthersKeepRow ==
    ASSUME IndInv, Next, NEW w \in Workers, NEW j \in Jobs, Active(w, j), extra[j] = 0,
           ~WorkerStep(w)
    PROVE  /\ row'[j].state = row[j].state /\ row'[j].progress = row[j].progress
           /\ row[j].cancelRequested => row'[j].cancelRequested
<1>0. /\ Typed /\ row \in [Jobs -> Row] /\ row[j] \in Row
  BY DEF IndInv, Typed, TypeOK
<1>1. /\ launch[j] \notin {"none", "created", "failing"}
      /\ \A v \in Workers : Active(v, j) => v = w
  BY DEF IndInv, OwnInv, Solo
<1>2. CASE row'[j] = row[j]
  BY <1>2
<1>3. ASSUME NEW i \in Jobs, CreateJob(i) \/ LaunchStep(i) \/ ReadForCancel(i)
      PROVE  row'[j] = row[j]
  BY <1>0, <1>1, <1>3 DEF CreateJob, LaunchStep, Dispatch, DispatchRefused,
     MarkDispatchFailed, AnswerLaunch, ReadForCancel, SaveJob
<1>4. ASSUME NEW i \in Jobs, SaveCancelRequest(i)
      PROVE  /\ row'[j].state = row[j].state /\ row'[j].progress = row[j].progress
             /\ row[j].cancelRequested => row'[j].cancelRequested
  <2>1. row' = [row EXCEPT ![i] = [row[i] EXCEPT !.cancelRequested = TRUE]]
    BY <1>4 DEF SaveCancelRequest, SaveJob
  <2>2. CASE i = j
    BY <1>0, <2>1, <2>2 DEF Row
  <2>3. CASE i # j
    BY <1>0, <1>2, <2>1, <2>3
  <2>4. QED
    BY <2>2, <2>3
<1>5. ASSUME NEW v \in Workers, WorkerStep(v)
      PROVE  row'[j] = row[j]
  <2>1. v # w /\ attempt[v].pc # "idle" /\ attempt[v].job \in Jobs
    BY <1>0, <1>5, BusyFacts DEF WorkerAction
  <2>2. CASE attempt[v].job = j
    <3>1. attempt[v].pc = "ack"
      BY <1>1, <2>1, <2>2 DEF Active
    <3>2. QED
      BY <1>0, <1>5, <2>1, <3>1, WorkerEffect
  <2>3. CASE attempt[v].job # j
    BY <1>0, <1>5, <2>1, <2>3, WorkerEffect
  <2>4. QED
    BY <2>2, <2>3
<1>6. ASSUME Fault \/ \E v \in Workers, i \in Jobs, r \in Tries : Receive(v, i, r)
      PROVE  row'[j] = row[j]
  BY <1>6 DEF Fault, WebCrash, AmbiguousDispatch, WorkerCrash, VisibilityTimeout, OutcomeLost, Receive
<1>7. QED
  BY <1>2, <1>3, <1>4, <1>5, <1>6 DEF Next

\* What becomes of a worker that does not take a step of the task.
LEMMA OthersKeepWorker ==
    ASSUME Typed, Next, NEW w \in Workers, ~WorkerStep(w)
    PROVE  \/ attempt'[w] = attempt[w]
           \/ attempt'[w].job = NoJob
           \/ attempt'[w].pc = "start" /\ ~attempt'[w].preCancelled /\ attempt'[w].late = 0
           \/ attempt[w].job \in Jobs /\ attempt'[w].job = attempt[w].job /\ extra'[attempt[w].job] # 0
           \/ /\ attempt'[w].pc = "ack" /\ attempt'[w].job = attempt[w].job
              /\ attempt'[w].preCancelled = attempt[w].preCancelled /\ attempt'[w].late = attempt[w].late
<1>0. attempt \in [Workers -> Attempt] /\ attempt[w] \in Attempt /\ extra \in [Jobs -> Nat]
  BY DEF Typed, TypeOK
<1>1. ASSUME NEW j \in Jobs, CreateJob(j) \/ LaunchStep(j) \/ ReadForCancel(j) \/ SaveCancelRequest(j)
      PROVE  attempt' = attempt
  BY <1>1 DEF CreateJob, LaunchStep, Dispatch, DispatchRefused, MarkDispatchFailed, AnswerLaunch,
       ReadForCancel, SaveCancelRequest, history
<1>2. ASSUME NEW v \in Workers, NEW j \in Jobs, NEW r \in Tries, Receive(v, j, r)
      PROVE  \/ attempt'[w] = attempt[w]
             \/ attempt'[w].pc = "start" /\ ~attempt'[w].preCancelled /\ attempt'[w].late = 0
  BY <1>0, <1>2 DEF Receive, Idle
<1>3. ASSUME NEW v \in Workers, WorkerStep(v)
      PROVE  attempt'[w] = attempt[w]
  <2>1. v # w /\ attempt[v].job \in Jobs
    BY <1>3, BusyFacts DEF WorkerAction
  <2>2. QED
    BY <1>3, <2>1, WorkerEffect
<1>4. ASSUME NEW j \in Jobs, WebCrash(j) \/ AmbiguousDispatch(j)
      PROVE  attempt' = attempt
  BY <1>4 DEF WebCrash, AmbiguousDispatch
<1>5. ASSUME NEW v \in Workers, WorkerCrash(v)
      PROVE  attempt'[w] = attempt[w] \/ attempt'[w].job = NoJob
  BY <1>0, <1>5 DEF WorkerCrash, Idle
<1>6. ASSUME NEW v \in Workers, VisibilityTimeout(v)
      PROVE  \/ attempt'[w] = attempt[w]
             \/ attempt[w].job \in Jobs /\ attempt'[w].job = attempt[w].job /\ extra'[attempt[w].job] # 0
  <2>1. CASE v # w
    BY <1>0, <1>6, <2>1 DEF VisibilityTimeout
  <2>2. CASE v = w
    <3>1. attempt[w].job \in Jobs
      BY <1>6, <2>2, BusyFacts DEF WorkerAction
    <3>2. extra'[attempt[w].job] # 0
      BY <1>0, <1>6, <2>2, <3>1 DEF VisibilityTimeout
    <3>3. attempt'[w].job = attempt[w].job
      BY <1>0, <1>6, <2>2 DEF VisibilityTimeout, Attempt
    <3>4. QED
      BY <3>1, <3>2, <3>3
  <2>3. QED
    BY <2>1, <2>2
<1>7. ASSUME NEW v \in Workers, OutcomeLost(v)
      PROVE  \/ attempt'[w] = attempt[w]
             \/ /\ attempt'[w].pc = "ack" /\ attempt'[w].job = attempt[w].job
                /\ attempt'[w].preCancelled = attempt[w].preCancelled /\ attempt'[w].late = attempt[w].late
  <2>1. attempt' = [attempt EXCEPT ![v] = [attempt[v] EXCEPT !.pc = "ack"]]
    BY <1>7 DEF OutcomeLost, Goto, SaveAttempt
  <2>2. QED
    BY <1>0, <2>1 DEF Attempt
<1>8. QED
  BY <1>1, <1>2, <1>3, <1>4, <1>5, <1>6, <1>7 DEF Next, Fault

-----------------------------------------------------------------------------
(* Cancellation.                                                            *)

\* A worker at work sees a running row; once it has let a checkpoint through that is too
\* late, or started after the request, it stops at its next look.
WorkOK(w, j) ==
    attempt[w].job = j /\ extra[j] = 0 =>
        /\ attempt[w].pc \in {"check", "work", "save", "cancelling", "retrying", "failing"}
              => row[j].state = "running"
        /\ attempt[w].pc = "start" => ~attempt[w].preCancelled
        /\ attempt[w].pc \in {"start", "check"} => attempt[w].late = 0
        /\ attempt[w].preCancelled =>
              /\ attempt[w].pc \notin {"work", "save", "retrying", "publish"}
              /\ Active(w, j) => row[j].cancelRequested
        /\ attempt[w].late <= 1
        /\ attempt[w].late > 0 /\ Active(w, j) =>
              row[j].cancelRequested /\ attempt[w].pc # "save"

LEMMA OtherWork ==
    ASSUME IndInv, Next, NEW w \in Workers, ~WorkerStep(w), NEW j \in Jobs, WorkOK(w, j)
    PROVE  WorkOK(w, j)'
<1>0. Typed /\ NoJob \notin Jobs
  BY DEF IndInv
<1>1. SUFFICES ASSUME attempt'[w].job = j, extra'[j] = 0
               PROVE  WorkOK(w, j)'
  BY DEF WorkOK
<1>2. extra[j] = 0
  BY <1>0, <1>1, StaysDisturbed
<1>3. CASE attempt'[w].pc = "start" /\ ~attempt'[w].preCancelled /\ attempt'[w].late = 0
  BY <1>3 DEF WorkOK
<1>4. CASE /\ attempt'[w].pc = "ack" /\ attempt'[w].job = attempt[w].job
           /\ attempt'[w].preCancelled = attempt[w].preCancelled /\ attempt'[w].late = attempt[w].late
  BY <1>1, <1>2, <1>4 DEF WorkOK, Active
<1>5. CASE attempt'[w] = attempt[w]
  <2>1. CASE Active(w, j)
    <3>1. /\ row'[j].state = row[j].state
          /\ row[j].cancelRequested => row'[j].cancelRequested
      BY <1>2, <2>1, OthersKeepRow
    <3>2. QED
      BY <1>1, <1>2, <1>5, <2>1, <3>1 DEF WorkOK, Active
  <2>2. CASE ~Active(w, j)
    BY <1>1, <1>2, <1>5, <2>2 DEF WorkOK, Active
  <2>3. QED
    BY <2>1, <2>2
<1>6. QED
  BY <1>0, <1>1, <1>3, <1>4, <1>5, OthersKeepWorker

LEMMA OwnWork ==
    ASSUME IndInv, Next, NEW w \in Workers, WorkerStep(w), NEW j \in Jobs, WorkOK(w, j)
    PROVE  WorkOK(w, j)'
<1>0. /\ Typed /\ row \in [Jobs -> Row] /\ row[j] \in Row
      /\ attempt \in [Workers -> Attempt] /\ attempt[w] \in Attempt
  BY DEF IndInv, Typed, TypeOK
<1>1. SUFFICES ASSUME attempt'[w].job = j, extra'[j] = 0
               PROVE  WorkOK(w, j)'
  BY DEF WorkOK
<1>2. extra[j] = 0
  BY <1>0, <1>1, StaysDisturbed
<1>3. attempt[w].job \in Jobs
  BY <1>0, BusyFacts DEF WorkerAction
<1>4. CASE MarkRunning(w)
  <2>1. PICK b \in BOOLEAN : b = row[attempt[w].job].cancelRequested
    BY <1>0, <1>3 DEF Row
  <2>2. attempt' = [attempt EXCEPT ![w] = [[attempt[w] EXCEPT !.pc = "check"] EXCEPT !.preCancelled = b]]
    BY <1>4, <2>1 DEF MarkRunning, SaveAttempt
  <2>3. PICK x \in Attempt : x = [attempt[w] EXCEPT !.pc = "check"]
    BY <1>0, NameFacts DEF Attempt
  <2>4. /\ attempt'[w].pc = "check" /\ attempt'[w].preCancelled = b
        /\ attempt'[w].job = attempt[w].job /\ attempt'[w].late = attempt[w].late
    BY <1>0, <2>2, <2>3 DEF Attempt
  <2>5. attempt[w].pc = "start"
    BY <1>4 DEF MarkRunning
  <2>6. row'[j].state = "running" /\ row'[j].cancelRequested = b
    <3>1. attempt[w].job = j
      BY <1>1, <2>4
    <3>2. row' = [row EXCEPT ![j] = [row[j] EXCEPT !.state = "running", !.error = "none", !.finished = FALSE]]
      BY <1>4, <3>1 DEF MarkRunning, SaveJob
    <3>3. QED
      BY <1>0, <2>1, <3>1, <3>2 DEF Row
  <2>7. QED
    BY <1>1, <1>2, <2>4, <2>5, <2>6 DEF WorkOK
<1>5. CASE CheckForCancellation(w)
  <2>1. PICK pc \in {"cancelling", "work", "save"} :
            /\ Goto(w, pc)
            /\ MustStop(attempt[w].job) => pc = "cancelling"
    BY <1>5 DEF CheckForCancellation
  <2>2. row' = row /\ attempt[w].pc \in {"check", "work"}
    BY <1>5 DEF CheckForCancellation
  <2>3. pc \in Pcs
    BY NameFacts
  <2>4. /\ attempt' = [attempt EXCEPT ![w] = [attempt[w] EXCEPT !.pc = pc]]
        /\ attempt'[w].pc = pc /\ attempt'[w].job = attempt[w].job
        /\ attempt'[w].preCancelled = attempt[w].preCancelled /\ attempt'[w].late = attempt[w].late
    BY <1>0, <2>1, <2>3 DEF Goto, SaveAttempt, Attempt
  <2>5. row[j].state = "running" /\ Active(w, j)
    BY <1>1, <1>2, <2>2, <2>4 DEF WorkOK, Active
  <2>6. row[j].cancelRequested => pc = "cancelling"
    BY <1>1, <2>1, <2>4, <2>5 DEF MustStop, IsTerminal, TerminalStates
  <2>7. QED
    BY <1>1, <1>2, <2>2, <2>4, <2>5, <2>6 DEF WorkOK
<1>6. CASE SaveProgress(w)
  <2>1. PICK late \in Nat : late = IF row[attempt[w].job].cancelRequested THEN attempt[w].late + 1
                                                                         ELSE attempt[w].late
    BY <1>0 DEF Attempt
  <2>2. PICK step \in 0 .. Steps : step = attempt[w].step + 1
    <3>1. attempt[w].step < Steps /\ attempt[w].step \in 0 .. Steps
      BY <1>0, <1>6 DEF SaveProgress, Typed, WorkerOK, Attempt
    <3>2. attempt[w].step + 1 \in 0 .. Steps
      BY <3>1
    <3>3. QED
      BY <3>2
  <2>3. attempt' = [attempt EXCEPT ![w] = [[[attempt[w] EXCEPT !.pc = "work"] EXCEPT !.step = step]
                                              EXCEPT !.late = late]]
    BY <1>0, <1>6, <2>1, <2>2 DEF SaveProgress, SaveAttempt, Attempt
  <2>4. PICK x \in Attempt : x = [attempt[w] EXCEPT !.pc = "work"]
    BY <1>0, NameFacts DEF Attempt
  <2>5. PICK y \in Attempt : y = [x EXCEPT !.step = step]
    BY DEF Attempt
  <2>6. attempt' = [attempt EXCEPT ![w] = [y EXCEPT !.late = late]]
    BY <2>3, <2>4, <2>5
  <2>7. /\ attempt'[w].pc = "work" /\ attempt'[w].job = attempt[w].job
        /\ attempt'[w].preCancelled = attempt[w].preCancelled /\ attempt'[w].late = late
    BY <1>0, <2>4, <2>5, <2>6 DEF Attempt
  <2>8. attempt[w].pc = "save" /\ attempt[w].job = j
    BY <1>1, <1>6, <2>7 DEF SaveProgress
  <2>9. row'[j].state = row[j].state /\ row'[j].cancelRequested = row[j].cancelRequested
    BY <1>0, <1>6, <2>8 DEF SaveProgress, SaveJob, Row
  <2>10. row[j].state = "running" /\ attempt[w].late = 0 /\ ~attempt[w].preCancelled
    BY <1>0, <1>2, <2>8 DEF WorkOK, Active, Attempt
  <2>11. late <= 1 /\ (late > 0 => row[j].cancelRequested)
    BY <2>1, <2>8, <2>10
  <2>12. QED
    BY <2>7, <2>9, <2>10, <2>11 DEF WorkOK
<1>7. ASSUME NEW kind \in {"transient", "permanent"}, Raise(w, kind)
      PROVE  WorkOK(w, j)'
  <2>1. PICK pc \in {"retrying", "failing"} : /\ Goto(w, pc)
                                              /\ attempt[w].pc \in {"check", "save"} => pc = "failing"
    BY <1>7 DEF Raise
  <2>2. row' = row /\ attempt[w].pc \in {"check", "work", "save"}
    BY <1>7 DEF Raise
  <2>3. pc \in Pcs
    BY NameFacts
  <2>4. /\ attempt'[w].pc = pc /\ attempt'[w].job = attempt[w].job
        /\ attempt'[w].preCancelled = attempt[w].preCancelled /\ attempt'[w].late = attempt[w].late
    BY <1>0, <2>1, <2>3 DEF Goto, SaveAttempt, Attempt
  <2>5. Active(w, j)
    BY <1>1, <2>2, <2>4 DEF Active
  <2>6. QED
    BY <1>1, <1>2, <2>1, <2>2, <2>4, <2>5 DEF WorkOK
<1>8. CASE MarkRetry(w)
  <2>1. attempt[w].pc = "retrying" /\ Goto(w, "publish") /\ "publish" \in Pcs
    BY <1>8, NameFacts DEF MarkRetry
  <2>2. /\ attempt'[w].pc = "publish" /\ attempt'[w].job = attempt[w].job
        /\ attempt'[w].preCancelled = attempt[w].preCancelled /\ attempt'[w].late = attempt[w].late
    BY <1>0, <2>1 DEF Goto, SaveAttempt, Attempt
  <2>3. row'[j].cancelRequested = row[j].cancelRequested
    BY <1>0, <1>1, <1>8, <2>2 DEF MarkRetry, SaveJob, Row
  <2>4. Active(w, j)
    BY <1>1, <2>1, <2>2 DEF Active
  <2>5. QED
    BY <1>1, <1>2, <2>1, <2>2, <2>3, <2>4 DEF WorkOK
<1>9. CASE PublishRetry(w) \/ MarkCancelled(w) \/ MarkFailed(w) \/ MarkSucceeded(w)
  <2>1. Goto(w, "ack") /\ "ack" \in Pcs
    BY <1>9, NameFacts DEF PublishRetry, MarkCancelled, MarkFailed, MarkSucceeded
  <2>2. /\ attempt'[w].pc = "ack" /\ attempt'[w].job = attempt[w].job
        /\ attempt'[w].preCancelled = attempt[w].preCancelled /\ attempt'[w].late = attempt[w].late
    BY <1>0, <2>1 DEF Goto, SaveAttempt, Attempt
  <2>3. QED
    BY <1>1, <1>2, <2>2 DEF WorkOK, Active
<1>10. CASE Acknowledge(w)
  BY <1>0, <1>1, <1>10 DEF Acknowledge, Idle
<1>11. QED
  BY <1>4, <1>5, <1>6, <1>7, <1>8, <1>9, <1>10 DEF WorkerStep

CancelInv == IndInv /\ \A w \in Workers, j \in Jobs : WorkOK(w, j)

LEMMA CancelStart == Init => CancelInv
<1> SUFFICES ASSUME Init
             PROVE  CancelInv
  OBVIOUS
<1>1. \A w \in Workers, j \in Jobs : attempt[w].job # j
  BY DEF Init, Idle
<1>2. QED
  BY <1>1, TypedInit, OwnInit DEF CancelInv, IndInv, WorkOK

LEMMA CancelStep == CancelInv /\ [Next]_vars => CancelInv'
<1> SUFFICES ASSUME CancelInv, [Next]_vars
             PROVE  CancelInv'
  OBVIOUS
<1>1. IndInv /\ IndInv'
  BY IndStep DEF CancelInv
<1>2. ASSUME NEW w \in Workers, NEW j \in Jobs
      PROVE  WorkOK(w, j)'
  <2>1. WorkOK(w, j)
    BY DEF CancelInv
  <2>2. CASE Next
    BY <1>1, <2>1, <2>2, OtherWork, OwnWork
  <2>3. CASE UNCHANGED vars
    BY <2>1, <2>3 DEF WorkOK, Active, vars
  <2>4. QED
    BY <2>2, <2>3
<1>3. QED
  BY <1>1, <1>2 DEF CancelInv

LEMMA Cancelling == Spec => []CancelInv
BY CancelStart, CancelStep, PTL DEF Spec

\* An attempt that starts after a cancellation was committed never reaches the task's body,
\* while its job is undisturbed.
THEOREM CancelHeeded == Spec => []CancelPreventsWork
<1>1. CancelInv => CancelPreventsWork
  <2> SUFFICES ASSUME CancelInv, NEW w \in Workers, attempt[w].preCancelled, Undisturbed(attempt[w].job)
               PROVE  attempt[w].pc \notin {"work", "save", "retrying", "publish"}
    BY DEF CancelPreventsWork
  <2>1. attempt[w].pc # "idle" => attempt[w].job \in Jobs
    BY DEF CancelInv, IndInv, Typed, WorkerOK
  <2>2. attempt[w].job \in Jobs => WorkOK(w, attempt[w].job)
    BY DEF CancelInv
  <2>3. QED
    BY <2>1, <2>2 DEF WorkOK, Undisturbed
<1>2. QED
  BY <1>1, Cancelling, PTL

\* A cancellation committed during an attempt lets at most one more checkpoint through.
THEOREM OverrunBounded == Spec => []CancelOverrun
<1>1. CancelInv => CancelOverrun
  BY DEF CancelInv, CancelOverrun, WorkOK, Undisturbed
<1>2. QED
  BY <1>1, Cancelling, PTL

-----------------------------------------------------------------------------
(* Progress and outcome.                                                    *)

Complete(j) == extra[j] = 0 => (row[j].state = "succeeded" <=> row[j].progress = Full)

LEMMA CompleteRequests ==
    ASSUME IndInv, NEW i \in Jobs, NEW j \in Jobs, Complete(j), extra[j] = 0,
           CreateJob(i) \/ LaunchStep(i) \/ ReadForCancel(i) \/ SaveCancelRequest(i)
    PROVE  row'[j].state = "succeeded" <=> row'[j].progress = Full
<1>0. row \in [Jobs -> Row] /\ row[j] \in Row /\ Full # 0
  BY DEF IndInv, Typed, TypeOK, Full
<1>1. CASE row'[j] = row[j]
  BY <1>1 DEF Complete
<1>2. CASE CreateJob(i) /\ i = j
  <2>1. row'[j] = [AbsentRow EXCEPT !.state = "queued"]
    BY <1>0, <1>2 DEF CreateJob
  <2>2. row'[j].state = "queued" /\ row'[j].progress = 0
    BY <2>1 DEF AbsentRow
  <2>3. QED
    BY <1>0, <2>2
<1>3. CASE MarkDispatchFailed(i) /\ i = j
  <2>1. launch[j] = "failing" /\ row'[j].state = "failed" /\ row'[j].progress = row[j].progress
    BY <1>0, <1>3 DEF MarkDispatchFailed, SaveJob, Row
  <2>2. ~IsTerminal(row[j])
    BY <2>1 DEF IndInv, OwnInv, Solo
  <2>3. QED
    BY <2>1, <2>2 DEF Complete, IsTerminal, TerminalStates
<1>4. CASE SaveCancelRequest(i) /\ i = j
  <2>1. row'[j].state = row[j].state /\ row'[j].progress = row[j].progress
    BY <1>0, <1>4 DEF SaveCancelRequest, SaveJob, Row
  <2>2. QED
    BY <2>1 DEF Complete
<1>5. CASE i # j \/ Dispatch(i) \/ DispatchRefused(i) \/ AnswerLaunch(i) \/ ReadForCancel(i)
  <2>1. row'[j] = row[j]
    BY <1>0, <1>5 DEF CreateJob, LaunchStep, Dispatch, DispatchRefused, MarkDispatchFailed,
       AnswerLaunch, ReadForCancel, SaveCancelRequest, SaveJob
  <2>2. QED
    BY <1>1, <2>1
<1>6. QED
  BY <1>2, <1>3, <1>4, <1>5 DEF LaunchStep

LEMMA CompleteWorker ==
    ASSUME IndInv, NEW w \in Workers, WorkerStep(w), NEW j \in Jobs, Complete(j), extra[j] = 0
    PROVE  row'[j].state = "succeeded" <=> row'[j].progress = Full
<1>0. /\ Typed /\ row \in [Jobs -> Row] /\ row[j] \in Row /\ attempt[w] \in Attempt
      /\ attempt[w].job \in Jobs /\ attempt[w].pc # "idle"
  BY BusyFacts DEF IndInv, Typed, TypeOK, WorkerAction
<1>1. CASE attempt[w].job # j
  <2>1. row'[j] = row[j]
    BY <1>0, <1>1, WorkerEffect
  <2>2. QED
    BY <2>1 DEF Complete
<1>2. CASE attempt[w].pc = "ack"
  <2>1. row' = row
    BY <1>0, <1>2, WorkerEffect
  <2>2. QED
    BY <2>1 DEF Complete
<1>3. CASE attempt[w].job = j /\ attempt[w].pc # "ack"
  <2>1. Active(w, j)
    BY <1>0, <1>3 DEF Active
  <2>2. row[j].state # "succeeded" /\ row[j].progress # Full
    BY <2>1 DEF IndInv, OwnInv, Solo, IsTerminal, TerminalStates, Complete
  <2>3. CASE MarkSucceeded(w)
    <3>1. row'[j] = [row[j] EXCEPT !.state = "succeeded", !.progress = Full,
                                   !.error = "none", !.finished = TRUE]
      BY <1>0, <1>3, <2>3 DEF MarkSucceeded, SaveJob
    <3>2. row'[j].state = "succeeded" /\ row'[j].progress = Full
      BY <1>0, <3>1 DEF Row
    <3>3. QED
      BY <3>2
  <2>4. CASE SaveProgress(w)
    <3>1. row'[j].state = row[j].state /\ row'[j].progress = attempt[w].step + 1
      BY <1>0, <1>3, <2>4 DEF SaveProgress, SaveJob, Row
    <3>2. attempt[w].step + 1 \in 0 .. Steps
      BY <1>0, <2>4, TypedFacts DEF SaveProgress
    <3>3. QED
      BY <2>2, <3>1, <3>2 DEF Full
  <2>5. CASE MarkRunning(w) \/ MarkCancelled(w) \/ MarkRetry(w) \/ MarkFailed(w)
    <3>1. row'[j].progress = row[j].progress /\ row'[j].state \in {"running", "cancelled", "queued", "failed"}
      <4>1. CASE MarkRunning(w)
        BY <1>0, <1>3, <4>1 DEF MarkRunning, SaveJob, Row
      <4>2. CASE MarkCancelled(w)
        BY <1>0, <1>3, <4>2 DEF MarkCancelled, SaveJob, Row
      <4>3. CASE MarkRetry(w)
        BY <1>0, <1>3, <4>3 DEF MarkRetry, SaveJob, Row
      <4>4. CASE MarkFailed(w)
        BY <1>0, <1>3, <4>4 DEF MarkFailed, SaveJob, Row
      <4>5. QED
        BY <2>5, <4>1, <4>2, <4>3, <4>4
    <3>2. QED
      BY <2>2, <3>1
  <2>6. ASSUME row' = row
        PROVE  row'[j].state = "succeeded" <=> row'[j].progress = Full
    BY <2>2, <2>6
  <2>7. QED
    BY <2>3, <2>4, <2>5, <2>6
       DEF WorkerStep, CheckForCancellation, Raise, PublishRetry, Acknowledge
<1>4. QED
  BY <1>1, <1>2, <1>3

CompleteInv == IndInv /\ \A j \in Jobs : Complete(j)

LEMMA CompleteStart == Init => CompleteInv
<1> SUFFICES ASSUME Init
             PROVE  CompleteInv
  OBVIOUS
<1>1. \A j \in Jobs : row[j].state = "absent" /\ row[j].progress = 0
  BY DEF Init, AbsentRow
<1>2. Full # 0
  BY DEF Full
<1>3. QED
  BY <1>1, <1>2, TypedInit, OwnInit DEF CompleteInv, IndInv, Complete

LEMMA CompleteStep == CompleteInv /\ [Next]_vars => CompleteInv'
<1> SUFFICES ASSUME CompleteInv, [Next]_vars
             PROVE  CompleteInv'
  OBVIOUS
<1>1. IndInv /\ IndInv' /\ Typed
  BY IndStep DEF CompleteInv, IndInv
<1>2. ASSUME NEW j \in Jobs
      PROVE  Complete(j)'
  <2>0. Complete(j)
    BY DEF CompleteInv
  <2>1. CASE UNCHANGED vars
    BY <2>0, <2>1 DEF Complete, vars
  <2>2. CASE Next
    <3>1. SUFFICES ASSUME extra'[j] = 0
                   PROVE  row'[j].state = "succeeded" <=> row'[j].progress = Full
      BY DEF Complete
    <3>2. extra[j] = 0
      BY <1>1, <2>2, <3>1, StaysDisturbed
    <3>3. ASSUME row' = row
          PROVE  row'[j].state = "succeeded" <=> row'[j].progress = Full
      BY <2>0, <3>2, <3>3 DEF Complete
    <3>4. CASE Fault \/ \E v \in Workers, i \in Jobs, r \in Tries : Receive(v, i, r)
      BY <3>3, <3>4 DEF Fault, WebCrash, AmbiguousDispatch, WorkerCrash, VisibilityTimeout,
         OutcomeLost, Receive
    <3>5. QED
      BY <1>1, <2>0, <2>2, <3>2, <3>4, CompleteRequests, CompleteWorker DEF Next
  <2>3. QED
    BY <2>1, <2>2
<1>3. QED
  BY <1>1, <1>2 DEF CompleteInv

\* 100 percent and succeeded go together, while the job is undisturbed: a checkpoint is below
\* 100 and no attempt writes to a finished row.
THEOREM CompleteIsSucceeded == Spec => []SucceededMeansComplete
<1>1. CompleteInv => SucceededMeansComplete
  BY DEF CompleteInv, Complete, SucceededMeansComplete, Undisturbed
<1>2. QED
  BY <1>1, CompleteStart, CompleteStep, PTL DEF Spec

-----------------------------------------------------------------------------
(* Retries.                                                                 *)

Waits(j, r) == \/ queue[j][r] > 0
               \/ \E w \in Workers : /\ Active(w, j) /\ attempt[w].pc = "start"
                                      /\ attempt[w].retries = r
Publishing(j, k) == \E w \in Workers : /\ Active(w, j) /\ attempt[w].pc = "publish"
                                        /\ attempt[w].retries + 1 = k
Retrying(j) == row[j].state = "queued" /\ row[j].error = "transient"

\* A row that waits for a retry has counted it: without this the "message before" of the
\* last disjunct might be no message at all.
RetryOK(j) ==
    /\ Retrying(j) => row[j].retryCount >= 1
    /\ extra[j] = 0 /\ Retrying(j) /\ j \notin abandoned =>
          \/ Waits(j, row[j].retryCount) \/ Publishing(j, row[j].retryCount)
          \/ redelivered[j] > 0 /\ Waits(j, row[j].retryCount - 1)

\* Steps that only add to what the retry of job j waits for.
LEMMA RetryFrame ==
    ASSUME Typed, NEW j \in Jobs, RetryOK(j),
           Retrying(j)' => Retrying(j) /\ row'[j].retryCount = row[j].retryCount,
           extra'[j] = 0 => extra[j] = 0,
           j \in abandoned => j \in abandoned',
           redelivered[j] > 0 => redelivered'[j] > 0,
           \A r \in Tries : Waits(j, r) => Waits(j, r)',
           \A k \in Tries : Publishing(j, k) => Publishing(j, k)'
    PROVE  RetryOK(j)'
<1>1. row[j].retryCount \in Tries
  BY DEF Typed, TypeOK, Row
<1>2. row[j].retryCount >= 1 => row[j].retryCount - 1 \in Tries
  BY <1>1 DEF Tries
<1>3. CASE ~Retrying(j)'
  BY <1>3 DEF RetryOK, Retrying
<1>4. CASE Retrying(j)'
  <2>1. Retrying(j) /\ row'[j].retryCount = row[j].retryCount /\ row[j].retryCount >= 1
    BY <1>4 DEF RetryOK
  <2>2. SUFFICES ASSUME extra'[j] = 0, j \notin abandoned'
                 PROVE  \/ Waits(j, row[j].retryCount)' \/ Publishing(j, row[j].retryCount)'
                        \/ redelivered'[j] > 0 /\ Waits(j, row[j].retryCount - 1)'
    BY <2>1 DEF RetryOK, Waits, Publishing
  <2>3. \/ Waits(j, row[j].retryCount) \/ Publishing(j, row[j].retryCount)
        \/ redelivered[j] > 0 /\ Waits(j, row[j].retryCount - 1)
    BY <2>1, <2>2 DEF RetryOK
  <2>4. PICK k \in Tries : k = row[j].retryCount /\ k = row'[j].retryCount
    BY <1>1, <2>1
  <2>5. PICK m \in Tries : m = row[j].retryCount - 1 /\ m = row'[j].retryCount - 1
    BY <1>2, <2>1
  <2>6. (Waits(j, k) => Waits(j, k)') /\ (Publishing(j, k) => Publishing(j, k)')
        /\ (Waits(j, m) => Waits(j, m)')
    OBVIOUS
  <2>7. Waits(j, k) \/ Publishing(j, k) \/ (redelivered[j] > 0 /\ Waits(j, m))
    BY <2>3, <2>4, <2>5
  <2>8. Waits(j, k)' \/ Publishing(j, k)' \/ (redelivered'[j] > 0 /\ Waits(j, m)')
    BY <2>6, <2>7
  <2>9. QED
    BY <2>4, <2>5, <2>8 DEF Waits, Publishing
<1>5. QED
  BY <1>3, <1>4

LEMMA RetryRequests ==
    ASSUME Typed, NEW i \in Jobs, NEW j \in Jobs, RetryOK(j),
           CreateJob(i) \/ LaunchStep(i) \/ ReadForCancel(i) \/ SaveCancelRequest(i)
    PROVE  RetryOK(j)'
<1>0. /\ row \in [Jobs -> Row] /\ row[j] \in Row /\ row[i] \in Row
      /\ queue \in [Jobs -> [Tries -> Nat]]
  BY DEF Typed, TypeOK
<1>1. UNCHANGED <<attempt, extra, redelivered, abandoned>>
  BY DEF CreateJob, LaunchStep, Dispatch, DispatchRefused, MarkDispatchFailed, AnswerLaunch,
     ReadForCancel, SaveCancelRequest, history
<1>2. \A r \in Tries : queue[j][r] > 0 => queue'[j][r] > 0
  <2>1. CASE queue' = queue
    BY <2>1
  <2>2. CASE Dispatch(i)
    BY <1>0, <2>2, TriesFacts DEF Dispatch
  <2>3. QED
    BY <2>1, <2>2 DEF CreateJob, LaunchStep, DispatchRefused, MarkDispatchFailed, AnswerLaunch,
       ReadForCancel, SaveCancelRequest
<1>3. /\ \A r \in Tries : Waits(j, r) => Waits(j, r)'
      /\ \A k \in Tries : Publishing(j, k) => Publishing(j, k)'
  BY <1>1, <1>2 DEF Waits, Publishing, Active
<1>4. Retrying(j)' => Retrying(j) /\ row'[j].retryCount = row[j].retryCount
  <2>1. CASE row'[j] = row[j]
    BY <2>1 DEF Retrying
  <2>2. CASE CreateJob(i) /\ i = j
    <3>1. row'[j] = [AbsentRow EXCEPT !.state = "queued"]
      BY <1>0, <2>2 DEF CreateJob
    <3>2. row'[j].error = "none"
      BY <3>1 DEF AbsentRow
    <3>3. QED
      BY <3>2 DEF Retrying
  <2>3. CASE MarkDispatchFailed(i) /\ i = j
    <3>1. row'[j].state = "failed"
      BY <1>0, <2>3 DEF MarkDispatchFailed, SaveJob, Row
    <3>2. QED
      BY <3>1 DEF Retrying
  <2>4. CASE SaveCancelRequest(i) /\ i = j
    <3>1. /\ row'[j].state = row[j].state /\ row'[j].error = row[j].error
          /\ row'[j].retryCount = row[j].retryCount
      BY <1>0, <2>4 DEF SaveCancelRequest, SaveJob, Row
    <3>2. QED
      BY <3>1 DEF Retrying
  <2>5. CASE i # j \/ Dispatch(i) \/ DispatchRefused(i) \/ AnswerLaunch(i) \/ ReadForCancel(i)
    <3>1. row'[j] = row[j]
      BY <1>0, <2>5 DEF CreateJob, LaunchStep, Dispatch, DispatchRefused, MarkDispatchFailed,
         AnswerLaunch, ReadForCancel, SaveCancelRequest, SaveJob
    <3>2. QED
      BY <2>1, <3>1
  <2>6. QED
    BY <2>2, <2>3, <2>4, <2>5 DEF LaunchStep
<1>5. QED
  BY <1>1, <1>3, <1>4, RetryFrame

\* A delivery moves what the row waits for from the queue to a worker.
LEMMA RetryReceive ==
    ASSUME Typed, NEW w \in Workers, NEW i \in Jobs, NEW r \in Tries, Receive(w, i, r),
           NEW j \in Jobs, RetryOK(j)
    PROVE  RetryOK(j)'
<1>1. /\ attempt[w].pc = "idle" /\ queue' = [queue EXCEPT ![i][r] = @ - 1]
      /\ UNCHANGED <<row, extra, redelivered, abandoned>>
      /\ queue \in [Jobs -> [Tries -> Nat]]
  BY TypedFacts DEF Receive, history
<1>2. /\ attempt'[w].pc = "start" /\ attempt'[w].job = i /\ attempt'[w].retries = r
      /\ \A v \in Workers : v # w => attempt'[v] = attempt[v]
  BY TypedFacts DEF Receive, Idle
<1>3. \A v \in Workers : Active(v, j) => v # w /\ attempt'[v] = attempt[v] /\ Active(v, j)'
  BY <1>1, <1>2 DEF Active
<1>4. ASSUME NEW s \in Tries, Waits(j, s)
      PROVE  Waits(j, s)'
  <2>1. CASE j = i /\ s = r
    BY <1>2, <2>1 DEF Waits, Active
  <2>2. CASE ~(j = i /\ s = r)
    <3>1. queue'[j][s] = queue[j][s]
      BY <1>1, <2>2
    <3>2. QED
      BY <1>3, <1>4, <3>1 DEF Waits
  <2>3. QED
    BY <2>1, <2>2
<1>5. \A k \in Tries : Publishing(j, k) => Publishing(j, k)'
  BY <1>3 DEF Publishing
<1>6. QED
  BY <1>1, <1>4, <1>5, RetryFrame DEF Retrying

\* Of a worker's steps only MarkRetry starts a wait, and only PublishRetry and the start of
\* an attempt touch what a row waits for.
LEMMA RetryWorker ==
    ASSUME Typed, NEW w \in Workers, WorkerStep(w), NEW j \in Jobs, RetryOK(j)
    PROVE  RetryOK(j)'
<1>0. /\ row \in [Jobs -> Row] /\ row[j] \in Row /\ attempt[w] \in Attempt
      /\ attempt \in [Workers -> Attempt]
      /\ queue \in [Jobs -> [Tries -> Nat]] /\ extra \in [Jobs -> Nat]
      /\ attempt[w].job \in Jobs /\ attempt[w].pc # "idle"
  BY BusyFacts DEF Typed, TypeOK, WorkerAction
<1>1. /\ UNCHANGED <<extra, redelivered, abandoned>>
      /\ \A v \in Workers : v # w => attempt'[v] = attempt[v]
      /\ \A k \in Jobs : k # attempt[w].job => row'[k] = row[k] /\ queue'[k] = queue[k]
  <2>1. UNCHANGED <<extra, redelivered, abandoned>>
    BY DEF WorkerStep, MarkRunning, CheckForCancellation, SaveProgress, Raise, MarkCancelled,
       MarkRetry, PublishRetry, MarkFailed, MarkSucceeded, Acknowledge, history
  <2>2. QED
    BY <1>0, <2>1, WorkerEffect
<1>2. \A v \in Workers : v # w /\ Active(v, j) => Active(v, j)' /\ attempt'[v] = attempt[v]
  BY <1>1 DEF Active
\* Nothing that j waits for is with w, and its queue stays.
<1>3. ASSUME ~(Active(w, j) /\ attempt[w].pc \in {"start", "publish"}), queue'[j] = queue[j],
             Retrying(j)' => Retrying(j) /\ row'[j].retryCount = row[j].retryCount
      PROVE  RetryOK(j)'
  <2>1. /\ \A r \in Tries : Waits(j, r) => Waits(j, r)'
        /\ \A k \in Tries : Publishing(j, k) => Publishing(j, k)'
    BY <1>2, <1>3 DEF Waits, Publishing
  <2>2. QED
    BY <1>1, <1>3, <2>1, RetryFrame
<1>4. CASE attempt[w].job # j
  BY <1>1, <1>3, <1>4 DEF Active, Retrying
<1>5. ASSUME ~Retrying(j)'
      PROVE  RetryOK(j)'
  BY <1>5 DEF RetryOK, Retrying
<1>6. CASE attempt[w].job = j
  <2>1. CASE MarkRunning(w)
    <3>1. row'[j].state = "running"
      BY <1>0, <1>6, <2>1 DEF MarkRunning, SaveJob, Row
    <3>2. QED
      BY <1>5, <3>1 DEF Retrying
  <2>2. CASE MarkCancelled(w) \/ MarkFailed(w) \/ MarkSucceeded(w)
    <3>1. CASE MarkCancelled(w)
      <4>1. row'[j].state = "cancelled"
        BY <1>0, <1>6, <3>1 DEF MarkCancelled, SaveJob, Row
      <4>2. QED
        BY <1>5, <4>1 DEF Retrying
    <3>2. CASE MarkFailed(w)
      <4>1. row'[j].state = "failed"
        BY <1>0, <1>6, <3>2 DEF MarkFailed, SaveJob, Row
      <4>2. QED
        BY <1>5, <4>1 DEF Retrying
    <3>3. CASE MarkSucceeded(w)
      <4>1. row'[j] = [row[j] EXCEPT !.state = "succeeded", !.progress = Full,
                                     !.error = "none", !.finished = TRUE]
        BY <1>0, <1>6, <3>3 DEF MarkSucceeded, SaveJob
      <4>2. row'[j].state = "succeeded"
        BY <1>0, <4>1 DEF Row
      <4>3. QED
        BY <1>5, <4>2 DEF Retrying
    <3>4. QED
      BY <2>2, <3>1, <3>2, <3>3
  <2>3. CASE SaveProgress(w)
    <3>1. /\ row'[j].state = row[j].state /\ row'[j].error = row[j].error
          /\ row'[j].retryCount = row[j].retryCount
      BY <1>0, <1>6, <2>3 DEF SaveProgress, SaveJob, Row
    <3>2. attempt[w].pc = "save" /\ queue' = queue
      BY <2>3 DEF SaveProgress
    <3>3. QED
      BY <1>3, <3>1, <3>2 DEF Retrying
  <2>4. CASE CheckForCancellation(w) \/ (\E kind \in {"transient", "permanent"} : Raise(w, kind))
             \/ Acknowledge(w)
    <3>1. attempt[w].pc \in {"check", "work", "save", "ack"} /\ row' = row /\ queue' = queue
      BY <2>4 DEF CheckForCancellation, Raise, Acknowledge
    <3>2. QED
      BY <1>3, <3>1 DEF Retrying
  <2>5. CASE MarkRetry(w)
    <3>1. attempt[w].retries + 1 \in Tries /\ attempt[w].retries \in Nat
      BY <2>5, TypedFacts DEF MarkRetry, Tries
    <3>2. row'[j].retryCount = attempt[w].retries + 1
      BY <1>0, <1>6, <2>5, <3>1 DEF MarkRetry, SaveJob, Row
    <3>3. Goto(w, "publish") /\ "publish" \in Pcs
      BY <2>5, NameFacts DEF MarkRetry
    <3>4. attempt'[w].pc = "publish" /\ attempt'[w].job = j /\ attempt'[w].retries = attempt[w].retries
      BY <1>0, <1>6, <3>3, GotoFacts
    <3>5. row'[j].retryCount >= 1
      BY <3>1, <3>2
    <3>6. Publishing(j, row[j].retryCount)'
      BY <3>2, <3>4 DEF Publishing, Active
    <3>7. QED
      BY <3>5, <3>6 DEF RetryOK
  <2>6. CASE PublishRetry(w)
    <3>1. PICK n \in Tries : n = attempt[w].retries + 1
      BY <2>6, TypedFacts DEF PublishRetry
    <3>2. /\ attempt[w].pc = "publish" /\ row' = row
          /\ queue' = [queue EXCEPT ![j][n] = @ + 1]
      BY <1>6, <2>6, <3>1 DEF PublishRetry
    <3>3. queue'[j][n] > 0 /\ \A r \in Tries : queue[j][r] > 0 => queue'[j][r] > 0
      BY <1>0, <3>2
    <3>4. \A r \in Tries : Waits(j, r) => Waits(j, r)'
      BY <1>2, <3>2, <3>3 DEF Waits
    <3>5. \A k \in Tries : Publishing(j, k) => Publishing(j, k)' \/ Waits(j, k)'
      BY <1>2, <3>1, <3>3 DEF Publishing, Waits
    <3>6. CASE Retrying(j) /\ extra[j] = 0 /\ j \notin abandoned
      <4>1. PICK k \in Tries : k = row[j].retryCount /\ k = row'[j].retryCount /\ k >= 1
        BY <1>0, <3>2, <3>6 DEF RetryOK, Row
      <4>2. PICK m \in Tries : m = k - 1
        BY <4>1 DEF Tries
      <4>3. Waits(j, k) \/ Publishing(j, k) \/ (redelivered[j] > 0 /\ Waits(j, m))
        BY <3>6, <4>1, <4>2 DEF RetryOK
      <4>4. Waits(j, k)' \/ Publishing(j, k)' \/ (redelivered'[j] > 0 /\ Waits(j, m)')
        BY <1>1, <3>4, <3>5, <4>3
      <4>5. QED
        BY <4>1, <4>2, <4>4 DEF RetryOK, Waits, Publishing
    <3>7. CASE ~(Retrying(j) /\ extra[j] = 0 /\ j \notin abandoned)
      BY <1>1, <3>2, <3>7 DEF RetryOK, Retrying
    <3>8. QED
      BY <3>6, <3>7
  <2>7. QED
    BY <2>1, <2>2, <2>3, <2>4, <2>5, <2>6 DEF WorkerStep
<1>7. QED
  BY <1>4, <1>6

\* A worker that dies at work gives its message back: the wait goes from the worker to the
\* message it had received, one retry before the one it was about to publish.
LEMMA RetryCrash ==
    ASSUME Typed, NEW w \in Workers, WorkerCrash(w), NEW j \in Jobs, RetryOK(j)
    PROVE  RetryOK(j)'
<1>0. /\ row \in [Jobs -> Row] /\ row[j] \in Row /\ attempt[w] \in Attempt
      /\ queue \in [Jobs -> [Tries -> Nat]] /\ extra \in [Jobs -> Nat]
      /\ redelivered \in [Jobs -> Nat]
      /\ attempt[w].job \in Jobs /\ attempt[w].retries \in Tries /\ attempt[w].pc # "idle"
  BY BusyFacts, TypedFacts DEF Typed, TypeOK, WorkerAction
<1>1. /\ row' = row /\ \A v \in Workers : v # w => attempt'[v] = attempt[v]
  BY TypedFacts DEF WorkerCrash
<1>2. \A v \in Workers : v # w /\ Active(v, j) => Active(v, j)' /\ attempt'[v] = attempt[v]
  BY <1>1 DEF Active
<1>3. /\ extra'[j] = 0 => extra[j] = 0
      /\ abandoned \subseteq abandoned'
      /\ redelivered[j] > 0 => redelivered'[j] > 0
      /\ \A r \in Tries : queue[j][r] > 0 => queue'[j][r] > 0
  <2>1. PICK i \in Jobs, n \in Tries : i = attempt[w].job /\ n = attempt[w].retries
    BY <1>0
  <2>2. CASE attempt[w].held /\ attempt[w].pc # "ack"
    <3>1. /\ queue' = [queue EXCEPT ![i][n] = @ + 1] /\ redelivered' = [redelivered EXCEPT ![i] = @ + 1]
          /\ UNCHANGED <<extra, abandoned>>
      BY <2>1, <2>2 DEF WorkerCrash
    <3>2. QED
      BY <1>0, <3>1
  <2>3. CASE attempt[w].held /\ attempt[w].pc = "ack"
    <3>1. /\ queue' = [queue EXCEPT ![i][n] = @ + 1] /\ extra' = [extra EXCEPT ![i] = @ + 1]
          /\ UNCHANGED <<redelivered, abandoned>>
      BY <2>1, <2>3 DEF WorkerCrash
    <3>2. QED
      BY <1>0, <3>1
  <2>4. CASE ~attempt[w].held
    BY <2>4 DEF WorkerCrash
  <2>5. QED
    BY <2>2, <2>3, <2>4
<1>4. CASE ~(Active(w, j) /\ attempt[w].pc \in {"start", "publish"})
  <2>1. /\ \A r \in Tries : Waits(j, r) => Waits(j, r)'
        /\ \A k \in Tries : Publishing(j, k) => Publishing(j, k)'
    BY <1>2, <1>3, <1>4 DEF Waits, Publishing
  <2>2. Retrying(j)' => Retrying(j) /\ row'[j].retryCount = row[j].retryCount
    BY <1>1 DEF Retrying
  <2>3. j \in abandoned => j \in abandoned'
    BY <1>3
  <2>4. QED
    BY <1>3, <2>1, <2>2, <2>3, RetryFrame
<1>5. CASE Active(w, j) /\ attempt[w].pc \in {"start", "publish"}
  <2>0. attempt[w].job = j /\ attempt[w].pc # "ack"
    BY <1>5 DEF Active
  <2>1. CASE ~attempt[w].held
    <3>1. j \in abandoned'
      BY <2>0, <2>1 DEF WorkerCrash
    <3>2. QED
      BY <1>1, <3>1 DEF RetryOK, Retrying
  <2>2. CASE attempt[w].held
    <3>1. PICK n \in Tries : n = attempt[w].retries
      BY <1>0
    <3>2. /\ queue' = [queue EXCEPT ![j][n] = @ + 1] /\ redelivered' = [redelivered EXCEPT ![j] = @ + 1]
      BY <2>0, <2>2, <3>1 DEF WorkerCrash
    <3>3. queue'[j][n] > 0 /\ redelivered'[j] > 0
      BY <1>0, <3>2
    <3>4. \A r \in Tries : Waits(j, r) => Waits(j, r)'
      BY <1>2, <1>3, <3>1, <3>3 DEF Waits
    <3>5. \A k \in Tries : Publishing(j, k) => Publishing(j, k)' \/ (n + 1 = k /\ Waits(j, n)')
      BY <1>2, <3>1, <3>3 DEF Publishing, Waits
    <3>6. CASE Retrying(j) /\ extra'[j] = 0 /\ j \notin abandoned'
      <4>0. extra[j] = 0 /\ j \notin abandoned
        BY <1>3, <3>6
      <4>1. PICK k \in Tries : k = row[j].retryCount /\ k = row'[j].retryCount /\ k >= 1
        BY <1>0, <1>1, <3>6 DEF RetryOK, Row
      <4>2. PICK m \in Tries : m = k - 1
        BY <4>1 DEF Tries
      <4>3. Waits(j, k) \/ Publishing(j, k) \/ (redelivered[j] > 0 /\ Waits(j, m))
        BY <3>6, <4>0, <4>1, <4>2 DEF RetryOK
      <4>4. n + 1 = k => n = m
        BY <4>1, <4>2 DEF Tries
      <4>5. Waits(j, k)' \/ Publishing(j, k)' \/ Waits(j, m)'
        BY <3>4, <3>5, <4>3, <4>4
      <4>6. QED
        BY <3>3, <4>1, <4>2, <4>5 DEF RetryOK, Waits, Publishing
    <3>7. CASE ~(Retrying(j) /\ extra'[j] = 0 /\ j \notin abandoned')
      BY <1>1, <3>7 DEF RetryOK, Retrying
    <3>8. QED
      BY <3>6, <3>7
  <2>3. QED
    BY <2>1, <2>2
<1>6. QED
  BY <1>4, <1>5

LEMMA RetryFault ==
    ASSUME Typed, Fault, NEW j \in Jobs, RetryOK(j)
    PROVE  RetryOK(j)'
<1>0. /\ queue \in [Jobs -> [Tries -> Nat]] /\ extra \in [Jobs -> Nat] /\ abandoned \subseteq Jobs
  BY DEF Typed, TypeOK
\* Nothing is taken from what j waits for.
<1>1. ASSUME UNCHANGED <<row, attempt, redelivered>>, extra'[j] = 0 => extra[j] = 0,
             abandoned \subseteq abandoned', \A r \in Tries : queue[j][r] > 0 => queue'[j][r] > 0
      PROVE  RetryOK(j)'
  <2>1. /\ \A r \in Tries : Waits(j, r) => Waits(j, r)'
        /\ \A k \in Tries : Publishing(j, k) => Publishing(j, k)'
    BY <1>1 DEF Waits, Publishing, Active
  <2>2. Retrying(j)' => Retrying(j) /\ row'[j].retryCount = row[j].retryCount
    BY <1>1 DEF Retrying
  <2>3. (j \in abandoned => j \in abandoned') /\ (redelivered[j] > 0 => redelivered'[j] > 0)
    BY <1>1
  <2>4. QED
    BY <1>1, <2>1, <2>2, <2>3, RetryFrame
<1>2. ASSUME NEW i \in Jobs, WebCrash(i)
      PROVE  RetryOK(j)'
  BY <1>1, <1>2 DEF WebCrash
<1>3. ASSUME NEW i \in Jobs, AmbiguousDispatch(i)
      PROVE  RetryOK(j)'
  <2>1. /\ extra' = [extra EXCEPT ![i] = @ + 1] /\ queue' = [queue EXCEPT ![i][0] = @ + 1]
        /\ UNCHANGED <<row, attempt, redelivered, abandoned>>
    BY <1>3 DEF AmbiguousDispatch
  <2>2. extra'[j] = 0 => extra[j] = 0
    BY <1>0, <2>1
  <2>3. \A r \in Tries : queue[j][r] > 0 => queue'[j][r] > 0
    BY <1>0, <2>1, TriesFacts
  <2>4. QED
    BY <1>1, <2>1, <2>2, <2>3
\* The delivery beside the owner disturbs the job it is for.
<1>4. ASSUME NEW w \in Workers, VisibilityTimeout(w)
      PROVE  RetryOK(j)'
  <2>1. /\ attempt[w].job \in Jobs /\ row' = row /\ UNCHANGED <<redelivered, abandoned>>
        /\ extra' = [extra EXCEPT ![attempt[w].job] = @ + 1]
        /\ \A v \in Workers : v # w => attempt'[v] = attempt[v]
    BY <1>4, BusyFacts, TypedFacts DEF VisibilityTimeout, WorkerAction
  <2>2. CASE attempt[w].job = j
    <3>1. extra'[j] # 0
      BY <1>0, <2>1, <2>2
    <3>2. QED
      BY <2>1, <3>1 DEF RetryOK, Retrying
  <2>3. CASE attempt[w].job # j
    <3>1. queue'[j] = queue[j]
      BY <1>0, <1>4, <2>1, <2>3 DEF VisibilityTimeout
    <3>2. \A v \in Workers : Active(v, j) => Active(v, j)' /\ attempt'[v] = attempt[v]
      BY <2>1, <2>3 DEF Active
    <3>3. /\ \A r \in Tries : Waits(j, r) => Waits(j, r)'
          /\ \A k \in Tries : Publishing(j, k) => Publishing(j, k)'
      BY <3>1, <3>2 DEF Waits, Publishing
    <3>4. extra'[j] = extra[j] /\ (Retrying(j)' => Retrying(j) /\ row'[j].retryCount = row[j].retryCount)
      BY <1>0, <2>1, <2>3 DEF Retrying
    <3>5. QED
      BY <2>1, <3>3, <3>4, RetryFrame
  <2>4. QED
    BY <2>2, <2>3
<1>5. ASSUME NEW w \in Workers, OutcomeLost(w)
      PROVE  RetryOK(j)'
  <2>1. /\ attempt[w].job \in abandoned' /\ abandoned \subseteq abandoned' /\ Goto(w, "ack")
        /\ UNCHANGED <<row, queue, extra, redelivered>>
    BY <1>5 DEF OutcomeLost
  <2>2. \A v \in Workers : v # w => attempt'[v] = attempt[v]
    BY <2>1, TypedFacts, NameFacts, GotoFacts
  <2>3. CASE attempt[w].job = j
    BY <2>1, <2>3 DEF RetryOK, Retrying
  <2>4. CASE attempt[w].job # j
    <3>1. \A v \in Workers : Active(v, j) => Active(v, j)' /\ attempt'[v] = attempt[v]
      BY <2>2, <2>4 DEF Active
    <3>2. /\ \A r \in Tries : Waits(j, r) => Waits(j, r)'
          /\ \A k \in Tries : Publishing(j, k) => Publishing(j, k)'
      BY <2>1, <3>1 DEF Waits, Publishing
    <3>3. Retrying(j)' => Retrying(j) /\ row'[j].retryCount = row[j].retryCount
      BY <2>1 DEF Retrying
    <3>4. QED
      BY <2>1, <3>2, <3>3, RetryFrame
  <2>5. QED
    BY <2>3, <2>4
<1>6. QED
  BY <1>2, <1>3, <1>4, <1>5, RetryCrash DEF Fault

RetryInv == Typed /\ \A j \in Jobs : RetryOK(j)

LEMMA RetryStart == Init => RetryInv
<1> SUFFICES ASSUME Init
             PROVE  RetryInv
  OBVIOUS
<1>1. \A j \in Jobs : row[j].state = "absent"
  BY DEF Init, AbsentRow
<1>2. QED
  BY <1>1, TypedInit DEF RetryInv, RetryOK, Retrying

LEMMA RetryStep == RetryInv /\ [Next]_vars => RetryInv'
<1> SUFFICES ASSUME RetryInv, [Next]_vars
             PROVE  RetryInv'
  OBVIOUS
<1>1. Typed /\ Typed'
  BY TypedStep DEF RetryInv
<1>2. ASSUME NEW j \in Jobs
      PROVE  RetryOK(j)'
  <2>0. RetryOK(j)
    BY DEF RetryInv
  <2>1. CASE UNCHANGED vars
    BY <2>0, <2>1 DEF RetryOK, Retrying, Waits, Publishing, Active, vars
  <2>2. CASE Next
    BY <1>1, <2>0, <2>2, RetryRequests, RetryReceive, RetryWorker, RetryFault DEF Next
  <2>3. QED
    BY <2>1, <2>2
<1>3. QED
  BY <1>1, <1>2 DEF RetryInv

\* A row that waits for retry k has the message or the worker that will run it, or the one
\* that will count it again, through every crash of a worker at work.
THEOREM RetriesAccounted == Spec => []RetryAccounted
<1>1. RetryInv => RetryAccounted
  BY DEF RetryInv, RetryOK, Retrying, Waits, Publishing, RetryAccounted, Undisturbed
<1>2. QED
  BY <1>1, RetryStart, RetryStep, PTL DEF Spec

-----------------------------------------------------------------------------
(* How often a job runs, with any number of deliveries beside its owner.  A   *)
(* message, an attempt and a launch that has not sent hold a ticket for each   *)
(* retry they may still start; every run uses one up.                         *)

\* The tickets of waiting messages: one for each message and retry it may lead to.
Messages(q) == {t \in Tries \X Nat \X Tries : t[2] < q[t[1]] /\ t[1] <= t[3]}

\* Those of attempts, by the first retry that each may still start.
Shares(due) == {p \in Workers \X Tries : due[p[1]] <= p[2]}

DueOf(a, j) ==
    IF a.job = j /\ a.pc \notin {"idle", "ack"}
    THEN IF a.pc = "start" THEN a.retries ELSE a.retries + 1
    ELSE MaxRetries + 1

Due(j) == [w \in Workers |-> DueOf(attempt[w], j)]

\* That of the launch.
ToLaunch(j) == IF launch[j] \in {"none", "created"} THEN MaxRetries + 1 ELSE 0

Paid(j) ==
    /\ IsFiniteSet(Messages(queue[j])) /\ IsFiniteSet(Shares(Due(j)))
    /\ runs[j] + Cardinality(Messages(queue[j])) + Cardinality(Shares(Due(j))) + ToLaunch(j)
           <= (MaxRetries + 1) * (1 + extra[j]) + redelivered[j]

LEMMA UnionCounts ==
    ASSUME NEW A, NEW B, IsFiniteSet(A), IsFiniteSet(B), A \intersect B = {}
    PROVE  /\ IsFiniteSet(A \union B) /\ Cardinality(A) \in Nat /\ Cardinality(B) \in Nat
           /\ Cardinality(A \union B) = Cardinality(A) + Cardinality(B)
<1>1. Cardinality(A \intersect B) = 0
  BY FS_EmptySet
<1>2. /\ IsFiniteSet(A \union B)
      /\ Cardinality(A \union B) = Cardinality(A) + Cardinality(B) - Cardinality(A \intersect B)
  BY FS_Union
<1>3. Cardinality(A) \in Nat /\ Cardinality(B) \in Nat
  BY FS_CardinalityType
<1>4. QED
  BY <1>1, <1>2, <1>3

\* From retry k on there are so many.
LEMMA TriesLeft ==
    ASSUME NEW k \in 0 .. MaxRetries + 1
    PROVE  IsFiniteSet(k .. MaxRetries) /\ Cardinality(k .. MaxRetries) = MaxRetries + 1 - k
<1>1. k \in Int /\ MaxRetries \in Int
  OBVIOUS
<1>2. IsFiniteSet(k .. MaxRetries) /\
      Cardinality(k .. MaxRetries) = IF k > MaxRetries THEN 0 ELSE MaxRetries - k + 1
  BY <1>1, FS_Interval
<1>3. QED
  BY <1>2

\* One message more, or less.
LEMMA MessageMore ==
    ASSUME NEW q \in [Tries -> Nat], NEW p \in [Tries -> Nat], NEW r \in Tries,
           p = [q EXCEPT ![r] = @ + 1], IsFiniteSet(Messages(q)) \/ IsFiniteSet(Messages(p))
    PROVE  /\ IsFiniteSet(Messages(q)) /\ IsFiniteSet(Messages(p))
           /\ Cardinality(Messages(q)) \in Nat
           /\ Cardinality(Messages(p)) = Cardinality(Messages(q)) + (MaxRetries + 1 - r)
<1> DEFINE B == {t \in Messages(p) : t[1] = r /\ t[2] = q[r]}
           f == [i \in r .. MaxRetries |-> <<r, q[r], i>>]
<1>0. r \in Nat /\ r \in 0 .. MaxRetries + 1 /\ q[r] \in Nat /\ p[r] = q[r] + 1
  BY DEF Tries
<1>1. Messages(p) = Messages(q) \union B
  BY <1>0 DEF Messages
<1>2. Messages(q) \intersect B = {}
  BY <1>0 DEF Messages
<1>3. B = {f[i] : i \in r .. MaxRetries}
  BY <1>0 DEF Messages, Tries
<1>4. f \in Surjection(r .. MaxRetries, B) /\ f \in Injection(r .. MaxRetries, B)
  <2>1. f \in [r .. MaxRetries -> B]
    BY <1>3
  <2>2. \A i \in r .. MaxRetries : f[i][3] = i
    OBVIOUS
  <2> HIDE DEF f, B
  <2>3. QED
    BY <1>3, <2>1, <2>2 DEF Surjection, Injection, IsInjective
<1> HIDE DEF f, B
<1>5. IsFiniteSet(B) /\ Cardinality(B) = MaxRetries + 1 - r
  BY <1>0, <1>4, TriesLeft, FS_Surjection
<1>6. IsFiniteSet(Messages(q))
  BY <1>1, FS_Subset
<1>7. QED
  BY <1>1, <1>2, <1>5, <1>6, UnionCounts

\* An attempt that may start other retries than before.
LEMMA ShareMoved ==
    ASSUME NEW d \in [Workers -> 0 .. MaxRetries + 1], NEW w \in Workers, NEW k \in 0 .. MaxRetries + 1,
           IsFiniteSet(Shares(d))
    PROVE  /\ IsFiniteSet(Shares([d EXCEPT ![w] = k])) /\ Cardinality(Shares(d)) \in Nat
           /\ Cardinality(Shares([d EXCEPT ![w] = k])) = Cardinality(Shares(d)) + (d[w] - k)
<1> DEFINE e == [d EXCEPT ![w] = k]
           Rest == {p \in Shares(d) : p[1] # w}
           Own(m) == {<<w, i>> : i \in m .. MaxRetries}
<1>1. ASSUME NEW m \in 0 .. MaxRetries + 1
      PROVE  IsFiniteSet(Own(m)) /\ Cardinality(Own(m)) = MaxRetries + 1 - m
  <2> DEFINE f == [i \in m .. MaxRetries |-> <<w, i>>]
             B == Own(m)
  <2>1. f \in [m .. MaxRetries -> B] /\ B = {f[i] : i \in m .. MaxRetries}
    OBVIOUS
  <2>2. \A i \in m .. MaxRetries : f[i][2] = i
    OBVIOUS
  <2> HIDE DEF f, B
  <2>3. f \in Surjection(m .. MaxRetries, B) /\ f \in Injection(m .. MaxRetries, B)
    BY <2>1, <2>2 DEF Surjection, Injection, IsInjective
  <2>4. IsFiniteSet(B) /\ Cardinality(B) = MaxRetries + 1 - m
    BY <2>3, TriesLeft, FS_Surjection
  <2>5. QED
    BY <2>4 DEF B
<1>2. IsFiniteSet(Rest)
  BY FS_Subset
<1>3. d[w] \in 0 .. MaxRetries + 1
  OBVIOUS
<1>4. Shares(d) = Rest \union Own(d[w]) /\ Shares(e) = Rest \union Own(k)
  BY <1>3 DEF Shares, Tries
<1>5. \A m : Rest \intersect Own(m) = {}
  OBVIOUS
<1> HIDE DEF Rest, Own, e
<1>6. /\ IsFiniteSet(Shares(d)) /\ Cardinality(Shares(d)) = Cardinality(Rest) + (MaxRetries + 1 - d[w])
      /\ IsFiniteSet(Shares(e)) /\ Cardinality(Shares(e)) = Cardinality(Rest) + (MaxRetries + 1 - k)
      /\ Cardinality(Rest) \in Nat
  <2>1. ASSUME NEW m \in 0 .. MaxRetries + 1, NEW S, S = Rest \union Own(m)
        PROVE  /\ IsFiniteSet(S) /\ Cardinality(Rest) \in Nat
               /\ Cardinality(S) = Cardinality(Rest) + (MaxRetries + 1 - m)
    <3>1. /\ IsFiniteSet(Rest \union Own(m)) /\ Cardinality(Rest) \in Nat
          /\ Cardinality(Rest \union Own(m)) = Cardinality(Rest) + Cardinality(Own(m))
      BY <1>1, <1>2, <1>5, UnionCounts
    <3>2. QED
      BY <1>1, <2>1, <3>1
  <2>2. QED
    BY <1>3, <1>4, <2>1
<1>7. QED
  BY <1>3, <1>6, FS_CardinalityType DEF e

LEMMA DueTyped ==
    ASSUME Typed, NEW j \in Jobs
    PROVE  /\ Due(j) \in [Workers -> 0 .. MaxRetries + 1]
           /\ queue[j] \in [Tries -> Nat] /\ extra[j] \in Nat /\ redelivered[j] \in Nat
           /\ runs[j] \in Nat /\ ToLaunch(j) \in Nat
<1>1. ASSUME NEW w \in Workers
      PROVE  DueOf(attempt[w], j) \in 0 .. MaxRetries + 1
  <2>1. attempt[w].retries \in 0 .. MaxRetries
    BY TypedFacts DEF Tries
  <2>2. QED
    BY <2>1 DEF DueOf
<1>2. QED
  BY <1>1 DEF Due, ToLaunch, Typed, TypeOK

\* What a step may cost a job: it gains g tickets for messages and d for attempts, and what
\* it gains or runs is paid for by tickets of the launch or by a delivery more (e beside the
\* owner, x given back).
Posts(j, g) ==
    \/ queue'[j] = queue[j] /\ g = 0
    \/ \E r \in Tries : queue'[j] = [queue[j] EXCEPT ![r] = @ + 1] /\ g = MaxRetries + 1 - r
    \/ \E r \in Tries : queue[j] = [queue'[j] EXCEPT ![r] = @ + 1] /\ g = r - (MaxRetries + 1)

Moves(j, d) ==
    \/ Due(j)' = Due(j) /\ d = 0
    \/ \E w \in Workers, k \in 0 .. MaxRetries + 1 :
           Due(j)' = [Due(j) EXCEPT ![w] = k] /\ d = Due(j)[w] - k

Costs(j, g, d, e, x) ==
    /\ Posts(j, g) /\ Moves(j, d)
    /\ extra'[j] = extra[j] + e /\ redelivered'[j] = redelivered[j] + x
    /\ runs'[j] - runs[j] + g + d + ToLaunch(j)' - ToLaunch(j) <= (IF e = 1 THEN MaxRetries + 1 ELSE 0) + x

LEMMA PaidUpdate ==
    ASSUME Typed, Typed', NEW j \in Jobs, Paid(j),
           NEW g \in Int, NEW d \in Int, NEW e \in {0, 1}, NEW x \in {0, 1}, Costs(j, g, d, e, x)
    PROVE  Paid(j)'
<1> DEFINE m == Cardinality(Messages(queue[j]))
           s == Cardinality(Shares(Due(j)))
<1>0. IsFiniteSet(Messages(queue[j])) /\ IsFiniteSet(Shares(Due(j)))
  BY DEF Paid
<1>1. /\ Due(j) \in [Workers -> 0 .. MaxRetries + 1] /\ queue[j] \in [Tries -> Nat]
      /\ extra[j] \in Nat /\ redelivered[j] \in Nat /\ runs[j] \in Nat /\ ToLaunch(j) \in Nat
  BY DueTyped
<1>2. PICK q, due, runs2, launch2 :
          /\ q = queue'[j] /\ due = Due(j)' /\ runs2 = runs'[j] /\ launch2 = ToLaunch(j)'
  OBVIOUS
<1>3. q \in [Tries -> Nat] /\ runs2 \in Nat /\ launch2 \in Nat
  BY <1>2 DEF Typed, TypeOK, ToLaunch
<1>4. IsFiniteSet(Messages(q)) /\ m \in Nat /\ Cardinality(Messages(q)) = m + g
  <2>1. CASE q = queue[j] /\ g = 0
    BY <1>0, <2>1, FS_CardinalityType
  <2>2. ASSUME NEW r \in Tries, q = [queue[j] EXCEPT ![r] = @ + 1], g = MaxRetries + 1 - r
        PROVE  IsFiniteSet(Messages(q)) /\ m \in Nat /\ Cardinality(Messages(q)) = m + g
    BY <1>0, <1>1, <1>3, <2>2, MessageMore
  <2>3. ASSUME NEW r \in Tries, queue[j] = [q EXCEPT ![r] = @ + 1], g = r - (MaxRetries + 1)
        PROVE  IsFiniteSet(Messages(q)) /\ m \in Nat /\ Cardinality(Messages(q)) = m + g
    <3>1. /\ IsFiniteSet(Messages(q)) /\ Cardinality(Messages(q)) \in Nat
          /\ m = Cardinality(Messages(q)) + (MaxRetries + 1 - r)
      <4>1. PICK p : p = queue[j]
        OBVIOUS
      <4>2. p \in [Tries -> Nat] /\ p = [q EXCEPT ![r] = @ + 1] /\ IsFiniteSet(Messages(p))
        BY <1>0, <1>1, <2>3, <4>1
      <4>3. /\ IsFiniteSet(Messages(q)) /\ Cardinality(Messages(q)) \in Nat
            /\ Cardinality(Messages(p)) = Cardinality(Messages(q)) + (MaxRetries + 1 - r)
        BY <1>3, <4>2, MessageMore
      <4>4. QED
        BY <4>1, <4>3
    <3>2. r \in Nat /\ r <= MaxRetries
      BY DEF Tries
    <3>3. QED
      BY <2>3, <3>1, <3>2
  <2>4. QED
    BY <1>2, <2>1, <2>2, <2>3 DEF Costs, Posts
<1>5. IsFiniteSet(Shares(due)) /\ s \in Nat /\ Cardinality(Shares(due)) = s + d
  <2>1. CASE due = Due(j) /\ d = 0
    BY <1>0, <2>1, FS_CardinalityType
  <2>2. ASSUME NEW w \in Workers, NEW k \in 0 .. MaxRetries + 1,
               due = [Due(j) EXCEPT ![w] = k], d = Due(j)[w] - k
        PROVE  IsFiniteSet(Shares(due)) /\ s \in Nat /\ Cardinality(Shares(due)) = s + d
    BY <1>0, <1>1, <2>2, ShareMoved
  <2>3. QED
    BY <1>2, <2>1, <2>2 DEF Costs, Moves
<1>6. PICK b : b = (MaxRetries + 1) * (1 + extra[j])
  OBVIOUS
<1>7. b \in Int /\ (MaxRetries + 1) * (1 + extra'[j]) = b + (IF e = 1 THEN MaxRetries + 1 ELSE 0)
  <2>1. CASE e = 0
    BY <1>1, <1>6, <2>1 DEF Costs
  <2>2. CASE e = 1
    BY <1>1, <1>6, <2>2 DEF Costs
  <2>3. QED
    BY <2>1, <2>2
<1>8. runs[j] + m + s + ToLaunch(j) <= b + redelivered[j]
  BY <1>6 DEF Paid
<1> HIDE DEF m, s
<1>9. runs2 + (m + g) + (s + d) + launch2 <= b + (IF e = 1 THEN MaxRetries + 1 ELSE 0) + (redelivered[j] + x)
  BY <1>1, <1>2, <1>3, <1>4, <1>5, <1>7, <1>8 DEF Costs
<1>10. QED
  BY <1>2, <1>4, <1>5, <1>7, <1>9 DEF Paid, Costs

\* The launching and the cancelling request, and the broker, of any job.
LEMMA PaidRequests ==
    ASSUME Typed, Typed', NEW j \in Jobs, Paid(j), NEW i \in Jobs,
           CreateJob(i) \/ LaunchStep(i) \/ ReadForCancel(i) \/ SaveCancelRequest(i)
             \/ WebCrash(i) \/ AmbiguousDispatch(i)
    PROVE  Paid(j)'
<1>0. /\ queue \in [Jobs -> [Tries -> Nat]] /\ launch \in [Jobs -> Launch] /\ extra \in [Jobs -> Nat]
      /\ redelivered \in [Jobs -> Nat] /\ runs \in [Jobs -> Nat] /\ 0 \in Tries
  BY TriesFacts DEF Typed, TypeOK
<1>1. attempt' = attempt /\ runs' = runs /\ redelivered' = redelivered
  BY DEF CreateJob, LaunchStep, Dispatch, DispatchRefused, MarkDispatchFailed, AnswerLaunch,
     ReadForCancel, SaveCancelRequest, WebCrash, AmbiguousDispatch, history
<1>2. Due(j)' = Due(j)
  BY <1>1 DEF Due
<1>3. ToLaunch(j)' <= ToLaunch(j) /\ ToLaunch(j)' \in Nat /\ ToLaunch(j) \in Nat
  BY <1>0 DEF CreateJob, LaunchStep, Dispatch, DispatchRefused, MarkDispatchFailed, AnswerLaunch,
     ReadForCancel, SaveCancelRequest, WebCrash, AmbiguousDispatch, ToLaunch
<1>4. CASE queue'[j] = queue[j] /\ extra'[j] = extra[j]
  <2>1. Costs(j, 0, 0, 0, 0)
    BY <1>0, <1>1, <1>2, <1>3, <1>4 DEF Costs, Posts, Moves
  <2>2. QED
    BY <2>1, PaidUpdate
<1>5. CASE Dispatch(i) /\ i = j
  <2>1. queue'[j] = [queue[j] EXCEPT ![0] = @ + 1] /\ extra'[j] = extra[j]
    BY <1>0, <1>5 DEF Dispatch, history
  <2>2. ToLaunch(j)' = 0 /\ ToLaunch(j) = MaxRetries + 1
    BY <1>0, <1>5 DEF Dispatch, ToLaunch
  <2>3. QED
    <3>1. Costs(j, MaxRetries + 1, 0, 0, 0)
      <4>1. Posts(j, MaxRetries + 1) /\ Moves(j, 0)
        <5>1. MaxRetries + 1 = MaxRetries + 1 - 0 /\ 0 \in Tries
          BY <1>0
        <5>2. QED
          BY <1>2, <2>1, <5>1 DEF Posts, Moves
      <4>2. QED
        BY <1>0, <1>1, <2>1, <2>2, <4>1 DEF Costs
    <3>2. QED
      BY <3>1, PaidUpdate
<1>6. CASE AmbiguousDispatch(i) /\ i = j
  <2>1. queue'[j] = [queue[j] EXCEPT ![0] = @ + 1] /\ extra'[j] = extra[j] + 1
    BY <1>0, <1>6 DEF AmbiguousDispatch
  <2>2. QED
    <3>1. Costs(j, MaxRetries + 1, 0, 1, 0)
      <4>1. Posts(j, MaxRetries + 1) /\ Moves(j, 0)
        <5>1. MaxRetries + 1 = MaxRetries + 1 - 0 /\ 0 \in Tries
          BY <1>0
        <5>2. QED
          BY <1>2, <2>1, <5>1 DEF Posts, Moves
      <4>2. QED
        BY <1>0, <1>1, <1>3, <2>1, <4>1 DEF Costs
    <3>2. QED
      BY <3>1, PaidUpdate
<1>7. QED
  BY <1>0, <1>4, <1>5, <1>6 DEF CreateJob, LaunchStep, Dispatch, DispatchRefused, MarkDispatchFailed,
     AnswerLaunch, ReadForCancel, SaveCancelRequest, WebCrash, AmbiguousDispatch, history

\* A step that changes one attempt.
LEMMA DueMoves ==
    ASSUME Typed, Typed', NEW j \in Jobs, NEW w \in Workers,
           \A v \in Workers : v # w => attempt'[v] = attempt[v]
    PROVE  /\ DueOf(attempt'[w], j) \in 0 .. MaxRetries + 1
           /\ Due(j)' = [Due(j) EXCEPT ![w] = DueOf(attempt'[w], j)]
           /\ Due(j)[w] = DueOf(attempt[w], j) /\ Due(j)[w] \in 0 .. MaxRetries + 1
<1>1. PICK a : a = attempt'
  OBVIOUS
<1>2. Due(j)' = [v \in Workers |-> DueOf(a[v], j)]
  BY <1>1 DEF Due
<1>3. a[w].retries \in 0 .. MaxRetries
  BY <1>1 DEF Typed, TypeOK, Attempt, Tries
<1>4. DueOf(a[w], j) \in 0 .. MaxRetries + 1
  BY <1>3 DEF DueOf
<1>5. [Due(j) EXCEPT ![w] = DueOf(a[w], j)] = [v \in Workers |-> DueOf(a[v], j)]
  BY <1>1 DEF Due
<1>6. Due(j)[w] = DueOf(attempt[w], j) /\ Due(j)[w] \in 0 .. MaxRetries + 1
  BY DueTyped DEF Due
<1>7. QED
  BY <1>1, <1>2, <1>4, <1>5, <1>6

LEMMA PaidReceive ==
    ASSUME Typed, Typed', NEW j \in Jobs, Paid(j), NEW w \in Workers, NEW i \in Jobs, NEW r \in Tries,
           Receive(w, i, r)
    PROVE  Paid(j)'
<1>0. /\ queue \in [Jobs -> [Tries -> Nat]] /\ attempt \in [Workers -> Attempt]
      /\ extra[j] \in Nat /\ redelivered[j] \in Nat /\ runs[j] \in Nat /\ ToLaunch(j) \in Nat
      /\ r \in 0 .. MaxRetries
  BY DueTyped DEF Typed, TypeOK, Tries
<1>1. /\ UNCHANGED <<runs, extra, redelivered>> /\ ToLaunch(j)' = ToLaunch(j)
      /\ \A v \in Workers : v # w => attempt'[v] = attempt[v]
      /\ attempt'[w].job = i /\ attempt'[w].pc = "start" /\ attempt'[w].retries = r
      /\ attempt[w].pc = "idle"
  BY <1>0 DEF Receive, history, ToLaunch, Idle
<1>2. PICK k : k = DueOf(attempt'[w], j)
  OBVIOUS
<1>3. k \in 0 .. MaxRetries + 1 /\ Due(j)' = [Due(j) EXCEPT ![w] = k] /\ Due(j)[w] = MaxRetries + 1
  BY <1>1, <1>2, DueMoves DEF DueOf
<1>4. CASE i = j
  <2>1. k = r
    BY <1>1, <1>2, <1>4 DEF DueOf
  <2>2. queue[j] = [queue'[j] EXCEPT ![r] = @ + 1]
    <3>1. queue[j][r] > 0 /\ queue[j][r] \in Nat /\ queue'[j] = [queue[j] EXCEPT ![r] = queue[j][r] - 1]
      BY <1>0, <1>4 DEF Receive
    <3>2. PICK q : q = queue'[j]
      OBVIOUS
    <3>3. q = [queue[j] EXCEPT ![r] = queue[j][r] - 1] /\ queue[j] \in [Tries -> Nat]
      BY <1>0, <3>1, <3>2
    <3>4. queue[j] = [q EXCEPT ![r] = q[r] + 1]
      BY <3>1, <3>3
    <3>5. QED
      BY <3>2, <3>4
  <2>3. QED
    <3>1. Costs(j, r - (MaxRetries + 1), MaxRetries + 1 - r, 0, 0)
      <4>1. Posts(j, r - (MaxRetries + 1))
        BY <2>2 DEF Posts
      <4>2. Moves(j, MaxRetries + 1 - r)
        <5>1. /\ Due(j)' = [Due(j) EXCEPT ![w] = k] /\ k \in 0 .. MaxRetries + 1
              /\ MaxRetries + 1 - r = Due(j)[w] - k
          BY <1>3, <2>1
        <5>2. QED
          BY <5>1 DEF Moves
      <4>3. QED
        BY <1>0, <1>1, <4>1, <4>2 DEF Costs
    <3>2. r - (MaxRetries + 1) \in Int /\ MaxRetries + 1 - r \in Int
      BY <1>0
    <3>3. QED
      BY <3>1, <3>2, PaidUpdate
<1>5. CASE i # j
  <2>1. k = MaxRetries + 1 /\ queue'[j] = queue[j]
    BY <1>0, <1>1, <1>2, <1>5 DEF DueOf, Receive
  <2>2. QED
    <3>1. Costs(j, 0, 0, 0, 0)
      <4>1. Posts(j, 0)
        BY <2>1 DEF Posts
      <4>2. Moves(j, 0)
        <5>1. Due(j)' = [Due(j) EXCEPT ![w] = k] /\ 0 = Due(j)[w] - k
          BY <1>3, <2>1
        <5>2. QED
          BY <1>3, <5>1 DEF Moves
      <4>3. QED
        BY <1>0, <1>1, <4>1, <4>2 DEF Costs
    <3>2. QED
      BY <3>1, PaidUpdate
<1>6. QED
  BY <1>4, <1>5

\* A worker's step costs what the tickets it gives up are worth.
LEMMA PaidWorker ==
    ASSUME Typed, Typed', NEW j \in Jobs, Paid(j), NEW w \in Workers, WorkerAction(w)
    PROVE  Paid(j)'
<1> DEFINE a == attempt[w]
           b == attempt'[w]
<1>0. /\ attempt \in [Workers -> Attempt] /\ queue \in [Jobs -> [Tries -> Nat]]
      /\ extra \in [Jobs -> Nat] /\ redelivered \in [Jobs -> Nat] /\ runs \in [Jobs -> Nat]
      /\ ToLaunch(j) \in Nat /\ a \in Attempt
  BY DueTyped DEF Typed, TypeOK
<1>1. a.pc # "idle" /\ a.job \in Jobs /\ a.retries \in 0 .. MaxRetries /\ a.retries \in Tries
  BY BusyFacts, TypedFacts DEF Tries
<1>2. /\ \A v \in Workers : v # w => attempt'[v] = attempt[v]
      /\ launch' = launch
  <2>1. CASE WorkerStep(w)
    BY <1>1, <2>1, WorkerEffect
  <2>2. CASE WorkerCrash(w) \/ VisibilityTimeout(w) \/ OutcomeLost(w)
    BY <1>0, <2>2 DEF WorkerCrash, VisibilityTimeout, OutcomeLost, Goto, SaveAttempt
  <2>3. QED
    BY <2>1, <2>2 DEF WorkerAction
<1>3. ToLaunch(j)' = ToLaunch(j)
  BY <1>2 DEF ToLaunch
<1>4. PICK k, o : k = DueOf(b, j) /\ o = DueOf(a, j)
  OBVIOUS
<1>5. /\ k \in 0 .. MaxRetries + 1 /\ o \in 0 .. MaxRetries + 1
      /\ Moves(j, o - k) /\ o - k \in Int
  <2>1. /\ k \in 0 .. MaxRetries + 1 /\ o \in 0 .. MaxRetries + 1
        /\ Due(j)' = [Due(j) EXCEPT ![w] = k] /\ o - k = Due(j)[w] - k
    BY <1>2, <1>4, DueMoves
  <2>2. PICK d : d = o - k
    OBVIOUS
  <2>3. d \in Int
    BY <2>1, <2>2
  <2>4. Moves(j, d)
    <3>1. Due(j)' = [Due(j) EXCEPT ![w] = k] /\ d = Due(j)[w] - k /\ k \in 0 .. MaxRetries + 1
      BY <2>1, <2>2
    <3>2. QED
      BY <3>1 DEF Moves
  <2>5. QED
    BY <2>1, <2>2, <2>3, <2>4
<1>6. CASE a.job # j /\ (b.job = a.job \/ b.pc = "idle") /\ UNCHANGED <<queue[j], extra[j], redelivered[j], runs[j]>>
  <2>1. k = MaxRetries + 1 /\ o = MaxRetries + 1
    BY <1>4, <1>6 DEF DueOf
  <2>2. Costs(j, 0, o - k, 0, 0)
    BY <1>0, <1>3, <1>5, <1>6, <2>1 DEF Costs, Posts
  <2>3. QED
    BY <1>5, <2>2, PaidUpdate
<1>7. CASE MarkRunning(w)
  <2>1. /\ b.job = a.job /\ b.pc = "check" /\ b.retries = a.retries /\ a.pc = "start"
        /\ UNCHANGED <<queue, extra, redelivered>> /\ runs' = [runs EXCEPT ![a.job] = @ + 1]
    BY <1>0, <1>7 DEF MarkRunning, SaveAttempt, Attempt
  <2>2. CASE a.job = j
    <3>1. k = o + 1 /\ runs'[j] = runs[j] + 1
      BY <1>0, <1>1, <1>4, <2>1, <2>2 DEF DueOf
    <3>2. Costs(j, 0, o - k, 0, 0)
      BY <1>0, <1>3, <1>5, <2>1, <3>1 DEF Costs, Posts
    <3>3. QED
      BY <1>5, <3>2, PaidUpdate
  <2>3. QED
    BY <1>0, <1>1, <1>6, <2>1, <2>2
<1>8. CASE PublishRetry(w)
  <2>1. /\ b.job = a.job /\ b.pc = "ack" /\ a.pc = "publish" /\ a.retries + 1 \in Tries
        /\ UNCHANGED <<extra, redelivered, runs>>
        /\ queue' = [queue EXCEPT ![a.job][a.retries + 1] = @ + 1]
    BY <1>0, <1>8, TypedFacts, GotoFacts, NameFacts DEF PublishRetry, history
  <2>2. CASE a.job = j
    <3>1. k = MaxRetries + 1 /\ o = a.retries + 1
      BY <1>4, <2>1, <2>2 DEF DueOf
    <3>2. queue'[j] = [queue[j] EXCEPT ![a.retries + 1] = @ + 1]
      BY <1>0, <2>1, <2>2
    <3>3. Posts(j, k - o)
      <4>1. PICK r, g : r = a.retries + 1 /\ g = k - o
        OBVIOUS
      <4>2. r \in Tries /\ queue'[j] = [queue[j] EXCEPT ![r] = @ + 1]
        BY <2>1, <3>2, <4>1
      <4>3. g = MaxRetries + 1 - r
        BY <3>1, <4>1
      <4>4. QED
        BY <4>1, <4>2, <4>3 DEF Posts
    <3>4. Costs(j, k - o, o - k, 0, 0)
      BY <1>0, <1>3, <1>5, <2>1, <3>3 DEF Costs
    <3>5. QED
      BY <1>5, <3>4, PaidUpdate
  <2>3. QED
    BY <1>0, <1>6, <2>1, <2>2
<1>9. ASSUME UNCHANGED <<queue, extra, redelivered, runs>>,
             \/ b.job = a.job /\ b.pc # "start" /\ b.retries = a.retries /\ b.pc # "idle"
             \/ b.pc = "idle",
             a.pc \notin {"start", "ack"} \/ b.pc \in {"idle", "ack"}
      PROVE  Paid(j)'
  <2>1. o <= k
    <3>1. CASE k = MaxRetries + 1
      BY <1>5, <3>1
    <3>2. CASE k # MaxRetries + 1
      <4>1. b.job = j /\ b.pc \notin {"idle", "ack"}
        BY <1>4, <3>2 DEF DueOf
      <4>2. b.pc # "start" /\ a.job = j /\ a.pc \notin {"start", "ack"} /\ b.retries = a.retries
        BY <1>9, <4>1
      <4>3. k = a.retries + 1
        BY <1>4, <4>1, <4>2 DEF DueOf
      <4>4. QED
        BY <1>1, <1>4, <4>2, <4>3 DEF DueOf
    <3>3. QED
      BY <3>1, <3>2
  <2>2. Costs(j, 0, o - k, 0, 0)
    BY <1>0, <1>3, <1>5, <1>9, <2>1 DEF Costs, Posts
  <2>3. QED
    BY <1>5, <2>2, PaidUpdate
<1>10. CASE WorkerStep(w) /\ ~MarkRunning(w) /\ ~PublishRetry(w)
  <2>1. UNCHANGED <<queue, extra, redelivered, runs>>
    BY <1>10 DEF WorkerStep, CheckForCancellation, SaveProgress, Raise, MarkCancelled, MarkRetry,
       MarkFailed, MarkSucceeded, Acknowledge, history
  <2>2. CASE Acknowledge(w)
    BY <1>0, <1>9, <2>1, <2>2 DEF Acknowledge, Idle
  <2>3. CASE SaveProgress(w)
    <3>1. b.pc = "work" /\ b.job = a.job /\ b.retries = a.retries /\ a.pc = "save"
      BY <1>0, <2>3 DEF SaveProgress, SaveAttempt, Attempt
    <3>2. QED
      BY <1>9, <2>1, <3>1
  <2>4. CASE ~Acknowledge(w) /\ ~SaveProgress(w)
    <3>1. PICK pc \in Pcs : Goto(w, pc) /\ pc \notin {"idle", "start"} /\ a.pc \notin {"start", "ack"}
      BY <1>10, <2>4, NameFacts DEF WorkerStep, CheckForCancellation, Raise, MarkCancelled, MarkRetry,
         MarkFailed, MarkSucceeded
    <3>2. QED
      BY <1>0, <1>9, <2>1, <3>1, GotoFacts
  <2>5. QED
    BY <2>2, <2>3, <2>4
<1>11. CASE OutcomeLost(w)
  <2>1. b.pc = "ack" /\ b.job = a.job /\ b.retries = a.retries
    BY <1>0, <1>11, NameFacts, GotoFacts DEF OutcomeLost
  <2>2. QED
    BY <1>9, <1>11, <2>1 DEF OutcomeLost
<1>12. CASE VisibilityTimeout(w)
  <2>1. /\ b.pc = a.pc /\ b.job = a.job /\ b.retries = a.retries
        /\ queue' = [queue EXCEPT ![a.job][a.retries] = @ + 1]
        /\ extra' = [extra EXCEPT ![a.job] = @ + 1] /\ UNCHANGED <<redelivered, runs>>
    BY <1>0, <1>12 DEF VisibilityTimeout, Attempt
  <2>2. CASE a.job = j
    <3>1. k = o /\ queue'[j] = [queue[j] EXCEPT ![a.retries] = @ + 1] /\ extra'[j] = extra[j] + 1
      BY <1>0, <1>4, <2>1, <2>2 DEF DueOf
    <3>2. Posts(j, MaxRetries + 1 - a.retries) /\ MaxRetries + 1 - a.retries \in Int
      <4>1. PICK r : r = a.retries
        OBVIOUS
      <4>2. Posts(j, MaxRetries + 1 - r)
        BY <1>1, <3>1, <4>1 DEF Posts
      <4>3. QED
        BY <1>1, <4>1, <4>2
    <3>3. Costs(j, MaxRetries + 1 - a.retries, o - k, 1, 0)
      BY <1>0, <1>1, <1>3, <1>5, <2>1, <3>1, <3>2 DEF Costs
    <3>4. QED
      BY <1>5, <3>2, <3>3, PaidUpdate
  <2>3. QED
    BY <1>0, <1>6, <2>1, <2>2
<1>13. CASE WorkerCrash(w)
  <2>1. b.pc = "idle" /\ b.job = NoJob /\ UNCHANGED runs
    BY <1>0, <1>13 DEF WorkerCrash, Idle
  <2>2. k = MaxRetries + 1
    BY <1>4, <2>1 DEF DueOf
  <2>3. CASE UNCHANGED <<queue, extra, redelivered>>
    BY <1>9, <2>1, <2>3
  <2>4. ASSUME a.held, queue' = [queue EXCEPT ![a.job][a.retries] = @ + 1],
               \/ a.pc # "ack" /\ redelivered' = [redelivered EXCEPT ![a.job] = @ + 1] /\ extra' = extra
               \/ a.pc = "ack" /\ extra' = [extra EXCEPT ![a.job] = @ + 1] /\ redelivered' = redelivered
        PROVE  Paid(j)'
    <3>1. CASE a.job = j
      <4>1. queue'[j] = [queue[j] EXCEPT ![a.retries] = @ + 1]
        BY <1>0, <2>4, <3>1
      <4>2. Posts(j, MaxRetries + 1 - a.retries) /\ MaxRetries + 1 - a.retries \in Int
        <5>1. PICK r : r = a.retries
          OBVIOUS
        <5>2. Posts(j, MaxRetries + 1 - r)
          BY <1>1, <4>1, <5>1 DEF Posts
        <5>3. QED
          BY <1>1, <5>1, <5>2
      <4>3. CASE a.pc # "ack"
        <5>1. o <= a.retries + 1 /\ redelivered'[j] = redelivered[j] + 1 /\ extra' = extra
          BY <1>0, <1>1, <1>4, <2>4, <3>1, <4>3 DEF DueOf
        <5>2. Costs(j, MaxRetries + 1 - a.retries, o - k, 0, 1)
          BY <1>0, <1>1, <1>3, <1>5, <2>1, <2>2, <4>2, <5>1 DEF Costs
        <5>3. QED
          BY <1>5, <4>2, <5>2, PaidUpdate
      <4>4. CASE a.pc = "ack"
        <5>1. o = MaxRetries + 1 /\ extra'[j] = extra[j] + 1 /\ redelivered' = redelivered
          BY <1>0, <1>4, <2>4, <3>1, <4>4 DEF DueOf
        <5>2. Costs(j, MaxRetries + 1 - a.retries, o - k, 1, 0)
          BY <1>0, <1>1, <1>3, <1>5, <2>1, <2>2, <4>2, <5>1 DEF Costs
        <5>3. QED
          BY <1>5, <4>2, <5>2, PaidUpdate
      <4>5. QED
        BY <4>3, <4>4
    <3>2. QED
      BY <1>0, <1>6, <2>1, <2>4, <3>1
  <2>5. QED
    BY <1>13, <2>3, <2>4 DEF WorkerCrash
<1>14. QED
  BY <1>7, <1>8, <1>10, <1>11, <1>12, <1>13 DEF WorkerAction

PaidInv == Typed /\ \A j \in Jobs : Paid(j)

LEMMA PaidStart == Init => PaidInv
<1> SUFFICES ASSUME Init, NEW j \in Jobs
             PROVE  Paid(j)
  BY TypedInit DEF PaidInv
<1>1. Messages(queue[j]) = {}
  BY DEF Init, Messages
<1>2. Due(j) = [w \in Workers |-> MaxRetries + 1]
  BY DEF Init, Due, DueOf, Idle
<1>3. Shares(Due(j)) = {}
  BY <1>2 DEF Shares, Tries
<1>4. IsFiniteSet({}) /\ Cardinality({}) = 0
  BY FS_EmptySet
<1>5. runs[j] = 0 /\ extra[j] = 0 /\ redelivered[j] = 0 /\ ToLaunch(j) = MaxRetries + 1
  BY DEF Init, ToLaunch
<1>6. QED
  BY <1>1, <1>3, <1>4, <1>5 DEF Paid

LEMMA PaidStep == PaidInv /\ [Next]_vars => PaidInv'
<1> SUFFICES ASSUME PaidInv, [Next]_vars
             PROVE  PaidInv'
  OBVIOUS
<1>1. Typed /\ Typed'
  BY TypedStep DEF PaidInv
<1>2. ASSUME NEW j \in Jobs
      PROVE  Paid(j)'
  <2>0. Paid(j)
    BY DEF PaidInv
  <2>1. CASE UNCHANGED vars
    <3>1. Due(j)' = Due(j) /\ ToLaunch(j)' = ToLaunch(j)
      BY <2>1 DEF vars, Due, ToLaunch
    <3>2. QED
      BY <2>0, <2>1, <3>1 DEF Paid, vars
  <2>2. CASE Next
    <3>1. CASE \E i \in Jobs : \/ CreateJob(i) \/ LaunchStep(i) \/ ReadForCancel(i)
                              \/ SaveCancelRequest(i) \/ WebCrash(i) \/ AmbiguousDispatch(i)
      BY <1>1, <2>0, <3>1, PaidRequests
    <3>2. CASE \E w \in Workers, i \in Jobs, r \in Tries : Receive(w, i, r)
      BY <1>1, <2>0, <3>2, PaidReceive
    <3>3. CASE \E w \in Workers : WorkerAction(w)
      BY <1>1, <2>0, <3>3, PaidWorker
    <3>4. QED
      BY <2>2, <3>1, <3>2, <3>3 DEF Next, Fault, WorkerAction
  <2>3. QED
    BY <2>1, <2>2
<1>3. QED
  BY <1>1, <1>2 DEF PaidInv

\* A job runs at most once for every retry of the message it was launched with and of each
\* delivery beside it, and once more for every worker that died at work on it.
THEOREM RunsBounded == Spec => []BoundedRuns
<1>1. PaidInv => BoundedRuns
  <2> SUFFICES ASSUME PaidInv, NEW j \in Jobs
               PROVE  runs[j] <= (MaxRetries + 1) * (1 + extra[j]) + redelivered[j]
    BY DEF BoundedRuns
  <2>1. /\ runs[j] \in Nat /\ extra[j] \in Nat /\ redelivered[j] \in Nat /\ ToLaunch(j) \in Nat
    BY DueTyped DEF PaidInv
  <2>2. /\ Cardinality(Messages(queue[j])) \in Nat /\ Cardinality(Shares(Due(j))) \in Nat
    BY FS_CardinalityType DEF PaidInv, Paid
  <2>3. PICK b : b = (MaxRetries + 1) * (1 + extra[j])
    OBVIOUS
  <2>4. b \in Int
    BY <2>1, <2>3
  <2>5. runs[j] + Cardinality(Messages(queue[j])) + Cardinality(Shares(Due(j))) + ToLaunch(j)
           <= b + redelivered[j]
    BY <2>3 DEF PaidInv, Paid
  <2>6. QED
    BY <2>1, <2>2, <2>3, <2>4, <2>5
<1>2. QED
  BY <1>1, PaidStart, PaidStep, PTL DEF Spec


=============================================================================
