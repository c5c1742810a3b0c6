------------------------ MODULE JobLifecycle_proofs ------------------------
(***************************************************************************)
(* Theorems about JobLifecycle, for every number of jobs, workers, retries *)
(* and steps, and for every set and number of faults.                      *)
(***************************************************************************)
EXTENDS JobLifecycle, TLAPS

USE NoJobAssumption, BoundsAssumption

-----------------------------------------------------------------------------
(* Type correctness.                                                        *)

\* Facts about busy workers that the types of row and queue rest on: a busy
\* worker has a job, and it retries only while retries are left.
WorkerOK ==
    \A w \in Workers :
        /\ attempt[w].pc # "idle" => attempt[w].job \in Jobs
        /\ attempt[w].pc \in {"retrying", "publish"} => attempt[w].retries < MaxRetries
        /\ attempt[w].pc = "save" => attempt[w].step < Steps

Typed == TypeOK /\ WorkerOK

LEMMA TriesFacts == 0 \in Tries /\ Tries \subseteq Nat /\ 0 \in 0 .. Steps
                    /\ 0 \in 0 .. Full /\ Full \in 0 .. Full
BY DEF Tries, Full

LEMMA RowFacts == AbsentRow \in Row /\ [AbsentRow EXCEPT !.state = "queued"] \in Row
BY TriesFacts DEF AbsentRow, Row, States, TerminalStates, Errors

LEMMA IdleFacts == Idle \in Attempt
BY TriesFacts DEF Idle, Attempt, Pcs

\* What a save leaves in the table, and what a step leaves in the worker.
LEMMA SaveJobFacts ==
    ASSUME row \in [Jobs -> Row], NEW j \in Jobs, NEW r \in Row, SaveJob(j, r)
    PROVE  /\ row' \in [Jobs -> Row]
           /\ row'[j] = r
           /\ \A k \in Jobs : k # j => row'[k] = row[k]
BY DEF SaveJob

LEMMA SaveAttemptFacts ==
    ASSUME attempt \in [Workers -> Attempt], NEW w \in Workers, NEW a \in Attempt,
           SaveAttempt(w, a)
    PROVE  /\ attempt' \in [Workers -> Attempt]
           /\ attempt'[w] = a
           /\ \A v \in Workers : v # w => attempt'[v] = attempt[v]
BY DEF SaveAttempt

LEMMA GotoFacts ==
    ASSUME attempt \in [Workers -> Attempt], NEW w \in Workers, NEW pc \in Pcs,
           Goto(w, pc)
    PROVE  /\ attempt' \in [Workers -> Attempt]
           /\ attempt'[w] = [attempt[w] EXCEPT !.pc = pc]
           /\ attempt'[w].pc = pc
           /\ attempt'[w].job = attempt[w].job
           /\ attempt'[w].retries = attempt[w].retries
           /\ attempt'[w].step = attempt[w].step
           /\ \A v \in Workers : v # w => attempt'[v] = attempt[v]
<1>1. [attempt[w] EXCEPT !.pc = pc] \in Attempt
  BY DEF Attempt
<1>2. QED
  BY <1>1, SaveAttemptFacts DEF Goto, Attempt

\* The outcomes that are written into a row are rows.
LEMMA OutcomeFacts ==
    ASSUME NEW r \in Row
    PROVE  /\ \A s \in States, e \in Errors, f \in BOOLEAN :
                 /\ [r EXCEPT !.state = s, !.error = e, !.finished = f] \in Row
                 /\ [r EXCEPT !.state = s, !.finished = f, !.error = e] \in Row
                 /\ [r EXCEPT !.state = s, !.progress = Full, !.error = e, !.finished = f] \in Row
                 /\ \A k \in Tries :
                       [r EXCEPT !.state = s, !.error = e, !.retryCount = k, !.finished = f] \in Row
           /\ [r EXCEPT !.cancelRequested = TRUE] \in Row
           /\ \A p \in 0 .. Full : [r EXCEPT !.progress = p] \in Row
BY TriesFacts DEF Row

LEMMA NameFacts ==
    /\ {"absent", "queued", "running", "succeeded", "failed", "cancelled"} \subseteq States
    /\ {"none", "dispatch_failed", "cancelled", "transient", "permanent"} \subseteq Errors
    /\ {"idle", "start", "check", "work", "save", "cancelling", "retrying",
        "publish", "failing", "ack"} \subseteq Pcs
BY DEF States, TerminalStates, Errors, Pcs

LEMMA TypedInit == Init => Typed
BY RowFacts, IdleFacts, TriesFacts
   DEF Init, Typed, TypeOK, WorkerOK, Launch, Idle

\* The actions of the requests leave the workers alone.
LEMMA TypedRequests ==
    ASSUME Typed, NEW j \in Jobs,
           CreateJob(j) \/ LaunchStep(j) \/ ReadForCancel(j) \/ SaveCancelRequest(j)
    PROVE  Typed'
<1> USE DEF Typed, TypeOK, WorkerOK, history
<1>0. row[j] \in Row
  OBVIOUS
<1>1. CASE CreateJob(j)
  BY <1>1, RowFacts DEF CreateJob, Launch
<1>2. CASE Dispatch(j)
  BY <1>2, TriesFacts DEF Dispatch, Launch
<1>3. CASE DispatchRefused(j)
  BY <1>3 DEF DispatchRefused, Launch
<1>4. CASE MarkDispatchFailed(j)
  <2>1. row' \in [Jobs -> Row]
    BY <1>0, <1>4, OutcomeFacts, NameFacts, SaveJobFacts DEF MarkDispatchFailed
  <2>2. QED
    BY <1>4, <2>1 DEF MarkDispatchFailed, Launch
<1>5. CASE AnswerLaunch(j)
  BY <1>5 DEF AnswerLaunch, Launch
<1>6. CASE ReadForCancel(j)
  BY <1>6 DEF ReadForCancel
<1>7. CASE SaveCancelRequest(j)
  <2>1. row' \in [Jobs -> Row]
    BY <1>0, <1>7, OutcomeFacts, SaveJobFacts DEF SaveCancelRequest
  <2>2. QED
    BY <1>7, <2>1 DEF SaveCancelRequest
<1>8. QED
  BY <1>1, <1>2, <1>3, <1>4, <1>5, <1>6, <1>7 DEF LaunchStep

\* What is left to show of a step that changes worker w only.
LEMMA TypedUpdate ==
    ASSUME Typed, NEW w \in Workers,
           row' \in [Jobs -> Row], launch' \in [Jobs -> Launch], cancel' = cancel,
           queue' \in [Jobs -> [Tries -> Nat]], attempt' \in [Workers -> Attempt],
           faults' \in Nat, extra' \in [Jobs -> Nat], redelivered' \in [Jobs -> Nat],
           abandoned' \in SUBSET Jobs,
           runs' \in [Jobs -> Nat],
           \A v \in Workers : v # w => attempt'[v] = attempt[v],
           attempt'[w].pc # "idle" => attempt'[w].job \in Jobs,
           attempt'[w].pc \in {"retrying", "publish"} => attempt'[w].retries < MaxRetries,
           attempt'[w].pc = "save" => attempt'[w].step < Steps
    PROVE  Typed'
<1>1. TypeOK'
  BY DEF Typed, TypeOK
<1>2. WorkerOK'
  BY DEF Typed, WorkerOK
<1>3. QED
  BY <1>1, <1>2 DEF Typed

LEMMA TypedFacts ==
    ASSUME Typed, NEW w \in Workers
    PROVE  /\ row \in [Jobs -> Row] /\ launch \in [Jobs -> Launch]
           /\ queue \in [Jobs -> [Tries -> Nat]] /\ attempt \in [Workers -> Attempt]
           /\ faults \in Nat /\ extra \in [Jobs -> Nat] /\ redelivered \in [Jobs -> Nat]
           /\ abandoned \in SUBSET Jobs /\ runs \in [Jobs -> Nat]
           /\ attempt[w] \in Attempt
           /\ attempt[w].pc \in Pcs /\ attempt[w].retries \in Tries
           /\ attempt[w].pc # "idle" =>
                 attempt[w].job \in Jobs /\ row[attempt[w].job] \in Row
           /\ attempt[w].pc \in {"retrying", "publish"} =>
                 attempt[w].retries < MaxRetries /\ attempt[w].retries + 1 \in Tries
           /\ attempt[w].pc = "save" =>
                 attempt[w].step < Steps /\ attempt[w].step + 1 \in 0 .. Steps
           /\ attempt[w].late \in Nat
<1>1. attempt[w] \in Attempt
  BY DEF Typed, TypeOK
<1>2. /\ attempt[w].pc \in Pcs /\ attempt[w].retries \in Tries
      /\ attempt[w].step \in 0 .. Steps /\ attempt[w].late \in Nat
  BY <1>1 DEF Attempt
<1>3. /\ attempt[w].pc # "idle" => attempt[w].job \in Jobs
      /\ attempt[w].pc \in {"retrying", "publish"} => attempt[w].retries < MaxRetries
      /\ attempt[w].pc = "save" => attempt[w].step < Steps
  BY DEF Typed, WorkerOK
<1>4. /\ attempt[w].pc \in {"retrying", "publish"} => attempt[w].retries + 1 \in Tries
      /\ attempt[w].pc = "save" => attempt[w].step + 1 \in 0 .. Steps
  BY <1>2, <1>3 DEF Tries
<1>5. QED
  BY <1>1, <1>2, <1>3, <1>4 DEF Typed, TypeOK

LEMMA TypedReceive ==
    ASSUME Typed, NEW w \in Workers, NEW j \in Jobs, NEW r \in Tries, Receive(w, j, r)
    PROVE  Typed'
<1> DEFINE a == [Idle EXCEPT !.pc = "start", !.job = j, !.retries = r, !.held = TRUE]
<1>1. a \in Attempt /\ a.pc = "start" /\ a.job = j
  BY IdleFacts, NameFacts DEF Idle, Attempt
<1>2. SaveAttempt(w, a)
  BY DEF Receive, SaveAttempt
<1>3. /\ attempt' \in [Workers -> Attempt] /\ attempt'[w] = a
      /\ \A v \in Workers : v # w => attempt'[v] = attempt[v]
  BY <1>1, <1>2, TypedFacts, SaveAttemptFacts
<1>4. queue' \in [Jobs -> [Tries -> Nat]]
  BY TypedFacts DEF Receive
<1>5. QED
  BY <1>1, <1>3, <1>4, TypedFacts, TypedUpdate DEF Receive, history

LEMMA TypedWorker ==
    ASSUME Typed, NEW w \in Workers, WorkerStep(w)
    PROVE  Typed'
<1> DEFINE a == attempt[w]
<1> DEFINE j == attempt[w].job
<1>0. UNCHANGED <<launch, cancel, faults, extra, redelivered, abandoned>>
  BY DEF WorkerStep, MarkRunning, CheckForCancellation, SaveProgress, Raise, MarkCancelled,
         MarkRetry, PublishRetry, MarkFailed, MarkSucceeded, Acknowledge, history
<1>1. CASE MarkRunning(w)
  <2> DEFINE b == [a EXCEPT !.pc = "check", !.preCancelled = row[j].cancelRequested]
  <2>0. /\ j \in Jobs /\ row[j] \in Row /\ SaveAttempt(w, b)
        /\ runs' = [runs EXCEPT ![j] = @ + 1] /\ queue' = queue
    BY <1>1, TypedFacts DEF MarkRunning
  <2>1. row' \in [Jobs -> Row]
    BY <1>1, <2>0, TypedFacts, OutcomeFacts, NameFacts, SaveJobFacts DEF MarkRunning
  <2>2. b \in Attempt /\ b.pc = "check" /\ b.job = j
    BY <2>0, TypedFacts, NameFacts DEF Attempt, Row
  <2>3. /\ attempt' \in [Workers -> Attempt] /\ attempt'[w] = b
        /\ \A v \in Workers : v # w => attempt'[v] = attempt[v]
    BY <2>0, <2>2, TypedFacts, SaveAttemptFacts
  <2>4. runs' \in [Jobs -> Nat]
    BY <2>0, TypedFacts
  <2>5. QED
    BY <1>0, <2>0, <2>1, <2>2, <2>3, <2>4, TypedFacts, TypedUpdate
<1>2. CASE CheckForCancellation(w)
  <2>1. PICK pc \in {"cancelling", "work", "save"} :
             Goto(w, pc) /\ (pc = "save" => a.step < Steps)
    BY <1>2 DEF CheckForCancellation
  <2>2. a.pc # "idle" /\ UNCHANGED <<row, queue, runs>>
    BY <1>2 DEF CheckForCancellation, history
  <2>3. pc \in Pcs
    BY NameFacts
  <2>4. QED
    BY <1>0, <2>1, <2>2, <2>3, TypedFacts, GotoFacts, TypedUpdate
<1>3. CASE SaveProgress(w)
  <2> DEFINE l == IF row[j].cancelRequested THEN a.late + 1 ELSE a.late
  <2> DEFINE b == [a EXCEPT !.pc = "work", !.step = @ + 1, !.late = l]
  <2>0. /\ a.pc = "save" /\ j \in Jobs /\ row[j] \in Row /\ SaveAttempt(w, b)
        /\ SaveJob(j, [row[j] EXCEPT !.progress = a.step + 1])
        /\ UNCHANGED <<queue, runs>>
    BY <1>3, TypedFacts DEF SaveProgress, history
  <2>1. a.step + 1 \in 0 .. Steps /\ a.step + 1 \in 0 .. Full /\ l \in Nat
    BY <2>0, TypedFacts DEF Full
  <2>2. row' \in [Jobs -> Row]
    BY <2>0, <2>1, TypedFacts, OutcomeFacts, SaveJobFacts
  <2>3. b \in Attempt /\ b.pc = "work" /\ b.job = j
    <3> HIDE DEF l
    <3> QED BY <2>1, TypedFacts, NameFacts DEF Attempt
  <2>4. /\ attempt' \in [Workers -> Attempt] /\ attempt'[w] = b
        /\ \A v \in Workers : v # w => attempt'[v] = attempt[v]
    BY <2>0, <2>3, TypedFacts, SaveAttemptFacts
  <2>5. QED
    BY <1>0, <2>0, <2>2, <2>3, <2>4, TypedFacts, TypedUpdate
<1>4. ASSUME NEW kind \in {"transient", "permanent"}, Raise(w, kind)
      PROVE  Typed'
  <2>1. PICK pc \in {"retrying", "failing"} :
             Goto(w, pc) /\ (pc = "retrying" => a.retries < MaxRetries)
    BY <1>4 DEF Raise
  <2>2. a.pc # "idle" /\ UNCHANGED <<row, queue, runs>>
    BY <1>4 DEF Raise, history
  <2>3. pc \in Pcs
    BY NameFacts
  <2>4. QED
    BY <1>0, <2>1, <2>2, <2>3, TypedFacts, GotoFacts, TypedUpdate
<1>5. ASSUME NEW pc \in {"ack", "publish"}, Goto(w, pc), a.pc # "idle",
             pc = "publish" => a.pc = "retrying",
             row' \in [Jobs -> Row], queue' \in [Jobs -> [Tries -> Nat]], runs' = runs
      PROVE  Typed'
  <2>1. pc \in Pcs
    BY NameFacts
  <2>2. QED
    BY <1>0, <1>5, <2>1, TypedFacts, GotoFacts, TypedUpdate
<1>6. CASE MarkCancelled(w)
  <2>1. row' \in [Jobs -> Row]
    BY <1>6, TypedFacts, OutcomeFacts, NameFacts, SaveJobFacts DEF MarkCancelled
  <2>2. QED
    BY <1>5, <1>6, <2>1, TypedFacts DEF MarkCancelled, history
<1>7. CASE MarkRetry(w)
  <2>1. row' \in [Jobs -> Row]
    BY <1>7, TypedFacts, OutcomeFacts, NameFacts, SaveJobFacts DEF MarkRetry
  <2>2. QED
    BY <1>5, <1>7, <2>1, TypedFacts DEF MarkRetry, history
<1>8. CASE PublishRetry(w)
  <2>1. queue' \in [Jobs -> [Tries -> Nat]]
    BY <1>8, TypedFacts DEF PublishRetry
  <2>2. QED
    BY <1>5, <1>8, <2>1, TypedFacts DEF PublishRetry, history
<1>9. CASE MarkFailed(w)
  <2>1. row' \in [Jobs -> Row]
    BY <1>9, TypedFacts, OutcomeFacts, NameFacts, SaveJobFacts DEF MarkFailed
  <2>2. QED
    BY <1>5, <1>9, <2>1, TypedFacts DEF MarkFailed, history
<1>10. CASE MarkSucceeded(w)
  <2>1. row' \in [Jobs -> Row]
    BY <1>10, TypedFacts, OutcomeFacts, NameFacts, SaveJobFacts DEF MarkSucceeded
  <2>2. QED
    BY <1>5, <1>10, <2>1, TypedFacts DEF MarkSucceeded, history
<1>11. CASE Acknowledge(w)
  <2>1. /\ attempt' \in [Workers -> Attempt] /\ attempt'[w] = Idle
        /\ \A v \in Workers : v # w => attempt'[v] = attempt[v]
    BY <1>11, TypedFacts, IdleFacts DEF Acknowledge
  <2>2. Idle.pc = "idle"
    BY DEF Idle
  <2>3. QED
    BY <1>0, <1>11, <2>1, <2>2, TypedFacts, TypedUpdate DEF Acknowledge, history
<1>12. QED
  BY <1>1, <1>2, <1>3, <1>4, <1>6, <1>7, <1>8, <1>9, <1>10, <1>11 DEF WorkerStep

LEMMA TypedFault ==
    ASSUME Typed, Fault
    PROVE  Typed'
<1>1. ASSUME NEW j \in Jobs, WebCrash(j)
      PROVE  Typed'
  BY <1>1 DEF WebCrash, Launch, Typed, TypeOK, WorkerOK, Strike
<1>2. ASSUME NEW j \in Jobs, AmbiguousDispatch(j)
      PROVE  Typed'
  BY <1>2, TriesFacts DEF AmbiguousDispatch, Launch, Typed, TypeOK, WorkerOK, Strike
<1>3. ASSUME NEW w \in Workers, WorkerCrash(w)
      PROVE  Typed'
  <2>1. /\ attempt' \in [Workers -> Attempt] /\ attempt'[w] = Idle
        /\ \A v \in Workers : v # w => attempt'[v] = attempt[v]
    BY <1>3, TypedFacts, IdleFacts DEF WorkerCrash
  <2>2. Idle.pc = "idle"
    BY DEF Idle
  <2>3. /\ queue' \in [Jobs -> [Tries -> Nat]] /\ extra' \in [Jobs -> Nat]
        /\ redelivered' \in [Jobs -> Nat]
    <3>1. attempt[w].pc # "idle"
      BY <1>3 DEF WorkerCrash
    <3>2. PICK j \in Jobs, r \in Tries : j = attempt[w].job /\ r = attempt[w].retries
      BY <3>1, TypedFacts
    <3>3. CASE attempt[w].held /\ attempt[w].pc # "ack"
      <4>1. /\ queue' = [queue EXCEPT ![j][r] = @ + 1] /\ extra' = extra
            /\ redelivered' = [redelivered EXCEPT ![j] = @ + 1]
        BY <1>3, <3>2, <3>3 DEF WorkerCrash
      <4>2. QED
        BY <4>1, <3>2, TypedFacts
    <3>4. CASE attempt[w].held /\ attempt[w].pc = "ack"
      <4>1. /\ queue' = [queue EXCEPT ![j][r] = @ + 1] /\ redelivered' = redelivered
            /\ extra' = [extra EXCEPT ![j] = @ + 1]
        BY <1>3, <3>2, <3>4 DEF WorkerCrash
      <4>2. QED
        BY <4>1, <3>2, TypedFacts
    <3>5. CASE ~attempt[w].held
      BY <1>3, <3>5, TypedFacts DEF WorkerCrash
    <3>6. QED
      BY <3>3, <3>4, <3>5
  <2>4. abandoned' \in SUBSET Jobs
    BY <1>3, TypedFacts DEF WorkerCrash
  <2>5. faults' \in Nat /\ UNCHANGED <<row, launch, cancel, runs>>
    BY <1>3, TypedFacts DEF WorkerCrash, Strike
  <2>6. QED
    BY <2>1, <2>2, <2>3, <2>4, <2>5, TypedFacts, TypedUpdate
<1>4. ASSUME NEW w \in Workers, VisibilityTimeout(w)
      PROVE  Typed'
  <2> DEFINE b == [attempt[w] EXCEPT !.held = FALSE]
  <2>1. b \in Attempt /\ b.pc = attempt[w].pc /\ b.job = attempt[w].job
        /\ b.retries = attempt[w].retries /\ b.step = attempt[w].step
    BY TypedFacts DEF Attempt
  <2>2. /\ attempt' \in [Workers -> Attempt] /\ attempt'[w] = b
        /\ \A v \in Workers : v # w => attempt'[v] = attempt[v]
    BY <1>4, <2>1, TypedFacts DEF VisibilityTimeout
  <2>3. queue' \in [Jobs -> [Tries -> Nat]] /\ extra' \in [Jobs -> Nat]
    BY <1>4, TypedFacts DEF VisibilityTimeout
  <2>4. faults' \in Nat /\ UNCHANGED <<row, launch, cancel, redelivered, abandoned, runs>>
    BY <1>4, TypedFacts DEF VisibilityTimeout, Strike
  <2>5. QED
    BY <2>1, <2>2, <2>3, <2>4, TypedFacts, TypedUpdate
<1>5. ASSUME NEW w \in Workers, OutcomeLost(w)
      PROVE  Typed'
  <2>1. Goto(w, "ack") /\ "ack" \in Pcs /\ attempt[w].job \in Jobs
    BY <1>5, NameFacts, TypedFacts DEF OutcomeLost
  <2>2. /\ faults' \in Nat /\ abandoned' \in SUBSET Jobs
        /\ UNCHANGED <<row, launch, cancel, queue, extra, redelivered, runs>>
    BY <1>5, <2>1, TypedFacts DEF OutcomeLost, Strike
  <2>3. QED
    BY <2>1, <2>2, TypedFacts, GotoFacts, TypedUpdate
<1>6. QED
  BY <1>1, <1>2, <1>3, <1>4, <1>5 DEF Fault

LEMMA TypedStep == Typed /\ [Next]_vars => Typed'
<1> SUFFICES ASSUME Typed, [Next]_vars
             PROVE  Typed'
  OBVIOUS
<1>1. CASE UNCHANGED vars
  BY <1>1 DEF vars, Typed, TypeOK, WorkerOK
<1>2. CASE Next
  BY <1>2, TypedRequests, TypedReceive, TypedWorker, TypedFault DEF Next
<1>3. QED
  BY <1>1, <1>2

\* Every variable keeps its type, and a retry is only ever under way while the
\* budget of max_retries allows one more.
THEOREM TypeCorrect == Spec => []Typed
BY TypedInit, TypedStep, PTL DEF Spec

\* The type invariant of the specification.
THEOREM TypeInvariant == Spec => []TypeOK
BY TypeCorrect, PTL DEF Typed

-----------------------------------------------------------------------------
(* Ownership: who may still write the outcome of a job.                     *)

\* The inductive form of SingleOwner: it also says that a job whose launch has
\* not reached the broker has no message, and that messages do not pile up.
Solo(j) ==
    extra[j] = 0 =>
      /\ launch[j] \in {"none", "created", "failing"} =>
            (\A r \in Tries : queue[j][r] = 0) /\ (\A w \in Workers : ~Active(w, j))
      /\ \A r \in Tries : queue[j][r] <= 1
      /\ \A r, s \in Tries : queue[j][r] > 0 /\ queue[j][s] > 0 => r = s
      /\ \A r \in Tries, w \in Workers : queue[j][r] > 0 => ~Active(w, j)
      /\ \A v, w \in Workers : Active(v, j) /\ Active(w, j) => v = w
      /\ IsTerminal(row[j]) =>
            /\ launch[j] \notin {"none", "created", "failing"}
            /\ \A r \in Tries : queue[j][r] = 0
            /\ \A w \in Workers : ~Active(w, j)

Owned(j) ==
    row[j].state \in {"queued", "running"} /\ j \notin abandoned
       => LaunchOwns(j) \/ MessageOwns(j) \/ WorkerOwns(j)

\* Everything the ownership argument needs to know of a worker's step.
LEMMA WorkerEffect ==
    ASSUME Typed, NEW w \in Workers, WorkerStep(w),
           NEW j \in Jobs, j = attempt[w].job
    PROVE  /\ UNCHANGED <<launch, extra, abandoned>>
           /\ \A v \in Workers : v # w => attempt'[v] = attempt[v]
           /\ \A k \in Jobs : k # j => row'[k] = row[k] /\ queue'[k] = queue[k]
           /\ \/ /\ attempt[w].pc \notin {"idle", "ack"} /\ queue' = queue
                 /\ attempt'[w].pc \notin {"idle", "ack"} /\ attempt'[w].job = j
                 /\ row'[j].state \in {"queued", "running", row[j].state}
              \/ /\ attempt[w].pc \notin {"idle", "ack"} /\ row' = row
                 /\ attempt'[w].pc = "ack"
                 /\ \E r \in Tries : queue'[j] = [queue[j] EXCEPT ![r] = @ + 1]
              \/ /\ attempt[w].pc \notin {"idle", "ack"} /\ queue' = queue
                 /\ attempt'[w].pc = "ack" /\ IsTerminal(row'[j])
              \/ /\ attempt[w].pc = "ack" /\ attempt'[w].pc = "idle"
                 /\ UNCHANGED <<row, queue>>
<1>0. /\ UNCHANGED <<launch, extra, abandoned>>
      /\ row[j] \in Row /\ attempt[w] \in Attempt
  <2>1. UNCHANGED <<launch, extra, abandoned>>
    BY DEF WorkerStep, MarkRunning, CheckForCancellation, SaveProgress, Raise,
           MarkCancelled, MarkRetry, PublishRetry, MarkFailed, MarkSucceeded,
           Acknowledge, history
  <2>2. QED
    BY <2>1, TypedFacts
<1>a. row \in [Jobs -> Row] /\ attempt \in [Workers -> Attempt]
      /\ queue \in [Jobs -> [Tries -> Nat]]
  BY TypedFacts
<1>1. CASE MarkRunning(w)
  <2>1. /\ row'[j].state = "running" /\ \A k \in Jobs : k # j => row'[k] = row[k]
    BY <1>0, <1>1, <1>a DEF MarkRunning, SaveJob, Row
  <2>2. /\ attempt'[w].pc = "check" /\ attempt'[w].job = j
        /\ \A v \in Workers : v # w => attempt'[v] = attempt[v]
    BY <1>0, <1>1, <1>a DEF MarkRunning, SaveAttempt, Attempt
  <2>3. attempt[w].pc = "start" /\ queue' = queue
    BY <1>1 DEF MarkRunning
  <2>4. QED
    BY <1>0, <2>1, <2>2, <2>3
<1>2. ASSUME NEW pc \in Pcs \ {"idle", "ack"}, Goto(w, pc), UNCHANGED <<row, queue>>,
             attempt[w].pc \notin {"idle", "ack"}
      PROVE  /\ UNCHANGED <<row, queue>> /\ attempt'[w].pc = pc /\ attempt'[w].job = j
             /\ \A v \in Workers : v # w => attempt'[v] = attempt[v]
  BY <1>2, <1>a, GotoFacts
<1>3. CASE CheckForCancellation(w)
  <2>1. PICK pc \in {"cancelling", "work", "save"} : Goto(w, pc)
    BY <1>3 DEF CheckForCancellation
  <2>2. attempt[w].pc \in {"check", "work"} /\ UNCHANGED <<row, queue>>
    BY <1>3 DEF CheckForCancellation
  <2>3. pc \in Pcs \ {"idle", "ack"}
    BY NameFacts
  <2>4. QED
    BY <1>0, <1>2, <2>1, <2>2, <2>3
<1>4. CASE SaveProgress(w)
  <2>1. /\ row'[j].state = row[j].state /\ \A k \in Jobs : k # j => row'[k] = row[k]
    BY <1>0, <1>4, <1>a DEF SaveProgress, SaveJob, Row
  <2>2. /\ attempt'[w].pc = "work" /\ attempt'[w].job = j
        /\ \A v \in Workers : v # w => attempt'[v] = attempt[v]
    BY <1>0, <1>4, <1>a DEF SaveProgress, SaveAttempt, Attempt
  <2>3. attempt[w].pc = "save" /\ queue' = queue
    BY <1>4 DEF SaveProgress
  <2>4. QED
    BY <1>0, <2>1, <2>2, <2>3
<1>5. ASSUME NEW kind \in {"transient", "permanent"}, Raise(w, kind)
      PROVE  \E pc \in {"retrying", "failing"} :
                /\ UNCHANGED <<row, queue>> /\ attempt'[w].pc = pc /\ attempt'[w].job = j
                /\ attempt[w].pc \notin {"idle", "ack"}
                /\ \A v \in Workers : v # w => attempt'[v] = attempt[v]
  <2>1. PICK pc \in {"retrying", "failing"} : Goto(w, pc)
    BY <1>5 DEF Raise
  <2>2. attempt[w].pc \in {"check", "work", "save"} /\ UNCHANGED <<row, queue>>
    BY <1>5 DEF Raise
  <2>3. pc \in Pcs \ {"idle", "ack"}
    BY NameFacts
  <2>4. QED
    BY <1>2, <2>1, <2>2, <2>3
<1>6. CASE MarkRetry(w)
  <2>1. /\ row'[j].state = "queued" /\ \A k \in Jobs : k # j => row'[k] = row[k]
    BY <1>0, <1>6, <1>a DEF MarkRetry, SaveJob, Row
  <2>2. Goto(w, "publish") /\ "publish" \in Pcs
    BY <1>6, NameFacts DEF MarkRetry
  <2>3. attempt[w].pc = "retrying" /\ queue' = queue
    BY <1>6 DEF MarkRetry
  <2>4. QED
    BY <1>0, <1>a, <2>1, <2>2, <2>3, GotoFacts
<1>7. CASE PublishRetry(w)
  <2>1. attempt[w].retries + 1 \in Tries
    BY <1>7, TypedFacts DEF PublishRetry
  <2>2. /\ queue'[j] = [queue[j] EXCEPT ![attempt[w].retries + 1] = @ + 1]
        /\ \A k \in Jobs : k # j => queue'[k] = queue[k]
    BY <1>7, <1>a, <2>1 DEF PublishRetry
  <2>3. Goto(w, "ack") /\ "ack" \in Pcs
    BY <1>7, NameFacts DEF PublishRetry
  <2>4. attempt[w].pc = "publish" /\ row' = row
    BY <1>7 DEF PublishRetry
  <2>5. QED
    BY <1>0, <1>a, <2>1, <2>2, <2>3, <2>4, GotoFacts
<1>8. CASE MarkCancelled(w) \/ MarkFailed(w) \/ MarkSucceeded(w)
  <2>1. /\ IsTerminal(row'[j]) /\ \A k \in Jobs : k # j => row'[k] = row[k]
    <3>1. CASE MarkCancelled(w)
      BY <1>0, <3>1, <1>a DEF MarkCancelled, SaveJob, Row, IsTerminal, TerminalStates
    <3>2. CASE MarkFailed(w)
      BY <1>0, <3>2, <1>a DEF MarkFailed, SaveJob, Row, IsTerminal, TerminalStates
    <3>3. CASE MarkSucceeded(w)
      BY <1>0, <3>3, <1>a DEF MarkSucceeded, SaveJob, Row, IsTerminal, TerminalStates
    <3>4. QED
      BY <1>8, <3>1, <3>2, <3>3
  <2>2. Goto(w, "ack") /\ "ack" \in Pcs
    BY <1>8, NameFacts DEF MarkCancelled, MarkFailed, MarkSucceeded
  <2>3. attempt[w].pc \in {"cancelling", "failing", "work"} /\ queue' = queue
    BY <1>8 DEF MarkCancelled, MarkFailed, MarkSucceeded
  <2>4. QED
    BY <1>0, <1>a, <2>1, <2>2, <2>3, GotoFacts
<1>9. CASE Acknowledge(w)
  BY <1>0, <1>9, <1>a DEF Acknowledge, Idle
<1>10. QED
  BY <1>0, <1>1, <1>3, <1>4, <1>5, <1>6, <1>7, <1>8, <1>9 DEF WorkerStep

\* A step that leaves job k alone, or only takes owners away from it, keeps Solo.
LEMMA SoloFrame ==
    ASSUME NEW k \in Jobs, Solo(k),
           launch'[k] \in {launch[k], "sent", "accepted", "unavailable", "crashed"},
           row'[k].state = row[k].state, queue'[k] = queue[k], extra'[k] = extra[k],
           \A w \in Workers : Active(w, k)' => Active(w, k)
    PROVE  Solo(k)'
BY DEF Solo, IsTerminal

\* A step that takes no owner away from job k keeps Owned.
LEMMA OwnedFrame ==
    ASSUME NEW k \in Jobs, Owned(k), launch'[k] = launch[k],
           row'[k].state = row[k].state, queue'[k] = queue[k],
           k \in abandoned => k \in abandoned',
           \A w \in Workers : Active(w, k) => Active(w, k)'
    PROVE  Owned(k)'
BY DEF Owned, LaunchOwns, MessageOwns, WorkerOwns

OwnInv(k) == Solo(k) /\ Owned(k)

LEMMA OwnFrame ==
    ASSUME NEW k \in Jobs, OwnInv(k), launch'[k] = launch[k],
           row'[k].state = row[k].state, queue'[k] = queue[k], extra'[k] = extra[k],
           k \in abandoned => k \in abandoned',
           \A w \in Workers : Active(w, k)' <=> Active(w, k)
    PROVE  OwnInv(k)'
BY SoloFrame, OwnedFrame DEF OwnInv

LEMMA OwnInit == Init => \A j \in Jobs : OwnInv(j)
<1> SUFFICES ASSUME Init, NEW j \in Jobs
             PROVE  OwnInv(j)
  OBVIOUS
<1>1. row[j].state = "absent"
  BY DEF Init, AbsentRow
<1>2. (\A r \in Tries : queue[j][r] = 0) /\ \A w \in Workers : ~Active(w, j)
  BY DEF Init, Active, Idle
<1>3. Solo(j)
  BY <1>1, <1>2 DEF Solo, IsTerminal, TerminalStates
<1>4. QED
  BY <1>1, <1>3 DEF OwnInv, Owned

\* The requests: only the launching one hands a job over.
LEMMA OwnRequests ==
    ASSUME Typed, NEW j \in Jobs, OwnInv(j),
           CreateJob(j) \/ LaunchStep(j) \/ ReadForCancel(j) \/ SaveCancelRequest(j),
           NEW k \in Jobs, OwnInv(k)
    PROVE  OwnInv(k)'
<1>1. /\ row \in [Jobs -> Row] /\ launch \in [Jobs -> Launch]
      /\ queue \in [Jobs -> [Tries -> Nat]] /\ row[j] \in Row
  BY DEF Typed, TypeOK
<1>2. UNCHANGED <<attempt, extra>> /\ abandoned' = abandoned
  BY DEF CreateJob, LaunchStep, Dispatch, DispatchRefused, MarkDispatchFailed, AnswerLaunch,
         ReadForCancel, SaveCancelRequest, history
<1>3. \A w \in Workers, i \in Jobs : Active(w, i)' <=> Active(w, i)
  BY <1>2 DEF Active
<1>4. CASE k # j
  <2>1. launch'[k] = launch[k] /\ row'[k] = row[k] /\ queue'[k] = queue[k]
    BY <1>1, <1>4 DEF CreateJob, LaunchStep, Dispatch, DispatchRefused, MarkDispatchFailed,
         AnswerLaunch, ReadForCancel, SaveCancelRequest, SaveJob, history
  <2>2. QED
    BY <1>2, <1>3, <2>1, OwnFrame
<1>5. CASE k = j
  <2>1. CASE CreateJob(j)
    <3>1. /\ launch[j] = "none" /\ launch'[j] = "created" /\ queue' = queue
          /\ row'[j].state = "queued"
      BY <1>1, <2>1 DEF CreateJob, AbsentRow
    <3>2. Solo(j)'
      BY <1>2, <1>3, <3>1 DEF OwnInv, Solo, IsTerminal, TerminalStates
    <3>3. Owned(j)'
      BY <3>1 DEF Owned, LaunchOwns
    <3>4. QED
      BY <1>5, <3>2, <3>3 DEF OwnInv
  <2>2. CASE Dispatch(j)
    <3>1. /\ launch[j] = "created" /\ launch'[j] = "sent" /\ row' = row
          /\ queue'[j] = [queue[j] EXCEPT ![0] = @ + 1] /\ 0 \in Tries
      BY <1>1, <2>2, TriesFacts DEF Dispatch
    <3>2. Solo(j)'
      <4> SUFFICES ASSUME extra'[j] = 0
                   PROVE  Solo(j)'
        BY DEF Solo
      <4>1. /\ \A r \in Tries : queue[j][r] = 0
            /\ \A w \in Workers : ~Active(w, j)'
            /\ ~IsTerminal(row[j])
        BY <1>2, <1>3, <3>1 DEF OwnInv, Solo
      <4>2. \A r \in Tries : queue'[j][r] = IF r = 0 THEN 1 ELSE 0
        BY <1>1, <3>1, <4>1
      <4>3. QED
        BY <3>1, <4>1, <4>2 DEF Solo, IsTerminal
    <3>3. Owned(j)'
      <4>1. queue'[j][0] > 0
        BY <1>1, <3>1
      <4>2. QED
        BY <3>1, <4>1 DEF Owned, MessageOwns
    <3>4. QED
      BY <1>5, <3>2, <3>3 DEF OwnInv
  <2>3. CASE DispatchRefused(j)
    <3>1. launch[j] = "created" /\ launch'[j] = "failing" /\ UNCHANGED <<row, queue>>
      BY <1>1, <2>3 DEF DispatchRefused
    <3>2. QED
      BY <1>2, <1>3, <1>5, <3>1 DEF OwnInv, Solo, Owned, LaunchOwns, IsTerminal
  <2>4. CASE MarkDispatchFailed(j)
    <3>1. /\ launch[j] = "failing" /\ launch'[j] = "unavailable" /\ queue' = queue
          /\ row'[j].state = "failed"
      BY <1>1, <2>4 DEF MarkDispatchFailed, SaveJob, Row
    <3>2. QED
      BY <1>2, <1>3, <1>5, <3>1 DEF OwnInv, Solo, Owned
  <2>5. CASE AnswerLaunch(j)
    <3>1. /\ launch[j] = "sent" /\ launch'[j] \in {"accepted", "unavailable"}
          /\ UNCHANGED <<row, queue>>
      BY <1>1, <2>5 DEF AnswerLaunch
    <3>2. Solo(j)'
      BY <1>2, <1>3, <3>1, SoloFrame DEF OwnInv
    <3>3. Owned(j)'
      BY <1>2, <1>3, <3>1 DEF OwnInv, Owned, LaunchOwns, MessageOwns, WorkerOwns
    <3>4. QED
      BY <1>5, <3>2, <3>3 DEF OwnInv
  <2>6. CASE ReadForCancel(j) \/ SaveCancelRequest(j)
    <3>1. row'[j].state = row[j].state /\ UNCHANGED <<launch, queue>>
      BY <1>1, <2>6 DEF ReadForCancel, SaveCancelRequest, SaveJob, Row
    <3>2. QED
      BY <1>2, <1>3, <1>5, <3>1, OwnFrame
  <2>7. QED
    BY <2>1, <2>2, <2>3, <2>4, <2>5, <2>6 DEF LaunchStep
<1>6. QED
  BY <1>4, <1>5

\* The broker hands a message to a worker: the owner changes from one to the other.
LEMMA OwnReceive ==
    ASSUME Typed, NEW w \in Workers, NEW j \in Jobs, NEW r \in Tries, Receive(w, j, r),
           NEW k \in Jobs, OwnInv(k)
    PROVE  OwnInv(k)'
<1>1. /\ attempt[w].pc = "idle" /\ queue[j][r] > 0
      /\ queue'[j] = [queue[j] EXCEPT ![r] = @ - 1]
      /\ \A i \in Jobs : i # j => queue'[i] = queue[i]
      /\ UNCHANGED <<row, launch, extra, abandoned>>
      /\ queue \in [Jobs -> [Tries -> Nat]]
  BY TypedFacts DEF Receive, history
<1>2. /\ attempt'[w].pc = "start" /\ attempt'[w].job = j
      /\ \A v \in Workers : v # w => attempt'[v] = attempt[v]
  BY TypedFacts DEF Receive, Idle
<1>3. CASE k # j
  <2>1. \A v \in Workers : Active(v, k)' <=> Active(v, k)
    BY <1>1, <1>2, <1>3 DEF Active
  <2>2. QED
    BY <1>1, <1>3, <2>1, OwnFrame
<1>4. CASE k = j
  <2>1. Active(w, j)' /\ \A v \in Workers : v # w => (Active(v, j)' <=> Active(v, j))
    BY <1>2 DEF Active
  <2>2. Solo(j)'
    <3> SUFFICES ASSUME extra'[j] = 0
                 PROVE  Solo(j)'
      BY DEF Solo
    <3>1. /\ launch[j] \notin {"none", "created", "failing"}
          /\ queue[j][r] <= 1
          /\ \A s \in Tries : queue[j][s] > 0 => s = r
          /\ \A v \in Workers : ~Active(v, j)
          /\ ~IsTerminal(row[j])
      BY <1>1, <1>4 DEF OwnInv, Solo
    <3>2. \A s \in Tries : queue'[j][s] = 0
      BY <1>1, <3>1
    <3>3. QED
      BY <1>1, <2>1, <3>1, <3>2 DEF Solo, IsTerminal
  <2>3. Owned(j)'
    BY <2>1 DEF Owned, WorkerOwns
  <2>4. QED
    BY <1>4, <2>2, <2>3 DEF OwnInv
<1>5. QED
  BY <1>3, <1>4

\* A worker's step, seen through WorkerEffect.
LEMMA OwnWorker ==
    ASSUME Typed, NEW w \in Workers, WorkerStep(w),
           \A i \in Jobs : OwnInv(i), NEW k \in Jobs
    PROVE  OwnInv(k)'
<1>1. attempt[w].pc # "idle"
  BY DEF WorkerStep, MarkRunning, CheckForCancellation, SaveProgress, Raise, MarkCancelled,
         MarkRetry, PublishRetry, MarkFailed, MarkSucceeded, Acknowledge
<1>2. PICK j \in Jobs : j = attempt[w].job
  BY <1>1, TypedFacts
<1>3. /\ UNCHANGED <<launch, extra, abandoned>>
      /\ \A v \in Workers : v # w => attempt'[v] = attempt[v]
      /\ \A i \in Jobs : i # j => row'[i] = row[i] /\ queue'[i] = queue[i]
  BY <1>2, WorkerEffect
<1>4. \A v \in Workers : v # w => \A i \in Jobs : Active(v, i)' <=> Active(v, i)
  BY <1>3 DEF Active
<1>5. OwnInv(j) /\ OwnInv(k)
  BY <1>2
<1>6. queue \in [Jobs -> [Tries -> Nat]]
  BY TypedFacts
<1>7. CASE /\ attempt[w].pc \notin {"idle", "ack"} /\ queue' = queue
           /\ attempt'[w].pc \notin {"idle", "ack"} /\ attempt'[w].job = j
           /\ row'[j].state \in {"queued", "running", row[j].state}
  <2>1. \A v \in Workers, i \in Jobs : Active(v, i)' <=> Active(v, i)
    BY <1>2, <1>4, <1>7 DEF Active
  <2>2. CASE k # j
    BY <1>3, <1>5, <2>1, <2>2, OwnFrame
  <2>3. CASE k = j
    <3>1. Active(w, j) /\ Active(w, j)'
      BY <1>2, <1>7 DEF Active
    <3>2. Solo(j)'
      <4> SUFFICES ASSUME extra'[j] = 0
                   PROVE  Solo(j)'
        BY DEF Solo
      <4>1. ~IsTerminal(row[j])
        BY <1>3, <1>5, <3>1 DEF OwnInv, Solo
      <4>2. ~IsTerminal(row[j])'
        BY <1>7, <4>1 DEF IsTerminal, TerminalStates
      <4>3. QED
        BY <1>3, <1>5, <1>7, <2>1, <4>2 DEF OwnInv, Solo
    <3>3. Owned(j)'
      BY <3>1 DEF Owned, WorkerOwns
    <3>4. QED
      BY <2>3, <3>2, <3>3 DEF OwnInv
  <2>4. QED
    BY <2>2, <2>3
<1>8. CASE attempt[w].pc = "ack" /\ attempt'[w].pc = "idle" /\ UNCHANGED <<row, queue>>
  <2>1. \A v \in Workers, i \in Jobs : Active(v, i)' <=> Active(v, i)
    BY <1>4, <1>8 DEF Active
  <2>2. QED
    BY <1>3, <1>5, <1>8, <2>1, OwnFrame
<1>9. ASSUME attempt[w].pc \notin {"idle", "ack"}, attempt'[w].pc = "ack"
      PROVE  /\ Active(w, j) /\ ~Active(w, j)'
             /\ k # j => OwnInv(k)'
  <2>1. \A i \in Jobs : ~Active(w, i)'
    BY <1>9 DEF Active
  <2>2. Active(w, j) /\ \A i \in Jobs : i # j => ~Active(w, i)
    BY <1>2, <1>9 DEF Active
  <2>3. ASSUME k # j PROVE OwnInv(k)'
    <3>1. \A v \in Workers : Active(v, k)' <=> Active(v, k)
      BY <1>4, <2>1, <2>2, <2>3
    <3>2. QED
      BY <1>3, <1>5, <2>3, <3>1, OwnFrame
  <2>4. QED
    BY <1>2, <2>1, <2>2, <2>3
<1>10. ASSUME Active(w, j), ~Active(w, j)', extra'[j] = 0
       PROVE  /\ \A r \in Tries : queue[j][r] = 0
              /\ \A v \in Workers : ~Active(v, j)'
              /\ launch'[j] \notin {"none", "created", "failing"}
              /\ ~IsTerminal(row[j])
  <2>1. /\ \A r \in Tries : ~(queue[j][r] > 0)
        /\ \A v \in Workers : v # w => ~Active(v, j)
        /\ launch[j] \notin {"none", "created", "failing"}
        /\ ~IsTerminal(row[j])
    BY <1>3, <1>5, <1>10 DEF OwnInv, Solo
  <2>2. QED
    BY <1>2, <1>3, <1>4, <1>6, <1>10, <2>1
<1>11. CASE /\ attempt[w].pc \notin {"idle", "ack"} /\ row' = row
            /\ attempt'[w].pc = "ack"
            /\ \E r \in Tries : queue'[j] = [queue[j] EXCEPT ![r] = @ + 1]
  <2>1. PICK r \in Tries : queue'[j] = [queue[j] EXCEPT ![r] = @ + 1]
    BY <1>11
  <2>2. Solo(j)'
    <3> SUFFICES ASSUME extra'[j] = 0
                 PROVE  Solo(j)'
      BY DEF Solo
    <3>1. /\ \A s \in Tries : queue[j][s] = 0
          /\ \A v \in Workers : ~Active(v, j)'
          /\ launch'[j] \notin {"none", "created", "failing"}
          /\ ~IsTerminal(row[j])
      BY <1>9, <1>10, <1>11
    <3>2. \A s \in Tries : queue'[j][s] = IF s = r THEN 1 ELSE 0
      BY <1>2, <1>6, <2>1, <3>1
    <3>3. QED
      BY <1>11, <3>1, <3>2 DEF Solo, IsTerminal
  <2>3. Owned(j)'
    <3>1. queue'[j][r] > 0
      BY <1>2, <1>6, <2>1
    <3>2. QED
      BY <3>1 DEF Owned, MessageOwns
  <2>4. QED
    BY <1>9, <1>11, <2>2, <2>3 DEF OwnInv
<1>12. CASE /\ attempt[w].pc \notin {"idle", "ack"} /\ queue' = queue
            /\ attempt'[w].pc = "ack" /\ IsTerminal(row'[j])
  <2>1. Solo(j)'
    BY <1>9, <1>10, <1>12 DEF Solo
  <2>2. Owned(j)'
    BY <1>12 DEF Owned, IsTerminal, TerminalStates
  <2>3. QED
    BY <1>9, <1>12, <2>1, <2>2 DEF OwnInv
<1>13. QED
  BY <1>2, <1>7, <1>8, <1>11, <1>12, WorkerEffect

\* The faults: a delivery counted in extra, or an owner recorded in abandoned.
LEMMA OwnFault ==
    ASSUME Typed, \A i \in Jobs : OwnInv(i), Fault, NEW k \in Jobs
    PROVE  OwnInv(k)'
<1>1. /\ OwnInv(k) /\ queue \in [Jobs -> [Tries -> Nat]] /\ extra \in [Jobs -> Nat]
      /\ launch \in [Jobs -> Launch] /\ abandoned \in SUBSET Jobs
      /\ attempt \in [Workers -> Attempt]
  BY DEF Typed, TypeOK
<1>2. ASSUME NEW j \in Jobs, WebCrash(j)
      PROVE  OwnInv(k)'
  <2>1. UNCHANGED <<row, queue, attempt, extra>> /\ abandoned \subseteq abandoned'
    BY <1>2 DEF WebCrash
  <2>2. \A v \in Workers : Active(v, k)' <=> Active(v, k)
    BY <2>1 DEF Active
  <2>3. CASE k # j
    <3>1. launch'[k] = launch[k]
      BY <1>1, <1>2, <2>3 DEF WebCrash
    <3>2. QED
      BY <1>1, <2>1, <2>2, <3>1, OwnFrame
  <2>4. CASE k = j
    <3>1. launch'[k] = "crashed" /\ (launch[k] = "sent" \/ k \in abandoned')
      BY <1>1, <1>2, <2>4 DEF WebCrash
    <3>2. Solo(k)'
      BY <1>1, <2>1, <2>2, <3>1, SoloFrame DEF OwnInv
    <3>3. Owned(k)'
      BY <1>1, <2>1, <2>2, <3>1 DEF OwnInv, Owned, LaunchOwns, MessageOwns, WorkerOwns
    <3>4. QED
      BY <3>2, <3>3 DEF OwnInv
  <2>5. QED
    BY <2>3, <2>4
<1>3. ASSUME NEW j \in Jobs, AmbiguousDispatch(j)
      PROVE  OwnInv(k)'
  <2>1. UNCHANGED <<row, attempt, abandoned>>
    BY <1>3 DEF AmbiguousDispatch
  <2>2. \A v \in Workers : Active(v, k)' <=> Active(v, k)
    BY <2>1 DEF Active
  <2>3. CASE k # j
    <3>1. launch'[k] = launch[k] /\ queue'[k] = queue[k] /\ extra'[k] = extra[k]
      BY <1>1, <1>3, <2>3 DEF AmbiguousDispatch
    <3>2. QED
      BY <1>1, <2>1, <2>2, <3>1, OwnFrame
  <2>4. CASE k = j
    <3>1. launch'[k] = "failing" /\ extra'[k] # 0
      BY <1>1, <1>3, <2>4 DEF AmbiguousDispatch
    <3>2. QED
      BY <3>1 DEF OwnInv, Solo, Owned, LaunchOwns
  <2>5. QED
    BY <2>3, <2>4
\* The broker delivers a worker's message again.
<1>4. ASSUME NEW w \in Workers, NEW j \in Jobs, NEW r \in Tries,
             j = attempt[w].job, UNCHANGED <<row, launch, abandoned>>,
             queue' = [queue EXCEPT ![j][r] = @ + 1], extra' = [extra EXCEPT ![j] = @ + 1],
             \A v \in Workers : v # w => attempt'[v] = attempt[v],
             attempt'[w].pc \in {"idle", attempt[w].pc},
             attempt'[w].pc # "idle" => attempt'[w].job = j
      PROVE  OwnInv(k)'
  <2>1. CASE k # j
    <3>1. \A v \in Workers : Active(v, k)' <=> Active(v, k)
      BY <1>4, <2>1 DEF Active
    <3>2. queue'[k] = queue[k] /\ extra'[k] = extra[k]
      BY <1>1, <1>4, <2>1
    <3>3. QED
      BY <1>1, <1>4, <3>1, <3>2, OwnFrame
  <2>2. CASE k = j
    <3>1. queue'[k][r] > 0 /\ extra'[k] # 0
      BY <1>1, <1>4, <2>2
    <3>2. QED
      BY <3>1 DEF OwnInv, Solo, Owned, MessageOwns
  <2>3. QED
    BY <2>1, <2>2
\* A worker gives its job up.
<1>5. ASSUME NEW w \in Workers, UNCHANGED <<row, launch, queue, extra>>,
             \A v \in Workers : v # w => attempt'[v] = attempt[v],
             attempt'[w].pc \in {"idle", "ack"}, abandoned \subseteq abandoned',
             attempt[w].pc = "ack" \/ attempt[w].job \in abandoned'
      PROVE  OwnInv(k)'
  <2>1. \A v \in Workers : Active(v, k)' => Active(v, k)
    BY <1>5 DEF Active
  <2>2. Solo(k)'
    BY <1>1, <1>5, <2>1, SoloFrame DEF OwnInv
  <2>3. Owned(k)'
    <3>1. CASE k \in abandoned'
      BY <3>1 DEF Owned
    <3>2. CASE k \notin abandoned'
      <4>1. \A v \in Workers : Active(v, k) => Active(v, k)'
        BY <1>5, <3>2 DEF Active
      <4>2. QED
        BY <1>1, <1>5, <4>1, OwnedFrame DEF OwnInv
    <3>3. QED
      BY <3>1, <3>2
  <2>4. QED
    BY <2>2, <2>3 DEF OwnInv
\* A worker at work dies and its message goes back: the owner changes.
<1>10. ASSUME NEW w \in Workers, NEW j \in Jobs, NEW r \in Tries,
              j = attempt[w].job, attempt[w].pc \notin {"idle", "ack"},
              UNCHANGED <<row, launch, extra, abandoned>>,
              queue' = [queue EXCEPT ![j][r] = @ + 1],
              \A v \in Workers : v # w => attempt'[v] = attempt[v],
              attempt'[w].pc = "idle"
       PROVE  OwnInv(k)'
  <2>0. /\ Active(w, j) /\ \A i \in Jobs : ~Active(w, i)'
        /\ \A v \in Workers : v # w => (Active(v, k)' <=> Active(v, k))
    BY <1>10 DEF Active
  <2>1. CASE k # j
    <3>1. ~Active(w, k)
      BY <1>10, <2>1 DEF Active
    <3>2. \A v \in Workers : Active(v, k)' <=> Active(v, k)
      BY <2>0, <3>1
    <3>3. queue'[k] = queue[k]
      BY <1>1, <1>10, <2>1
    <3>4. QED
      BY <1>1, <1>10, <3>2, <3>3, OwnFrame
  <2>2. CASE k = j
    <3>1. Solo(k)'
      <4> SUFFICES ASSUME extra'[k] = 0
                   PROVE  Solo(k)'
        BY DEF Solo
      <4>1. /\ \A s \in Tries : ~(queue[k][s] > 0)
            /\ \A v \in Workers : v # w => ~Active(v, k)
            /\ launch[k] \notin {"none", "created", "failing"}
            /\ ~IsTerminal(row[k])
        BY <1>1, <1>10, <2>0, <2>2 DEF OwnInv, Solo
      <4>2. \A s \in Tries : queue'[k][s] = IF s = r THEN 1 ELSE 0
        BY <1>1, <1>10, <2>2, <4>1
      <4>3. \A v \in Workers : ~Active(v, k)'
        BY <2>0, <4>1
      <4>4. QED
        BY <1>10, <4>1, <4>2, <4>3 DEF Solo, IsTerminal
    <3>2. queue'[k][r] > 0
      BY <1>1, <1>10, <2>2
    <3>3. QED
      BY <3>1, <3>2 DEF OwnInv, Owned, MessageOwns
  <2>3. QED
    BY <2>1, <2>2
<1>6. ASSUME NEW w \in Workers, WorkerCrash(w)
      PROVE  OwnInv(k)'
  <2>1. /\ attempt'[w].pc = "idle" /\ \A v \in Workers : v # w => attempt'[v] = attempt[v]
        /\ attempt[w].job \in Jobs /\ attempt[w].retries \in Tries
        /\ UNCHANGED <<row, launch>>
    BY <1>1, <1>6, TypedFacts DEF WorkerCrash, Idle
  <2>2. CASE attempt[w].held /\ attempt[w].pc # "ack"
    <3>1. /\ queue' = [queue EXCEPT ![attempt[w].job][attempt[w].retries] = @ + 1]
          /\ UNCHANGED <<extra, abandoned>> /\ attempt[w].pc # "idle"
      BY <1>6, <2>2 DEF WorkerCrash
    <3>2. QED
      BY <1>10, <2>1, <2>2, <3>1
  <2>5. CASE attempt[w].held /\ attempt[w].pc = "ack"
    <3>1. /\ queue' = [queue EXCEPT ![attempt[w].job][attempt[w].retries] = @ + 1]
          /\ extra' = [extra EXCEPT ![attempt[w].job] = @ + 1] /\ UNCHANGED abandoned
      BY <1>6, <2>5 DEF WorkerCrash
    <3>2. QED
      BY <1>4, <2>1, <3>1
  <2>3. CASE ~attempt[w].held
    <3>1. /\ UNCHANGED <<queue, extra>> /\ abandoned \subseteq abandoned'
          /\ attempt[w].pc = "ack" \/ attempt[w].job \in abandoned'
      BY <1>6, <2>3 DEF WorkerCrash
    <3>2. QED
      BY <1>5, <2>1, <3>1
  <2>4. QED
    BY <2>2, <2>3, <2>5
<1>7. ASSUME NEW w \in Workers, VisibilityTimeout(w)
      PROVE  OwnInv(k)'
  <2>1. /\ attempt'[w].pc = attempt[w].pc /\ attempt'[w].job = attempt[w].job
        /\ \A v \in Workers : v # w => attempt'[v] = attempt[v]
        /\ attempt[w].job \in Jobs /\ attempt[w].retries \in Tries
        /\ UNCHANGED <<row, launch, abandoned>>
    BY <1>1, <1>7, TypedFacts DEF VisibilityTimeout, Attempt
  <2>2. /\ queue' = [queue EXCEPT ![attempt[w].job][attempt[w].retries] = @ + 1]
        /\ extra' = [extra EXCEPT ![attempt[w].job] = @ + 1]
    BY <1>7 DEF VisibilityTimeout
  <2>3. QED
    BY <1>4, <2>1, <2>2
<1>8. ASSUME NEW w \in Workers, OutcomeLost(w)
      PROVE  OwnInv(k)'
  <2>1. Goto(w, "ack") /\ "ack" \in Pcs
    BY <1>8, NameFacts DEF OutcomeLost
  <2>2. attempt'[w].pc = "ack" /\ \A v \in Workers : v # w => attempt'[v] = attempt[v]
    BY <1>1, <2>1, GotoFacts
  <2>3. /\ UNCHANGED <<row, launch, queue, extra>>
        /\ abandoned' = abandoned \union {attempt[w].job}
    BY <1>8 DEF OutcomeLost
  <2>4. QED
    BY <1>5, <2>2, <2>3
<1>9. QED
  BY <1>2, <1>3, <1>6, <1>7, <1>8 DEF Fault

IndInv == Typed /\ \A j \in Jobs : OwnInv(j)

LEMMA IndStep == IndInv /\ [Next]_vars => IndInv'
<1> SUFFICES ASSUME IndInv, [Next]_vars
             PROVE  IndInv'
  OBVIOUS
<1>1. Typed'
  BY TypedStep DEF IndInv
<1>2. ASSUME NEW k \in Jobs
      PROVE  OwnInv(k)'
  <2>1. Typed /\ (\A i \in Jobs : OwnInv(i)) /\ OwnInv(k)
    BY <1>2 DEF IndInv
  <2>2. CASE UNCHANGED vars
    <3>1. \A v \in Workers : Active(v, k)' <=> Active(v, k)
      BY <2>2 DEF vars, Active
    <3>2. QED
      BY <1>2, <2>1, <2>2, <3>1, OwnFrame DEF vars
  <2>3. CASE Next
    BY <1>2, <2>1, <2>3, OwnRequests, OwnReceive, OwnWorker, OwnFault DEF Next
  <2>4. QED
    BY <2>2, <2>3
<1>3. QED
  BY <1>1, <1>2 DEF IndInv

THEOREM Inductive == Spec => []IndInv
<1>1. Init => IndInv
  BY TypedInit, OwnInit DEF IndInv
<1>2. QED
  BY <1>1, IndStep, PTL DEF Spec

\* Every unfinished job has somebody left who will write its outcome.
THEOREM OwnerKept == Spec => []NoOrphan
<1>1. IndInv => NoOrphan
  BY DEF IndInv, OwnInv, Owned, NoOrphan
<1>2. QED
  BY <1>1, Inductive, PTL

\* While a job is undisturbed, its owner alone writes its row.
THEOREM OneOwner == Spec => []SingleOwner
<1>1. IndInv => SingleOwner
  <2> SUFFICES ASSUME IndInv, NEW j \in Jobs, Undisturbed(j)
               PROVE  /\ LaunchOwns(j) => ~MessageOwns(j) /\ ~WorkerOwns(j)
                      /\ MessageOwns(j) => ~WorkerOwns(j)
                      /\ \A r, s \in Tries : queue[j][r] > 0 /\ queue[j][s] > 0 => r = s
                      /\ \A v, w \in Workers : Active(v, j) /\ Active(w, j) => v = w
                      /\ IsTerminal(row[j]) =>
                            ~LaunchOwns(j) /\ ~MessageOwns(j) /\ ~WorkerOwns(j)
    BY DEF SingleOwner
  <2>1. Solo(j) /\ extra[j] = 0
    BY DEF IndInv, OwnInv, Undisturbed
  <2>2. QED
    BY <2>1 DEF Solo, LaunchOwns, MessageOwns, WorkerOwns
<1>2. QED
  BY <1>1, Inductive, PTL

\* A finished job keeps the outcome, the error and the progress it finished with.
THEOREM OutcomeFinal == Spec => TerminalIsFinal
<1> DEFINE Final == \A j \in Jobs : Undisturbed(j) /\ IsTerminal(row[j]) =>
               row'[j] = [row[j] EXCEPT !.cancelRequested = row'[j].cancelRequested]
<1>1. IndInv /\ [Next]_vars => [Final]_vars
  <2> SUFFICES ASSUME IndInv, Next, NEW j \in Jobs, Undisturbed(j), IsTerminal(row[j])
               PROVE  row'[j] = [row[j] EXCEPT !.cancelRequested = row'[j].cancelRequested]
    OBVIOUS
  <2>0. /\ Typed /\ row \in [Jobs -> Row] /\ row[j] \in Row
    BY DEF IndInv, Typed, TypeOK
  <2>1. /\ launch[j] \notin {"none", "created", "failing"}
        /\ \A w \in Workers : ~Active(w, j)
    BY DEF IndInv, OwnInv, Solo, Undisturbed
  <2>2. ASSUME row'[j] = row[j]
        PROVE  row'[j] = [row[j] EXCEPT !.cancelRequested = row'[j].cancelRequested]
    BY <2>0, <2>2 DEF Row
  <2>3. ASSUME NEW i \in Jobs, CreateJob(i) \/ LaunchStep(i) \/ ReadForCancel(i)
        PROVE  row'[j] = row[j]
    BY <2>0, <2>1, <2>3 DEF CreateJob, LaunchStep, Dispatch, DispatchRefused,
       MarkDispatchFailed, AnswerLaunch, ReadForCancel, SaveJob
  <2>4. ASSUME NEW i \in Jobs, SaveCancelRequest(i)
        PROVE  row'[j] = [row[j] EXCEPT !.cancelRequested = row'[j].cancelRequested]
    <3>1. row' = [row EXCEPT ![i] = [row[i] EXCEPT !.cancelRequested = TRUE]]
      BY <2>4 DEF SaveCancelRequest, SaveJob
    <3>2. CASE i = j
      BY <2>0, <3>1, <3>2 DEF Row
    <3>3. CASE i # j
      BY <2>0, <2>2, <3>1, <3>3
    <3>4. QED
      BY <3>2, <3>3
  <2>5. ASSUME NEW w \in Workers, WorkerStep(w)
        PROVE  row'[j] = row[j]
    <3>1. attempt[w].pc # "idle"
      BY <2>5 DEF WorkerStep, MarkRunning, CheckForCancellation, SaveProgress, Raise,
         MarkCancelled, MarkRetry, PublishRetry, MarkFailed, MarkSucceeded, Acknowledge
    <3>2. attempt[w].job \in Jobs
      BY <2>0, <3>1, TypedFacts
    <3>3. CASE attempt[w].job = j
      <4>1. attempt[w].pc = "ack"
        BY <2>1, <3>1, <3>3 DEF Active
      <4>2. QED
        BY <2>0, <2>5, <3>2, <3>3, <4>1, WorkerEffect
    <3>4. CASE attempt[w].job # j
      BY <2>0, <2>5, <3>2, <3>4, WorkerEffect
    <3>5. QED
      BY <3>3, <3>4
  <2>6. ASSUME Fault \/ \E w \in Workers, i \in Jobs, r \in Tries : Receive(w, i, r)
        PROVE  row'[j] = row[j]
    BY <2>6 DEF Fault, WebCrash, AmbiguousDispatch, WorkerCrash, VisibilityTimeout,
       OutcomeLost, Receive
  <2>7. QED
    BY <2>2, <2>3, <2>4, <2>5, <2>6 DEF Next
<1>2. QED
  BY <1>1, Inductive, PTL DEF Spec, TerminalIsFinal

=============================================================================
