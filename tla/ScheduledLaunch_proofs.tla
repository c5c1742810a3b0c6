----------------------- MODULE ScheduledLaunch_proofs -----------------------
(***************************************************************************)
(* Proofs about ScheduledLaunch for any set of runs, any number of retries  *)
(* and of progress saves: type correctness, that notifications and the      *)
(* schedule never show an outcome the run does not keep, and that a run     *)
(* tagged in time keeps its tag and is announced to those it concerns.      *)
(***************************************************************************)
EXTENDS ScheduledLaunch, FiniteSetTheorems, TLAPS

-----------------------------------------------------------------------------
(* Type correctness.                                                        *)

LEMMA ActorsFacts ==
    /\ 0 \in Actors /\ 0 \notin Attempts /\ Attempts \subseteq Actors
    /\ \A k \in Attempts : k <= MaxRetries => k + 1 \in Attempts
BY StepsAssumption DEF Actors, Attempts

\* Every actor writes a well-formed row, and a step is one write to each variable.
LEMMA RowTyped ==
    ASSUME TypeOK, NEW r \in Runs, NEW a \in Actors
    PROVE  WithMetadata(r, a) \in Row /\ row[r] \in Row /\ copy[r][a] \in Row
<1>1. row[r] \in Row /\ copy[r][a] \in Row
  BY DEF TypeOK
<1>2. QED
  BY <1>1 DEF WithMetadata, Row

LEMMA WrittenState ==
    ASSUME TypeOK, NEW r \in Runs, NEW a \in Actors
    PROVE  /\ WithMetadata(r, a).state = row[r].state
           /\ \A st \in States : /\ [WithMetadata(r, a) EXCEPT !.state = st] \in Row
                                /\ [WithMetadata(r, a) EXCEPT !.state = st].state = st
<1>1. WithMetadata(r, a).state = row[r].state
  BY RowTyped DEF WithMetadata, Row
<1>2. QED
  BY <1>1, RowTyped DEF Row

LEMMA PcTyped ==
    ASSUME TypeOK, NEW r \in Runs, NEW a \in Actors, NEW p \in Pcs, Goto(r, a, p)
    PROVE  /\ pc' \in [Runs -> [Actors -> Pcs]]
           /\ pc'[r][a] = p
           /\ \A b \in Actors : b # a => pc'[r][b] = pc[r][b]
           /\ \A s \in Runs : s # r => pc'[s] = pc[s]
BY DEF TypeOK, Goto

LEMMA ReadTyped ==
    ASSUME TypeOK, NEW r \in Runs, NEW a \in Actors, Read(r, a)
    PROVE  /\ copy' \in [Runs -> [Actors -> Row]]
           /\ copy'[r][a] = row[r]
           /\ \A b \in Actors : b # a => copy'[r][b] = copy[r][b]
           /\ \A s \in Runs : s # r => copy'[s] = copy[s]
BY RowTyped DEF TypeOK, Read

\* Only an attempt with retries left is about to publish one.
Budget == \A r \in Runs, k \in Attempts : pc[r][k] = "publish" => k <= MaxRetries

LEMMA BudgetKept ==
    ASSUME TypeOK, Budget, NEW r \in Runs, NEW a \in Actors, NEW p \in Pcs,
           Goto(r, a, p), p = "publish" => a <= MaxRetries
    PROVE  Budget'
BY PcTyped, ActorsFacts DEF Budget

LEMMA SaveTyped ==
    ASSUME TypeOK, NEW r \in Runs, NEW new \in Row, SaveRow(r, new)
    PROVE  /\ row' \in [Runs -> Row] /\ row'[r] = new
           /\ \A s \in Runs : s # r => row'[s] = row[s]
BY DEF TypeOK, SaveRow

LEMMA LaunchTyped ==
    ASSUME TypeOK, NEW r \in Runs, CreateRun(r) \/ LaunchStep(r) \/ LaunchRaises(r)
    PROVE  TypeOK'
<1> USE ActorsFacts
<1>1. CASE CreateRun(r)
  <2>1. [Absent EXCEPT !.state = "queued"] \in Row
    BY DEF Absent, Row, States
  <2>2. row' \in [Runs -> Row]
    BY <1>1, <2>1, SaveTyped DEF CreateRun
  <2>3. copy' \in [Runs -> [Actors -> Row]]
    BY <1>1, <2>1 DEF CreateRun, TypeOK
  <2>4. pc' \in [Runs -> [Actors -> Pcs]]
    BY <1>1, PcTyped DEF CreateRun, Pcs, LaunchPcs
  <2>5. QED
    BY <1>1, <2>2, <2>3, <2>4 DEF CreateRun, TypeOK, others, notices
<1>2. CASE Dispatch(r)
  <2>1. queue' \in [Runs -> SUBSET Attempts]
    <3>1. {1} \in SUBSET Attempts
      BY StepsAssumption DEF Attempts
    <3>2. QED
      BY <1>2, <3>1 DEF Dispatch, TypeOK
  <2>2. pc' \in [Runs -> [Actors -> Pcs]]
    BY <1>2, PcTyped DEF Dispatch, Pcs, LaunchPcs
  <2>3. QED
    BY <1>2, <2>1, <2>2 DEF Dispatch, TypeOK, notices
<1>3. CASE DispatchRefused(r)
  <2>1. [WithMetadata(r, 0) EXCEPT !.state = "failed"] \in Row
    BY RowTyped DEF Row, States, TerminalStates
  <2>2. row' \in [Runs -> Row]
    BY <1>3, <2>1, SaveTyped DEF DispatchRefused
  <2>3. pc' \in [Runs -> [Actors -> Pcs]]
    BY <1>3, PcTyped DEF DispatchRefused, Pcs, LaunchPcs
  <2>4. QED
    BY <1>3, <2>2, <2>3 DEF DispatchRefused, TypeOK, others, notices
<1>4. CASE RereadRun(r)
  <2>1. pc' \in [Runs -> [Actors -> Pcs]]
    BY <1>4, PcTyped DEF RereadRun, Pcs, LaunchPcs
  <2>2. QED
    BY <1>4, <2>1, ReadTyped DEF RereadRun, TypeOK, others, notices
<1>5. CASE TagRun(r)
  <2>1. [row[r] EXCEPT !.template = TRUE] \in Row
    BY RowTyped DEF Row
  <2>2. row' \in [Runs -> Row]
    BY <1>5, <2>1, SaveTyped DEF TagRun
  <2>3. pc' \in [Runs -> [Actors -> Pcs]]
    BY <1>5, PcTyped DEF TagRun, Pcs, LaunchPcs
  <2>4. QED
    BY <1>5, <2>2, <2>3 DEF TagRun, TypeOK, others, notices
<1>6. CASE TagJob(r)
  <2>1. [WithMetadata(r, 0) EXCEPT !.tagged = TRUE] \in Row
    BY RowTyped DEF Row
  <2>2. row' \in [Runs -> Row]
    BY <1>6, <2>1, SaveTyped DEF TagJob
  <2>3. pc' \in [Runs -> [Actors -> Pcs]]
    BY <1>6, PcTyped DEF TagJob, Pcs, LaunchPcs
  <2>4. inTime' \in SUBSET Runs
    BY <1>6 DEF TagJob, TypeOK
  <2>5. QED
    BY <1>6, <2>2, <2>3, <2>4 DEF TagJob, TypeOK, notices
<1>7. CASE TouchSchedule(r)
  <2>1. pc' \in [Runs -> [Actors -> Pcs]]
    BY <1>7, PcTyped DEF TouchSchedule, Pcs
  <2>2. schedule' \in [status : States \union {"", "dispatch_exception"},
                       job : Runs \union {NoRun}]
    BY <1>7, RowTyped DEF TouchSchedule, Row
  <2>3. QED
    BY <1>7, <2>1, <2>2 DEF TouchSchedule, TypeOK, notices
<1>8. CASE LaunchRaises(r)
  <2>1. pc' \in [Runs -> [Actors -> Pcs]]
    BY <1>8, PcTyped DEF LaunchRaises, Pcs
  <2>2. schedule' \in [status : States \union {"", "dispatch_exception"},
                       job : Runs \union {NoRun}]
    BY <1>8 DEF LaunchRaises, TypeOK
  <2>3. sent' \in [Runs -> [Addressees -> Nat]]
    <3>1. sent' = [sent EXCEPT ![r]["exception"] = @ + 1]
      BY <1>8 DEF LaunchRaises
    <3>2. sent \in [Runs -> [Addressees -> Nat]] /\ "exception" \in Addressees
      BY DEF TypeOK, Addressees
    <3>3. sent[r]["exception"] + 1 \in Nat
      BY <3>2
    <3>4. QED
      BY <3>1, <3>2, <3>3
  <2>4. QED
    BY <1>8, <2>1, <2>2, <2>3 DEF LaunchRaises, TypeOK
<1>9. QED
  BY <1>1, <1>2, <1>3, <1>4, <1>5, <1>6, <1>7, <1>8 DEF LaunchStep

LEMMA TaskTyped ==
    ASSUME TypeOK, Budget, NEW r \in Runs, NEW k \in Attempts, TaskStep(r, k)
    PROVE  TypeOK'
<1> USE ActorsFacts
<1>1. CASE LoadJob(r, k)
  <2>1. pc' \in [Runs -> [Actors -> Pcs]]
    BY <1>1, PcTyped DEF LoadJob, Pcs, TaskPcs
  <2>2. copy' \in [Runs -> [Actors -> Row]]
    BY <1>1, ReadTyped DEF LoadJob
  <2>3. queue' \in [Runs -> SUBSET Attempts]
    BY <1>1 DEF LoadJob, TypeOK
  <2>4. QED
    BY <1>1, <2>1, <2>2, <2>3 DEF LoadJob, TypeOK, notices
<1>2. CASE MarkRunning(r, k)
  <2>1. [row[r] EXCEPT !.state = "running"] \in Row
    BY RowTyped DEF Row, States
  <2>2. row' \in [Runs -> Row]
    BY <1>2, <2>1, SaveTyped DEF MarkRunning
  <2>3. pc' \in [Runs -> [Actors -> Pcs]]
    BY <1>2, PcTyped DEF MarkRunning, Pcs, TaskPcs
  <2>4. QED
    BY <1>2, <2>2, <2>3 DEF MarkRunning, TypeOK, others, notices
<1>3. CASE SaveProgress(r, k)
  <2>1. WithMetadata(r, k) \in Row
    BY RowTyped DEF Row
  <2>2. row' \in [Runs -> Row]
    BY <1>3, <2>1, SaveTyped DEF SaveProgress
  <2>3. pc' \in [Runs -> [Actors -> Pcs]]
    BY <1>3, PcTyped DEF SaveProgress, Pcs, TaskPcs
  <2>4. QED
    BY <1>3, <2>2, <2>3 DEF SaveProgress, TypeOK, others, notices
<1>4. CASE MarkSucceeded(r, k)
  <2>1. [WithMetadata(r, k) EXCEPT !.state = "succeeded", !.result = TRUE] \in Row
    BY RowTyped DEF Row, States, TerminalStates
  <2>2. row' \in [Runs -> Row]
    BY <1>4, <2>1, SaveTyped DEF MarkSucceeded
  <2>3. pc' \in [Runs -> [Actors -> Pcs]]
    BY <1>4, PcTyped DEF MarkSucceeded, Pcs
  <2>4. QED
    BY <1>4, <2>2, <2>3 DEF MarkSucceeded, TypeOK, others, notices
<1>5. CASE MarkCancelled(r, k)
  <2>1. [WithMetadata(r, k) EXCEPT !.state = "cancelled"] \in Row
    BY RowTyped DEF Row, States, TerminalStates
  <2>2. row' \in [Runs -> Row]
    BY <1>5, <2>1, SaveTyped DEF MarkCancelled
  <2>3. pc' \in [Runs -> [Actors -> Pcs]]
    BY <1>5, PcTyped DEF MarkCancelled, Pcs
  <2>4. QED
    BY <1>5, <2>2, <2>3 DEF MarkCancelled, TypeOK, others, notices
<1>6. CASE MarkFailed(r, k)
  <2>1. [WithMetadata(r, k) EXCEPT !.state = "failed"] \in Row
    BY RowTyped DEF Row, States, TerminalStates
  <2>2. row' \in [Runs -> Row]
    BY <1>6, <2>1, SaveTyped DEF MarkFailed
  <2>3. pc' \in [Runs -> [Actors -> Pcs]]
    BY <1>6, PcTyped DEF MarkFailed, Pcs, TaskPcs
  <2>4. QED
    BY <1>6, <2>2, <2>3 DEF MarkFailed, TypeOK, others, notices
<1>7. CASE MarkRetry(r, k)
  <2>1. [WithMetadata(r, k) EXCEPT !.state = "queued"] \in Row
    BY RowTyped DEF Row, States
  <2>2. row' \in [Runs -> Row]
    BY <1>7, <2>1, SaveTyped DEF MarkRetry
  <2>3. pc' \in [Runs -> [Actors -> Pcs]]
    BY <1>7, PcTyped DEF MarkRetry, Pcs, TaskPcs
  <2>4. QED
    BY <1>7, <2>2, <2>3 DEF MarkRetry, TypeOK, others, notices
<1>8. CASE RefreshJob(r, k)
  <2>1. pc' \in [Runs -> [Actors -> Pcs]]
    BY <1>8, PcTyped DEF RefreshJob, Pcs, TaskPcs
  <2>2. copy' \in [Runs -> [Actors -> Row]]
    BY <1>8, ReadTyped DEF RefreshJob
  <2>3. step' \in [Runs -> [Attempts -> 0 .. Steps]]
    <3>1. step' = [step EXCEPT ![r][k] = @ + 1] /\ step[r][k] < Steps
      BY <1>8 DEF RefreshJob
    <3>2. step \in [Runs -> [Attempts -> 0 .. Steps]]
      BY DEF TypeOK
    <3>3. step[r][k] + 1 \in 0 .. Steps
      BY <3>1, <3>2, StepsAssumption
    <3>4. QED
      BY <3>1, <3>2, <3>3
  <2>4. QED
    BY <1>8, <2>1, <2>2, <2>3 DEF RefreshJob, TypeOK, notices
<1>9. CASE RecheckRun(r, k)
  <2>1. pc' \in [Runs -> [Actors -> Pcs]]
    BY <1>9, PcTyped DEF RecheckRun, Pcs
  <2>2. QED
    BY <1>9, <2>1 DEF RecheckRun, TypeOK, others, notices
<1>10. CASE PublishRetry(r, k)
  <2>1. pc' \in [Runs -> [Actors -> Pcs]]
    BY <1>10, PcTyped DEF PublishRetry, Pcs, TaskPcs
  <2>2. k + 1 \in Attempts
    BY <1>10 DEF PublishRetry, Budget
  <2>3. queue' \in [Runs -> SUBSET Attempts]
    BY <1>10, <2>2 DEF PublishRetry, TypeOK
  <2>4. QED
    BY <1>10, <2>1, <2>3 DEF PublishRetry, TypeOK, notices
<1>11. QED
  BY <1>1, <1>2, <1>3, <1>4, <1>5, <1>6, <1>7, <1>8, <1>9, <1>10 DEF TaskStep

LEMMA NoticeTyped ==
    ASSUME TypeOK, NEW r \in Runs, NEW a \in Actors, NoticeStep(r, a)
    PROVE  TypeOK'
<1>1. CASE ReadForNotice(r, a)
  <2>1. pc' \in [Runs -> [Actors -> Pcs]]
    BY <1>1, PcTyped DEF ReadForNotice, Pcs
  <2>2. QED
    BY <1>1, <2>1, ReadTyped DEF ReadForNotice, TypeOK, others, notices
<1>2. CASE SendNotices(r, a)
  <2>1. pc' \in [Runs -> [Actors -> Pcs]]
    BY <1>2, PcTyped DEF SendNotices, Pcs
  <2>2. sent' \in [Runs -> [Addressees -> Nat]]
    <3>1. sent \in [Runs -> [Addressees -> Nat]]
      BY DEF TypeOK
    <3>2. \/ sent' = sent
          \/ sent' = [sent EXCEPT ![r] = [x \in Addressees |->
                        IF x \in Concerned(copy[r][a]) THEN sent[r][x] + 1 ELSE sent[r][x]]]
      BY <1>2 DEF SendNotices, notices
    <3>3. \A x \in Addressees : sent[r][x] \in Nat /\ sent[r][x] + 1 \in Nat
      BY <3>1
    <3>4. QED
      BY <3>1, <3>2, <3>3
  <2>3. told' \in [Runs -> SUBSET TerminalStates]
    <3>1. told \in [Runs -> SUBSET TerminalStates]
      BY DEF TypeOK
    <3>2. \/ told' = told
          \/ /\ copy[r][a].state \in TerminalStates
             /\ told' = [told EXCEPT ![r] = @ \union {copy[r][a].state}]
      BY <1>2 DEF SendNotices, notices, Terminal
    <3>3. QED
      BY <3>1, <3>2
  <2>4. QED
    BY <1>2, <2>1, <2>2, <2>3 DEF SendNotices, TypeOK
<1>3. CASE Conclude(r, a)
  <2>1. pc' \in [Runs -> [Actors -> Pcs]]
    BY <1>3, PcTyped DEF Conclude, Pcs
  <2>2. schedule' \in [status : States \union {"", "dispatch_exception"},
                       job : Runs \union {NoRun}]
    BY <1>3, RowTyped DEF Conclude, TypeOK, Row
  <2>3. QED
    BY <1>3, <2>1, <2>2 DEF Conclude, TypeOK, notices
<1>4. QED
  BY <1>1, <1>2, <1>3 DEF NoticeStep

\* Every step moves one actor of one run, to a known place.
LEMMA StepMoves ==
    ASSUME NEW r \in Runs, NEW a \in Actors,
           \/ a = 0 /\ (CreateRun(r) \/ LaunchStep(r) \/ LaunchRaises(r))
           \/ a \in Attempts /\ TaskStep(r, a)
           \/ NoticeStep(r, a)
    PROVE  \E p \in Pcs : Goto(r, a, p) /\ (p = "publish" => a <= MaxRetries)
<1> USE DEF Pcs, LaunchPcs, TaskPcs
<1>1. CASE a = 0 /\ (CreateRun(r) \/ LaunchStep(r) \/ LaunchRaises(r))
  <2>1. a <= MaxRetries
    BY <1>1, StepsAssumption
  <2>2. \E p \in Pcs : Goto(r, 0, p)
    BY <1>1 DEF CreateRun, LaunchStep, LaunchRaises, Dispatch, DispatchRefused,
               RereadRun, TagRun, TagJob, TouchSchedule
  <2>3. QED
    BY <1>1, <2>1, <2>2
<1>2. CASE a \in Attempts /\ TaskStep(r, a)
  BY <1>2 DEF TaskStep, LoadJob, MarkRunning, SaveProgress, RefreshJob, MarkSucceeded,
             MarkCancelled, MarkFailed, MarkRetry, PublishRetry, RecheckRun
<1>3. CASE NoticeStep(r, a)
  BY <1>3 DEF NoticeStep, ReadForNotice, SendNotices, Conclude
<1>4. QED
  BY <1>1, <1>2, <1>3

\* Every variable keeps its type: retries stay within the budget, notifications are
\* sent of finished runs only, and the schedule names one of its own runs.
THEOREM TypeInvariant == Spec => []TypeOK
<1>1. Init => TypeOK /\ Budget
  <2> SUFFICES ASSUME Init PROVE TypeOK /\ Budget
    OBVIOUS
  <2>1. Absent \in Row
    BY DEF Absent, Row, States
  <2>2. 0 \in 0 .. Steps
    BY StepsAssumption
  <2>3. "idle" \in Pcs
    BY DEF Pcs
  <2>4. Budget
    BY ActorsFacts DEF Init, Budget
  <2>5. QED
    BY <2>1, <2>2, <2>3, <2>4 DEF Init, TypeOK
<1>2. TypeOK /\ Budget /\ [Next]_vars => TypeOK' /\ Budget'
  <2> SUFFICES ASSUME TypeOK, Budget, [Next]_vars
               PROVE  TypeOK' /\ Budget'
    OBVIOUS
  <2>1. CASE UNCHANGED vars
    BY <2>1 DEF vars, TypeOK, Budget
  <2>2. ASSUME NEW r \in Runs, CreateRun(r) \/ LaunchStep(r) \/ LaunchRaises(r)
        PROVE  TypeOK' /\ Budget'
    BY <2>2, LaunchTyped, StepMoves, BudgetKept, ActorsFacts
  <2>3. ASSUME NEW r \in Runs, NEW k \in Attempts, TaskStep(r, k)
        PROVE  TypeOK' /\ Budget'
    BY <2>3, TaskTyped, StepMoves, BudgetKept, ActorsFacts
  <2>4. ASSUME NEW r \in Runs, NEW a \in Actors, NoticeStep(r, a)
        PROVE  TypeOK' /\ Budget'
    BY <2>4, NoticeTyped, StepMoves, BudgetKept
  <2>5. QED
    BY <2>1, <2>2, <2>3, <2>4 DEF Next
<1>3. QED
  BY <1>1, <1>2, PTL DEF Spec

-----------------------------------------------------------------------------
(* Outcomes are reported truthfully.  OutcomeTruthful is not inductive: an   *)
(* actor reports what it has read, so one must know that a finished run's    *)
(* state is never written again, hence that only one actor at a time may     *)
(* write it, and that it hands this right over with the message.             *)

\* The right to write a run's state: the launch's until the message is out, the
\* message's, and the attempt's that took it until it published the next.
Opening(r) == pc[r][0] \in {"idle", "dispatch"}
Acting(r, k) == pc[r][k] \in {"start", "work", "saved", "publish"}
NobodyActs(r) == \A k \in Attempts : ~Acting(r, k)

Sole(r) ==
    /\ Opening(r) => queue[r] = {} /\ NobodyActs(r)
    /\ queue[r] # {} => NobodyActs(r) /\ \A j, k \in queue[r] : j = k
    /\ \A j, k \in Attempts : Acting(r, j) /\ Acting(r, k) => j = k
    /\ Terminal(row[r]) => ~Opening(r) /\ queue[r] = {} /\ NobodyActs(r)

CopyTrue(r) ==
    \A a \in Actors : Terminal(copy[r][a]) => copy[r][a].state = row[r].state

Shown == schedule.status \in TerminalStates =>
             schedule.job \in Runs /\ row[schedule.job].state = schedule.status

Truth ==
    /\ \A r \in Runs : Sole(r) /\ CopyTrue(r) /\ told[r] \subseteq {row[r].state}
    /\ Shown

\* A step of one run leaves the others as they are.
Elsewhere(r) ==
    \A s \in Runs : s # r => /\ row'[s] = row[s] /\ pc'[s] = pc[s] /\ copy'[s] = copy[s]
                            /\ queue'[s] = queue[s] /\ told'[s] = told[s]

\* What an actor's step does to what is read, announced and shown.
Reports(r, a) ==
    /\ \A b \in Actors : \/ copy'[r][b] = copy[r][b] \/ copy'[r][b] = row[r]
                          \/ ~Terminal(copy'[r][b])
    /\ \A x \in told'[r] : x \in told[r] \/ (Terminal(copy[r][a]) /\ x = copy[r][a].state)
    /\ \/ schedule'.status = schedule.status /\ schedule'.job = schedule.job
       \/ schedule'.status \notin TerminalStates
       \/ schedule'.status = copy[r][a].state /\ schedule'.job = r

\* The launch writes the state only while it may, and hands the right to a message.
LEMMA LaunchEffect ==
    ASSUME TypeOK, NEW r \in Runs, Sole(r),
           CreateRun(r) \/ LaunchStep(r) \/ LaunchRaises(r)
    PROVE  /\ Elsewhere(r) /\ Reports(r, 0) /\ Sole(r)'
           /\ Terminal(row[r]) => row'[r].state = row[r].state
<1> USE ActorsFacts
<1>1. \A b \in Attempts : b # 0
  BY StepsAssumption DEF Attempts
<1>2. CASE CreateRun(r)
  <2>1. pc'[r][0] = "dispatch" /\ (\A k \in Attempts : pc'[r][k] = pc[r][k])
        /\ \A s \in Runs : s # r => pc'[s] = pc[s]
    BY <1>2, <1>1, PcTyped DEF CreateRun, Pcs, LaunchPcs
  <2>2. /\ row'[r].state = "queued" /\ \A s \in Runs : s # r => row'[s] = row[s]
        /\ copy'[r][0].state = "queued" /\ \A s \in Runs : s # r => copy'[s] = copy[s]
        /\ \A b \in Actors : b # 0 => copy'[r][b] = copy[r][b]
        /\ UNCHANGED <<queue, schedule, told>>
    BY <1>2 DEF CreateRun, SaveRow, TypeOK, others, notices, Absent
  <2>3. Opening(r)
    BY <1>2 DEF CreateRun, Opening
  <2>4. Elsewhere(r) /\ Reports(r, 0)
    BY <2>1, <2>2 DEF Elsewhere, Reports, Terminal, TerminalStates
  <2>5. QED
    BY <2>1, <2>2, <2>3, <2>4
       DEF Sole, Opening, NobodyActs, Acting, Terminal, TerminalStates
<1>3. CASE Dispatch(r)
  <2>1. pc'[r][0] = "reread" /\ (\A k \in Attempts : pc'[r][k] = pc[r][k])
        /\ \A s \in Runs : s # r => pc'[s] = pc[s]
    BY <1>3, <1>1, PcTyped DEF Dispatch, Pcs, LaunchPcs
  <2>2. queue'[r] = {1} /\ (\A s \in Runs : s # r => queue'[s] = queue[s])
        /\ UNCHANGED <<row, copy, schedule, told>>
    BY <1>3 DEF Dispatch, TypeOK, notices
  <2>3. Opening(r)
    BY <1>3 DEF Dispatch, Opening
  <2>4. Elsewhere(r) /\ Reports(r, 0)
    BY <2>1, <2>2 DEF Elsewhere, Reports
  <2>5. QED
    BY <2>1, <2>2, <2>3, <2>4 DEF Sole, Opening, NobodyActs, Acting, Terminal
<1>4. CASE DispatchRefused(r)
  <2>1. pc'[r][0] = "reread" /\ (\A k \in Attempts : pc'[r][k] = pc[r][k])
        /\ \A s \in Runs : s # r => pc'[s] = pc[s]
    BY <1>4, <1>1, PcTyped DEF DispatchRefused, Pcs, LaunchPcs
  <2>2. /\ row'[r].state = "failed" /\ \A s \in Runs : s # r => row'[s] = row[s]
        /\ UNCHANGED <<queue, copy, schedule, told>>
    <3>1. SaveRow(r, [WithMetadata(r, 0) EXCEPT !.state = "failed"])
          /\ UNCHANGED <<queue, copy, schedule, told>>
      BY <1>4 DEF DispatchRefused, others, notices
    <3>2. "failed" \in States
      BY DEF States, TerminalStates
    <3>3. /\ [WithMetadata(r, 0) EXCEPT !.state = "failed"] \in Row
          /\ [WithMetadata(r, 0) EXCEPT !.state = "failed"].state = "failed"
      BY <3>2, WrittenState
    <3>4. QED
      BY <3>1, <3>3, SaveTyped
  <2>3. Opening(r)
    BY <1>4 DEF DispatchRefused, Opening
  <2>4. Elsewhere(r) /\ Reports(r, 0)
    BY <2>1, <2>2 DEF Elsewhere, Reports
  <2>5. QED
    BY <2>1, <2>2, <2>3, <2>4 DEF Sole, Opening, NobodyActs, Acting, Terminal
<1>6. CASE TagRun(r)
  <2>1. pc'[r][0] = "tag_job" /\ (\A k \in Attempts : pc'[r][k] = pc[r][k])
        /\ \A s \in Runs : s # r => pc'[s] = pc[s]
    BY <1>6, <1>1, PcTyped DEF TagRun, Pcs, LaunchPcs
  <2>2. /\ row'[r].state = row[r].state /\ \A s \in Runs : s # r => row'[s] = row[s]
        /\ UNCHANGED <<queue, copy, schedule, told>>
    BY <1>6, RowTyped DEF TagRun, SaveRow, WithMetadata, TypeOK, others, notices, Row
  <2>3. ~Opening(r)
    BY <1>6 DEF TagRun, Opening
  <2>4. Elsewhere(r) /\ Reports(r, 0)
    BY <2>1, <2>2 DEF Elsewhere, Reports
  <2>5. QED
    BY <2>1, <2>2, <2>3, <2>4 DEF Sole, Opening, NobodyActs, Acting, Terminal
<1>7. CASE TagJob(r)
  <2>1. pc'[r][0] = "touch" /\ (\A k \in Attempts : pc'[r][k] = pc[r][k])
        /\ \A s \in Runs : s # r => pc'[s] = pc[s]
    BY <1>7, <1>1, PcTyped DEF TagJob, Pcs, LaunchPcs
  <2>2. /\ row'[r].state = row[r].state /\ \A s \in Runs : s # r => row'[s] = row[s]
        /\ UNCHANGED <<queue, copy, schedule, told>>
    BY <1>7, RowTyped DEF TagJob, SaveRow, WithMetadata, TypeOK, others, notices, Row
  <2>3. ~Opening(r)
    BY <1>7 DEF TagJob, Opening
  <2>4. Elsewhere(r) /\ Reports(r, 0)
    BY <2>1, <2>2 DEF Elsewhere, Reports
  <2>5. QED
    BY <2>1, <2>2, <2>3, <2>4 DEF Sole, Opening, NobodyActs, Acting, Terminal
<1>5. CASE RereadRun(r)
  <2>1. pc'[r][0] = "tag_run" /\ (\A k \in Attempts : pc'[r][k] = pc[r][k])
        /\ \A s \in Runs : s # r => pc'[s] = pc[s]
    BY <1>5, <1>1, PcTyped DEF RereadRun, Pcs, LaunchPcs
  <2>2. copy'[r][0] = row[r] /\ (\A b \in Actors : b # 0 => copy'[r][b] = copy[r][b])
        /\ (\A s \in Runs : s # r => copy'[s] = copy[s])
        /\ UNCHANGED <<queue, row, schedule, told>>
    BY <1>5, ReadTyped DEF RereadRun, others, notices
  <2>3. ~Opening(r)
    BY <1>5 DEF RereadRun, Opening
  <2>4. Elsewhere(r) /\ Reports(r, 0)
    BY <2>1, <2>2 DEF Elsewhere, Reports
  <2>5. QED
    BY <2>1, <2>2, <2>3, <2>4 DEF Sole, Opening, NobodyActs, Acting, Terminal
<1>8. CASE TouchSchedule(r)
  <2>1. PICK p \in {"notify", "done"} : Goto(r, 0, p)
    BY <1>8 DEF TouchSchedule
  <2>2. pc'[r][0] = p /\ (\A k \in Attempts : pc'[r][k] = pc[r][k])
        /\ \A s \in Runs : s # r => pc'[s] = pc[s]
    BY <2>1, <1>1, PcTyped DEF Pcs
  <2>3. schedule'.status = copy[r][0].state /\ schedule'.job = r
        /\ UNCHANGED <<queue, row, copy, told>>
    BY <1>8 DEF TouchSchedule, notices
  <2>4. ~Opening(r)
    BY <1>8 DEF TouchSchedule, Opening
  <2>5. Elsewhere(r) /\ Reports(r, 0)
    BY <2>2, <2>3 DEF Elsewhere, Reports
  <2>6. QED
    BY <2>2, <2>3, <2>4, <2>5 DEF Sole, Opening, NobodyActs, Acting, Terminal
<1>9. CASE LaunchRaises(r)
  <2>1. pc'[r][0] = "done" /\ (\A k \in Attempts : pc'[r][k] = pc[r][k])
        /\ \A s \in Runs : s # r => pc'[s] = pc[s]
    BY <1>9, <1>1, PcTyped DEF LaunchRaises, Pcs, LaunchPcs
  <2>2. schedule'.status = "dispatch_exception" /\ UNCHANGED <<queue, row, copy, told>>
    <3>1. schedule' = [schedule EXCEPT !.status = "dispatch_exception"]
          /\ UNCHANGED <<queue, row, copy, told>>
      BY <1>9 DEF LaunchRaises
    <3>2. schedule \in [status : States \union {"", "dispatch_exception"},
                        job : Runs \union {NoRun}]
      BY DEF TypeOK
    <3>3. QED
      BY <3>1, <3>2
  <2>3. Elsewhere(r) /\ Reports(r, 0)
    BY <2>1, <2>2 DEF Elsewhere, Reports, TerminalStates
  <2>4. QED
    BY <2>1, <2>2, <2>3 DEF Sole, Opening, NobodyActs, Acting, Terminal
<1>10. QED
  BY <1>2, <1>3, <1>4, <1>5, <1>6, <1>7, <1>8, <1>9 DEF LaunchStep

\* An attempt writes the state only while it has the right to.
LEMMA TaskEffect ==
    ASSUME TypeOK, NEW r \in Runs, NEW k \in Attempts, Sole(r), TaskStep(r, k)
    PROVE  /\ Elsewhere(r) /\ Reports(r, k) /\ Sole(r)'
           /\ Terminal(row[r]) => row'[r].state = row[r].state
<1> USE ActorsFacts
<1>1. k # 0 /\ \A j \in Attempts : j # 0 /\ j \in Actors
  BY StepsAssumption DEF Attempts
<1>2. CASE LoadJob(r, k)
  <2>1. pc'[r][k] = "start" /\ (\A b \in Actors : b # k => pc'[r][b] = pc[r][b])
        /\ \A s \in Runs : s # r => pc'[s] = pc[s]
    BY <1>2, PcTyped DEF LoadJob, Pcs, TaskPcs
  <2>2. copy'[r][k] = row[r] /\ (\A b \in Actors : b # k => copy'[r][b] = copy[r][b])
        /\ \A s \in Runs : s # r => copy'[s] = copy[s]
    BY <1>2, ReadTyped DEF LoadJob
  <2>3. k \in queue[r] /\ queue'[r] = queue[r] \ {k}
        /\ (\A s \in Runs : s # r => queue'[s] = queue[s])
        /\ UNCHANGED <<row, schedule, told>>
    BY <1>2 DEF LoadJob, TypeOK, notices
  <2>4. Elsewhere(r) /\ Reports(r, k)
    BY <2>1, <2>2, <2>3 DEF Elsewhere, Reports
  <2>5. ~Opening(r) /\ NobodyActs(r) /\ ~Terminal(row[r]) /\ queue'[r] = {}
    BY <2>3 DEF Sole
  <2>6. QED
    BY <1>1, <2>1, <2>3, <2>4, <2>5 DEF Sole, Opening, NobodyActs, Acting, Terminal
<1>3. CASE MarkRunning(r, k)
  <2>1. pc'[r][k] = "work" /\ (\A b \in Actors : b # k => pc'[r][b] = pc[r][b])
        /\ \A s \in Runs : s # r => pc'[s] = pc[s]
    BY <1>3, PcTyped DEF MarkRunning, Pcs, TaskPcs
  <2>2. (\A s \in Runs : s # r => row'[s] = row[s])
        /\ UNCHANGED <<queue, copy, schedule, told>>
    BY <1>3 DEF MarkRunning, SaveRow, others, notices, TypeOK
  <2>3. Elsewhere(r) /\ Reports(r, k)
    BY <2>1, <2>2 DEF Elsewhere, Reports
  <2>4. Acting(r, k)
    BY <1>3 DEF MarkRunning, Acting
  <2>5. ~Opening(r) /\ ~Terminal(row[r]) /\ queue[r] = {}
        /\ \A j \in Attempts : j # k => ~Acting(r, j)
    BY <2>4 DEF Sole, NobodyActs
  <2>6. row'[r].state = "running"
    <3>1. SaveRow(r, [row[r] EXCEPT !.state = "running"])
      BY <1>3 DEF MarkRunning
    <3>2. QED
      BY <3>1, RowTyped DEF SaveRow, TypeOK, Row
  <2>7. QED
    BY <1>1, <2>1, <2>2, <2>3, <2>5, <2>6
       DEF Sole, Opening, NobodyActs, Acting, Terminal, TerminalStates
<1>4. CASE SaveProgress(r, k)
  <2>1. pc'[r][k] = "saved" /\ (\A b \in Actors : b # k => pc'[r][b] = pc[r][b])
        /\ \A s \in Runs : s # r => pc'[s] = pc[s]
    BY <1>4, PcTyped DEF SaveProgress, Pcs, TaskPcs
  <2>2. (\A s \in Runs : s # r => row'[s] = row[s])
        /\ UNCHANGED <<queue, copy, schedule, told>>
    BY <1>4 DEF SaveProgress, SaveRow, others, notices, TypeOK
  <2>3. Elsewhere(r) /\ Reports(r, k)
    BY <2>1, <2>2 DEF Elsewhere, Reports
  <2>4. Acting(r, k)
    BY <1>4 DEF SaveProgress, Acting
  <2>5. ~Opening(r) /\ ~Terminal(row[r]) /\ queue[r] = {}
        /\ \A j \in Attempts : j # k => ~Acting(r, j)
    BY <2>4 DEF Sole, NobodyActs
  <2>6. row'[r].state = row[r].state
    <3>1. SaveRow(r, WithMetadata(r, k))
      BY <1>4 DEF SaveProgress
    <3>2. QED
      BY <3>1, WrittenState DEF SaveRow, TypeOK
  <2>7. QED
    BY <1>1, <2>1, <2>2, <2>3, <2>5, <2>6
       DEF Sole, Opening, NobodyActs, Acting, Terminal, TerminalStates
<1>5. CASE MarkRetry(r, k)
  <2>1. pc'[r][k] = "publish" /\ (\A b \in Actors : b # k => pc'[r][b] = pc[r][b])
        /\ \A s \in Runs : s # r => pc'[s] = pc[s]
    BY <1>5, PcTyped DEF MarkRetry, Pcs, TaskPcs
  <2>2. (\A s \in Runs : s # r => row'[s] = row[s])
        /\ UNCHANGED <<queue, copy, schedule, told>>
    BY <1>5 DEF MarkRetry, SaveRow, others, notices, TypeOK
  <2>3. Elsewhere(r) /\ Reports(r, k)
    BY <2>1, <2>2 DEF Elsewhere, Reports
  <2>4. Acting(r, k)
    BY <1>5 DEF MarkRetry, Acting
  <2>5. ~Opening(r) /\ ~Terminal(row[r]) /\ queue[r] = {}
        /\ \A j \in Attempts : j # k => ~Acting(r, j)
    BY <2>4 DEF Sole, NobodyActs
  <2>6. row'[r].state = "queued"
    <3>1. SaveRow(r, [WithMetadata(r, k) EXCEPT !.state = "queued"])
      BY <1>5 DEF MarkRetry
    <3>2. "queued" \in States
      BY DEF States
    <3>3. /\ [WithMetadata(r, k) EXCEPT !.state = "queued"] \in Row
          /\ [WithMetadata(r, k) EXCEPT !.state = "queued"].state = "queued"
      BY <3>2, WrittenState
    <3>4. QED
      BY <3>1, <3>3, SaveTyped
  <2>7. QED
    BY <1>1, <2>1, <2>2, <2>3, <2>5, <2>6
       DEF Sole, Opening, NobodyActs, Acting, Terminal, TerminalStates
<1>6. CASE MarkSucceeded(r, k)
  <2>1. pc'[r][k] = "notify" /\ (\A b \in Actors : b # k => pc'[r][b] = pc[r][b])
        /\ \A s \in Runs : s # r => pc'[s] = pc[s]
    BY <1>6, PcTyped DEF MarkSucceeded, Pcs, TaskPcs
  <2>2. (\A s \in Runs : s # r => row'[s] = row[s])
        /\ UNCHANGED <<queue, copy, schedule, told>>
    BY <1>6 DEF MarkSucceeded, SaveRow, others, notices, TypeOK
  <2>3. Elsewhere(r) /\ Reports(r, k)
    BY <2>1, <2>2 DEF Elsewhere, Reports
  <2>4. Acting(r, k)
    BY <1>6 DEF MarkSucceeded, Acting
  <2>5. ~Opening(r) /\ ~Terminal(row[r]) /\ queue[r] = {}
        /\ \A j \in Attempts : j # k => ~Acting(r, j)
    BY <2>4 DEF Sole, NobodyActs
  <2>6. QED
    BY <1>1, <2>1, <2>2, <2>3, <2>5
       DEF Sole, Opening, NobodyActs, Acting, Terminal
<1>7. CASE MarkCancelled(r, k)
  <2>1. pc'[r][k] = "notify" /\ (\A b \in Actors : b # k => pc'[r][b] = pc[r][b])
        /\ \A s \in Runs : s # r => pc'[s] = pc[s]
    BY <1>7, PcTyped DEF MarkCancelled, Pcs, TaskPcs
  <2>2. (\A s \in Runs : s # r => row'[s] = row[s])
        /\ UNCHANGED <<queue, copy, schedule, told>>
    BY <1>7 DEF MarkCancelled, SaveRow, others, notices, TypeOK
  <2>3. Elsewhere(r) /\ Reports(r, k)
    BY <2>1, <2>2 DEF Elsewhere, Reports
  <2>4. Acting(r, k)
    BY <1>7 DEF MarkCancelled, Acting
  <2>5. ~Opening(r) /\ ~Terminal(row[r]) /\ queue[r] = {}
        /\ \A j \in Attempts : j # k => ~Acting(r, j)
    BY <2>4 DEF Sole, NobodyActs
  <2>6. QED
    BY <1>1, <2>1, <2>2, <2>3, <2>5
       DEF Sole, Opening, NobodyActs, Acting, Terminal
<1>8. CASE MarkFailed(r, k)
  <2>1. pc'[r][k] = "recheck" /\ (\A b \in Actors : b # k => pc'[r][b] = pc[r][b])
        /\ \A s \in Runs : s # r => pc'[s] = pc[s]
    BY <1>8, PcTyped DEF MarkFailed, Pcs, TaskPcs
  <2>2. (\A s \in Runs : s # r => row'[s] = row[s])
        /\ UNCHANGED <<queue, copy, schedule, told>>
    BY <1>8 DEF MarkFailed, SaveRow, others, notices, TypeOK
  <2>3. Elsewhere(r) /\ Reports(r, k)
    BY <2>1, <2>2 DEF Elsewhere, Reports
  <2>4. Acting(r, k)
    BY <1>8 DEF MarkFailed, Acting
  <2>5. ~Opening(r) /\ ~Terminal(row[r]) /\ queue[r] = {}
        /\ \A j \in Attempts : j # k => ~Acting(r, j)
    BY <2>4 DEF Sole, NobodyActs
  <2>6. QED
    BY <1>1, <2>1, <2>2, <2>3, <2>5
       DEF Sole, Opening, NobodyActs, Acting, Terminal
<1>9. CASE RefreshJob(r, k)
  <2>1. pc'[r][k] = "work" /\ (\A b \in Actors : b # k => pc'[r][b] = pc[r][b])
        /\ \A s \in Runs : s # r => pc'[s] = pc[s]
    BY <1>9, PcTyped DEF RefreshJob, Pcs, TaskPcs
  <2>2. copy'[r][k] = row[r] /\ (\A b \in Actors : b # k => copy'[r][b] = copy[r][b])
        /\ (\A s \in Runs : s # r => copy'[s] = copy[s])
        /\ UNCHANGED <<row, queue, schedule, told>>
    BY <1>9, ReadTyped DEF RefreshJob, notices
  <2>3. Elsewhere(r) /\ Reports(r, k)
    BY <2>1, <2>2 DEF Elsewhere, Reports
  <2>4. Acting(r, k)
    BY <1>9 DEF RefreshJob, Acting
  <2>5. QED
    BY <1>1, <2>1, <2>2, <2>3, <2>4 DEF Sole, Opening, NobodyActs, Acting, Terminal
<1>10. CASE PublishRetry(r, k)
  <2>1. pc'[r][k] = "recheck" /\ (\A b \in Actors : b # k => pc'[r][b] = pc[r][b])
        /\ \A s \in Runs : s # r => pc'[s] = pc[s]
    BY <1>10, PcTyped DEF PublishRetry, Pcs, TaskPcs
  <2>2. queue'[r] = queue[r] \union {k + 1}
        /\ (\A s \in Runs : s # r => queue'[s] = queue[s])
        /\ UNCHANGED <<row, copy, schedule, told>>
    BY <1>10 DEF PublishRetry, notices, TypeOK
  <2>3. Elsewhere(r) /\ Reports(r, k)
    BY <2>1, <2>2 DEF Elsewhere, Reports
  <2>4. Acting(r, k)
    BY <1>10 DEF PublishRetry, Acting
  <2>5. ~Opening(r) /\ ~Terminal(row[r]) /\ queue[r] = {}
        /\ \A j \in Attempts : j # k => ~Acting(r, j)
    BY <2>4 DEF Sole, NobodyActs
  <2>6. QED
    BY <1>1, <2>1, <2>2, <2>3, <2>5 DEF Sole, Opening, NobodyActs, Acting, Terminal
<1>11. CASE RecheckRun(r, k)
  <2>1. PICK p \in {"notify", "done"} : Goto(r, k, p)
    BY <1>11 DEF RecheckRun
  <2>2. pc'[r][k] = p /\ (\A b \in Actors : b # k => pc'[r][b] = pc[r][b])
        /\ \A s \in Runs : s # r => pc'[s] = pc[s]
    BY <2>1, PcTyped DEF Pcs
  <2>3. UNCHANGED <<row, queue, copy, schedule, told>>
    BY <1>11 DEF RecheckRun, others, notices
  <2>4. Elsewhere(r) /\ Reports(r, k)
    BY <2>2, <2>3 DEF Elsewhere, Reports
  <2>5. QED
    BY <1>1, <2>2, <2>3, <2>4 DEF Sole, Opening, NobodyActs, Acting, Terminal
<1>12. QED
  BY <1>2, <1>3, <1>4, <1>5, <1>6, <1>7, <1>8, <1>9, <1>10, <1>11 DEF TaskStep

\* Notifying writes no run, and announces what it has read.
LEMMA NoticeEffect ==
    ASSUME TypeOK, NEW r \in Runs, NEW a \in Actors, Sole(r), NoticeStep(r, a)
    PROVE  /\ Elsewhere(r) /\ Reports(r, a) /\ Sole(r)'
           /\ Terminal(row[r]) => row'[r].state = row[r].state
<1> USE ActorsFacts
<1>1. \A j \in Attempts : j # 0 /\ j \in Actors
  BY StepsAssumption DEF Attempts
<1>2. PICK p \in {"send", "conclude", "done"} : Goto(r, a, p)
  BY DEF NoticeStep, ReadForNotice, SendNotices, Conclude
<1>3. pc'[r][a] = p /\ (\A b \in Actors : b # a => pc'[r][b] = pc[r][b])
      /\ \A s \in Runs : s # r => pc'[s] = pc[s]
  BY <1>2, PcTyped DEF Pcs
<1>4. pc[r][a] \in {"notify", "send", "conclude"} /\ UNCHANGED <<row, queue>>
  BY DEF NoticeStep, ReadForNotice, SendNotices, Conclude, others
<1>5. Sole(r)'
  BY <1>1, <1>3, <1>4 DEF Sole, Opening, NobodyActs, Acting, Terminal
<1>6. Elsewhere(r) /\ Reports(r, a)
  <2>1. CASE ReadForNotice(r, a)
    <3>1. copy'[r][a] = row[r] /\ (\A b \in Actors : b # a => copy'[r][b] = copy[r][b])
          /\ (\A s \in Runs : s # r => copy'[s] = copy[s])
          /\ UNCHANGED <<schedule, told>>
      BY <2>1, ReadTyped DEF ReadForNotice, others, notices
    <3>2. QED
      BY <1>3, <1>4, <3>1 DEF Elsewhere, Reports
  <2>2. CASE SendNotices(r, a)
    <3>1. UNCHANGED <<copy, schedule>>
      BY <2>2 DEF SendNotices
    <3>2. \/ told' = told
          \/ Terminal(copy[r][a]) /\ told' = [told EXCEPT ![r] = @ \union {copy[r][a].state}]
      BY <2>2 DEF SendNotices, notices
    <3>3. told \in [Runs -> SUBSET TerminalStates]
      BY DEF TypeOK
    <3>4. (\A s \in Runs : s # r => told'[s] = told[s])
          /\ \A x \in told'[r] : x \in told[r]
                 \/ (Terminal(copy[r][a]) /\ x = copy[r][a].state)
      BY <3>2, <3>3
    <3>5. QED
      BY <1>3, <1>4, <3>1, <3>4 DEF Elsewhere, Reports
  <2>3. CASE Conclude(r, a)
    <3>1. UNCHANGED <<copy, told>>
      BY <2>3 DEF Conclude, notices
    <3>2. \/ schedule' = schedule
          \/ schedule'.status = copy[r][a].state /\ schedule'.job = r
      BY <2>3 DEF Conclude
    <3>3. QED
      BY <1>3, <1>4, <3>1, <3>2 DEF Elsewhere, Reports
  <2>4. QED
    BY <2>1, <2>2, <2>3 DEF NoticeStep
<1>7. QED
  BY <1>4, <1>5, <1>6

\* One step of actor a of run r keeps every report true.
LEMMA ReportsTrue ==
    ASSUME TypeOK, TypeOK', Truth, NEW r \in Runs, NEW a \in Actors,
           Elsewhere(r), Reports(r, a), Sole(r)',
           Terminal(row[r]) => row'[r].state = row[r].state
    PROVE  Truth'
<1>1. \A s \in Runs : s # r => Sole(s)'
  BY DEF Truth, Elsewhere, Sole, Opening, NobodyActs, Acting, Terminal
<1>2. \A b \in Actors : Terminal(copy[r][b]) =>
          Terminal(row[r]) /\ copy[r][b].state = row[r].state
  BY DEF Truth, CopyTrue, Terminal
<1>3. CopyTrue(r)'
  BY <1>2 DEF Reports, CopyTrue, Terminal
<1>4. \A s \in Runs : s # r => CopyTrue(s)'
  BY DEF Truth, Elsewhere, CopyTrue, Terminal
<1>5. \A x \in told[r] : Terminal(row[r]) /\ x = row[r].state
  BY DEF Truth, TypeOK, Terminal
<1>6. told'[r] \subseteq {row'[r].state}
  BY <1>2, <1>5 DEF Reports
<1>7. \A s \in Runs : s # r => told'[s] \subseteq {row'[s].state}
  BY DEF Truth, Elsewhere
<1>8. Shown'
  <2>1. CASE schedule'.status = schedule.status /\ schedule'.job = schedule.job
    <3>1. CASE schedule.job = r
      BY <2>1, <3>1 DEF Truth, Shown, Terminal
    <3>2. CASE schedule.job # r
      BY <2>1, <3>2 DEF Truth, Shown, Elsewhere
    <3>3. QED
      BY <3>1, <3>2
  <2>2. CASE schedule'.status \notin TerminalStates
    BY <2>2 DEF Shown
  <2>3. CASE schedule'.status = copy[r][a].state /\ schedule'.job = r
    BY <1>2, <2>3 DEF Shown, Terminal
  <2>4. QED
    BY <2>1, <2>2, <2>3 DEF Reports
<1>9. QED
  BY <1>1, <1>3, <1>4, <1>6, <1>7, <1>8 DEF Truth

LEMMA TruthAlways == Spec => []Truth
<1>1. Init => Truth
  <2> SUFFICES ASSUME Init PROVE Truth
    OBVIOUS
  <2>1. \A r \in Runs : Sole(r)
    BY ActorsFacts DEF Init, Sole, Opening, NobodyActs, Acting, Terminal, Absent,
                      TerminalStates
  <2>2. \A r \in Runs : CopyTrue(r) /\ told[r] \subseteq {row[r].state}
    BY DEF Init, CopyTrue, Terminal, Absent, TerminalStates
  <2>3. Shown
    BY DEF Init, Shown, TerminalStates
  <2>4. QED
    BY <2>1, <2>2, <2>3 DEF Truth
<1>2. TypeOK /\ TypeOK' /\ Truth /\ [Next]_vars => Truth'
  <2> SUFFICES ASSUME TypeOK, TypeOK', Truth, [Next]_vars
               PROVE  Truth'
    OBVIOUS
  <2> USE ActorsFacts
  <2>1. CASE UNCHANGED vars
    BY <2>1 DEF vars, Truth, Sole, Opening, NobodyActs, Acting, CopyTrue, Shown, Terminal
  <2>2. ASSUME NEW r \in Runs, CreateRun(r) \/ LaunchStep(r) \/ LaunchRaises(r)
        PROVE  Truth'
    <3>1. Sole(r)
      BY DEF Truth
    <3>2. QED
      BY <2>2, <3>1, LaunchEffect, ReportsTrue
  <2>3. ASSUME NEW r \in Runs, NEW k \in Attempts, TaskStep(r, k)
        PROVE  Truth'
    <3>1. Sole(r)
      BY DEF Truth
    <3>2. QED
      BY <2>3, <3>1, TaskEffect, ReportsTrue
  <2>4. ASSUME NEW r \in Runs, NEW a \in Actors, NoticeStep(r, a)
        PROVE  Truth'
    <3>1. Sole(r)
      BY DEF Truth
    <3>2. QED
      BY <2>4, <3>1, NoticeEffect, ReportsTrue
  <2>5. QED
    BY <2>1, <2>2, <2>3, <2>4 DEF Next
<1>3. QED
  BY <1>1, <1>2, TypeInvariant, PTL DEF Spec

\* Notifications and the schedule never show an outcome that the run does not keep,
\* however the launch, the attempts and the notices of all the runs interleave: a
\* run's state is final once terminal, and what is shown was read after that.
THEOREM OutcomesAreTrue == Spec => []OutcomeTruthful
<1>1. Truth => OutcomeTruthful
  BY DEF Truth, Shown, OutcomeTruthful
<1>2. QED
  BY <1>1, TruthAlways, PTL

-----------------------------------------------------------------------------
(* The metadata of a run that was tagged in time.  Every save writes the     *)
(* whole column from a copy, so one must know of every copy that may still   *)
(* be saved that it was read after the tag.                                  *)

\* The launch has made its last save of the rows.
Tagged(r) == pc[r][0] \in {"touch", "notify", "send", "conclude", "done"}

Kept(r) ==
    r \in inTime =>
        /\ Tagged(r) /\ row[r].tagged
        /\ \A k \in Attempts : Holds(r, k) => copy[r][k].tagged
        /\ row[r].state = "succeeded" => row[r].result

LEMMA KeptFrame ==
    ASSUME NEW r \in Runs, Kept(r), r \in inTime' => r \in inTime, row'[r] = row[r],
           Tagged(r) => Tagged(r)',
           \A k \in Attempts : /\ Holds(r, k)' => Holds(r, k) \/ copy'[r][k] = row[r]
                               /\ Holds(r, k) /\ Holds(r, k)' => copy'[r][k].tagged = copy[r][k].tagged
                                                                  \/ copy'[r][k] = row[r]
    PROVE  Kept(r)'
BY DEF Kept

LEMMA KeptLaunch ==
    ASSUME TypeOK, NEW r \in Runs, Kept(r),
           CreateRun(r) \/ LaunchStep(r) \/ LaunchRaises(r)
    PROVE  Kept(r)' /\ \A s \in Runs : s # r /\ s \in inTime' => s \in inTime
<1> USE ActorsFacts
<1>0. \A k \in Attempts : k # 0
  BY StepsAssumption DEF Attempts
<1>1. CASE TagJob(r)
  <2>1. pc'[r][0] = "touch" /\ (\A k \in Attempts : pc'[r][k] = pc[r][k])
    BY <1>0, <1>1, PcTyped DEF TagJob, Pcs, LaunchPcs
  <2>2. /\ row'[r] = [WithMetadata(r, 0) EXCEPT !.tagged = TRUE]
        /\ copy' = copy /\ ~Tagged(r)
    BY <1>1 DEF TagJob, SaveRow, TypeOK, Tagged
  <2>3. row'[r].tagged /\ row'[r].state = row[r].state
    BY <2>2, RowTyped, WrittenState DEF Row
  <2>4. r \in inTime' => ~Terminal(row[r]) /\ \A k \in Attempts : ~Holds(r, k)
    BY <1>1, <2>2 DEF TagJob, Kept
  <2>5. Kept(r)'
    BY <2>1, <2>3, <2>4 DEF Kept, Tagged, Holds, Terminal, TerminalStates
  <2>6. QED
    BY <1>1, <2>5 DEF TagJob
<1>2. CASE TouchSchedule(r)
  <2>1. PICK p \in {"notify", "done"} : Goto(r, 0, p)
    BY <1>2 DEF TouchSchedule
  <2>2. pc'[r][0] = p /\ (\A k \in Attempts : pc'[r][k] = pc[r][k])
    BY <1>0, <2>1, PcTyped DEF Pcs
  <2>3. UNCHANGED <<row, copy, inTime>>
    BY <1>2 DEF TouchSchedule
  <2>4. Tagged(r)' /\ \A k \in Attempts : Holds(r, k)' <=> Holds(r, k)
    BY <2>2 DEF Tagged, Holds
  <2>5. QED
    BY <2>3, <2>4, KeptFrame
<1>3. CASE CreateRun(r) \/ Dispatch(r) \/ DispatchRefused(r) \/ RereadRun(r) \/ TagRun(r)
  <2>1. ~Tagged(r) /\ inTime' = inTime
    BY <1>3 DEF CreateRun, Dispatch, DispatchRefused, RereadRun, TagRun, Tagged, others
  <2>2. QED
    BY <2>1 DEF Kept
<1>4. CASE LaunchRaises(r)
  <2>1. Goto(r, 0, "done") /\ UNCHANGED <<row, copy, inTime>>
    BY <1>4 DEF LaunchRaises
  <2>2. pc'[r][0] = "done" /\ (\A k \in Attempts : pc'[r][k] = pc[r][k])
    BY <1>0, <2>1, PcTyped DEF Pcs
  <2>3. Tagged(r)' /\ \A k \in Attempts : Holds(r, k)' <=> Holds(r, k)
    BY <2>2 DEF Tagged, Holds
  <2>4. QED
    BY <2>1, <2>3, KeptFrame
<1>5. QED
  BY <1>1, <1>2, <1>3, <1>4 DEF LaunchStep

LEMMA KeptTask ==
    ASSUME TypeOK, NEW r \in Runs, NEW k \in Attempts, Sole(r), Kept(r), TaskStep(r, k)
    PROVE  Kept(r)' /\ inTime' = inTime
<1> USE ActorsFacts
<1>0. k # 0
  BY StepsAssumption DEF Attempts
<1>1. inTime' = inTime
  BY DEF TaskStep, LoadJob, MarkRunning, SaveProgress, RefreshJob, MarkSucceeded, MarkCancelled,
     MarkFailed, MarkRetry, PublishRetry, RecheckRun, others
\* A save from the attempt's own copy.
<1>2. ASSUME NEW p \in Pcs, Goto(r, k, p), Holds(r, k), copy' = copy,
             row'[r].tagged = copy[r][k].tagged \/ row'[r].tagged = row[r].tagged,
             row'[r].state = "succeeded" => row'[r].result \/ row[r].state = "succeeded"
      PROVE  Kept(r)'
  <2>1. /\ pc'[r][k] = p /\ \A b \in Actors : b # k => pc'[r][b] = pc[r][b]
    BY <1>2, PcTyped
  <2>2. \A j \in Attempts : Holds(r, j)' => Holds(r, j)
    BY <1>2, <2>1 DEF Holds
  <2>3. Tagged(r) => Tagged(r)'
    BY <1>0, <2>1 DEF Tagged
  <2>4. row[r].state # "succeeded"
    BY <1>2 DEF Sole, NobodyActs, Acting, Holds, Terminal, TerminalStates
  <2>5. QED
    BY <1>1, <1>2, <2>2, <2>3, <2>4 DEF Kept
\* No save.
<1>3. ASSUME NEW p \in Pcs, Goto(r, k, p), row' = row,
             \/ copy' = copy /\ (p \notin {"start", "work", "saved"} \/ Holds(r, k))
             \/ Read(r, k)
      PROVE  Kept(r)'
  <2>1. /\ pc'[r][k] = p /\ \A b \in Actors : b # k => pc'[r][b] = pc[r][b]
    BY <1>3, PcTyped
  <2>2. Tagged(r) => Tagged(r)'
    BY <1>0, <2>1 DEF Tagged
  <2>3. CASE copy' = copy /\ (p \notin {"start", "work", "saved"} \/ Holds(r, k))
    <3>1. \A j \in Attempts : Holds(r, j)' => Holds(r, j)
      BY <2>1, <2>3 DEF Holds
    <3>2. QED
      BY <1>1, <1>3, <2>2, <2>3, <3>1, KeptFrame
  <2>4. CASE Read(r, k)
    <3>1. copy'[r][k] = row[r] /\ \A b \in Actors : b # k => copy'[r][b] = copy[r][b]
      BY <2>4, ReadTyped
    <3>2. \A j \in Attempts : /\ Holds(r, j)' => Holds(r, j) \/ copy'[r][j] = row[r]
                              /\ copy'[r][j] = copy[r][j] \/ copy'[r][j] = row[r]
      BY <2>1, <3>1 DEF Holds
    <3>3. QED
      BY <1>1, <1>3, <2>2, <3>2, KeptFrame
  <2>5. QED
    BY <1>3, <2>3, <2>4
<1>4. row[r] \in Row /\ copy[r][k] \in Row /\ row \in [Runs -> Row]
  BY RowTyped DEF TypeOK
<1>5. WithMetadata(r, k).tagged = copy[r][k].tagged /\ WithMetadata(r, k) \in Row
      /\ WithMetadata(r, k).state = row[r].state
  BY <1>4, RowTyped DEF WithMetadata, Row
<1>6. \A st \in States : [WithMetadata(r, k) EXCEPT !.state = st].tagged = copy[r][k].tagged
  BY <1>5 DEF Row
<1>7. CASE MarkRunning(r, k)
  <2>1. /\ row'[r] = [row[r] EXCEPT !.state = "running"] /\ Goto(r, k, "work") /\ Holds(r, k)
        /\ copy' = copy /\ "work" \in Pcs
    BY <1>4, <1>7 DEF MarkRunning, SaveRow, Holds, Pcs, TaskPcs
  <2>2. row'[r].state = "running" /\ row'[r].tagged = row[r].tagged
    BY <1>4, <2>1 DEF Row
  <2>3. QED
    BY <1>1, <1>2, <2>1, <2>2
<1>8. CASE SaveProgress(r, k)
  <2>1. /\ row'[r] = WithMetadata(r, k) /\ Goto(r, k, "saved") /\ Holds(r, k)
        /\ copy' = copy /\ "saved" \in Pcs
    BY <1>4, <1>8 DEF SaveProgress, SaveRow, Holds, Pcs, TaskPcs
  <2>2. QED
    BY <1>1, <1>2, <1>5, <2>1
<1>9. CASE MarkSucceeded(r, k)
  <2>1. /\ row'[r] = [WithMetadata(r, k) EXCEPT !.state = "succeeded", !.result = TRUE]
        /\ Goto(r, k, "notify") /\ Holds(r, k) /\ copy' = copy /\ "notify" \in Pcs
    BY <1>4, <1>9 DEF MarkSucceeded, SaveRow, Holds, Pcs, others
  <2>2. row'[r].tagged = copy[r][k].tagged /\ row'[r].result
    BY <1>5, <2>1 DEF Row
  <2>3. QED
    BY <1>1, <1>2, <2>1, <2>2
<1>10. CASE MarkCancelled(r, k) \/ MarkFailed(r, k) \/ MarkRetry(r, k)
  <2>1. PICK p \in {"notify", "recheck", "publish"}, st \in {"cancelled", "failed", "queued"} :
             /\ row' = [row EXCEPT ![r] = [WithMetadata(r, k) EXCEPT !.state = st]]
             /\ Goto(r, k, p) /\ Holds(r, k) /\ copy' = copy
    BY <1>10 DEF MarkCancelled, MarkFailed, MarkRetry, SaveRow, Holds
  <2>2. row'[r].tagged = copy[r][k].tagged /\ row'[r].state = st /\ p \in Pcs
    BY <1>4, <1>5, <2>1 DEF Row, Pcs, TaskPcs
  <2>3. QED
    BY <1>1, <1>2, <2>1, <2>2
<1>11. CASE LoadJob(r, k) \/ RefreshJob(r, k)
  <2>1. PICK p \in {"start", "work"} : Goto(r, k, p) /\ row' = row /\ Read(r, k)
    BY <1>11 DEF LoadJob, RefreshJob
  <2>2. p \in Pcs
    BY DEF Pcs, TaskPcs
  <2>3. QED
    BY <1>1, <1>3, <2>1, <2>2
<1>12. CASE PublishRetry(r, k) \/ RecheckRun(r, k)
  <2>1. PICK p \in {"recheck", "notify", "done"} : Goto(r, k, p) /\ row' = row /\ copy' = copy
    BY <1>12 DEF PublishRetry, RecheckRun
  <2>2. p \in Pcs /\ p \notin {"start", "work", "saved"}
    BY DEF Pcs, TaskPcs
  <2>3. QED
    BY <1>1, <1>3, <2>1, <2>2
<1>13. QED
  BY <1>7, <1>8, <1>9, <1>10, <1>11, <1>12 DEF TaskStep

LEMMA KeptNotice ==
    ASSUME TypeOK, NEW r \in Runs, NEW a \in Actors, Kept(r), NoticeStep(r, a)
    PROVE  Kept(r)' /\ inTime' = inTime
<1> USE ActorsFacts
<1>1. PICK p \in {"send", "conclude", "done"} :
           /\ Goto(r, a, p) /\ pc[r][a] \in {"notify", "send", "conclude"}
           /\ row' = row /\ inTime' = inTime /\ (copy' = copy \/ Read(r, a))
  BY DEF NoticeStep, ReadForNotice, SendNotices, Conclude, others
<1>2. pc'[r][a] = p /\ \A b \in Actors : b # a => pc'[r][b] = pc[r][b]
  BY <1>1, PcTyped DEF Pcs
<1>3. \A b \in Actors : b # a => copy'[r][b] = copy[r][b]
  BY <1>1, ReadTyped
<1>4. \A k \in Attempts : (Holds(r, k)' <=> Holds(r, k)) /\ (Holds(r, k) => copy'[r][k] = copy[r][k])
  BY <1>1, <1>2, <1>3 DEF Holds
<1>5. Tagged(r) => Tagged(r)'
  BY <1>1, <1>2 DEF Tagged
<1>6. QED
  BY <1>1, <1>4, <1>5, KeptFrame

\* A step of one run does not touch what another keeps.
LEMMA KeptElsewhere ==
    ASSUME NEW r \in Runs, Elsewhere(r), NEW s \in Runs, s # r, Kept(s),
           s \in inTime' => s \in inTime
    PROVE  Kept(s)'
BY DEF Elsewhere, Kept, Tagged, Holds

\* A run whose tag was saved while no attempt held older metadata keeps the tag through
\* every later save of every attempt, and has its result when it has succeeded.
THEOREM TagIsKept == Spec => []MetadataKept
<1> DEFINE K == \A r \in Runs : Kept(r)
<1>1. Init => K
  BY DEF Init, Kept
<1>2. TypeOK /\ Truth /\ K /\ [Next]_vars => K'
  <2> SUFFICES ASSUME TypeOK, Truth, K, [Next]_vars
               PROVE  K'
    OBVIOUS
  <2>0. \A r \in Runs : Sole(r) /\ Kept(r)
    BY DEF Truth
  <2>1. CASE UNCHANGED vars
    BY <2>1 DEF vars, Kept, Tagged, Holds
  <2>2. ASSUME NEW r \in Runs, CreateRun(r) \/ LaunchStep(r) \/ LaunchRaises(r)
        PROVE  K'
    BY <2>0, <2>2, LaunchEffect, KeptLaunch, KeptElsewhere
  <2>3. ASSUME NEW r \in Runs, NEW k \in Attempts, TaskStep(r, k)
        PROVE  K'
    BY <2>0, <2>3, TaskEffect, KeptTask, KeptElsewhere
  <2>4. ASSUME NEW r \in Runs, NEW a \in Actors, NoticeStep(r, a)
        PROVE  K'
    BY <2>0, <2>4, NoticeEffect, KeptNotice, KeptElsewhere
  <2>5. QED
    BY <2>1, <2>2, <2>3, <2>4 DEF Next
<1>3. TypeOK /\ K => MetadataKept
  BY DEF TypeOK, Kept, MetadataKept
<1>4. QED
  BY <1>1, <1>2, <1>3, TypeInvariant, TruthAlways, PTL DEF Spec

-----------------------------------------------------------------------------
(* Whom a run that was tagged in time notifies.  A finished run has been      *)
(* announced or will be by an attempt that is past its last save; an          *)
(* unfinished one has an attempt or a message that will finish it.            *)

\* Addressees that only a tagged run concerns.
Named == {"schedule", "template_rule"}

\* The launch has handed the run over, and has not raised.
HandedOver(r) == pc[r][0] \in {"reread", "tag_run", "tag_job"} \/ r \in inTime

UnderWay(r) == queue[r] # {} \/ \E k \in Attempts : Acting(r, k)

\* The attempts that are past their notices.
Through(r) == {k \in Attempts : pc[r][k] \in {"conclude", "done"}}

\* The attempt will send notices to the schedule and the template's rules.
WillTell(r, k) ==
    \/ pc[r][k] \in {"notify", "recheck"}
    \/ pc[r][k] = "send" /\ Terminal(copy[r][k]) /\ copy[r][k].tagged /\ copy[r][k].template

Promised(r) ==
    /\ row[r].template
    /\ pc[r][0] \in {"touch", "done"}
    /\ pc[r][0] = "touch" => ~Terminal(copy[r][0])
    /\ \A x \in Named : sent[r][x] <= Cardinality(Through(r))
    /\ Terminal(row[r]) => (\A x \in Named : sent[r][x] > 0) \/ \E k \in Attempts : WillTell(r, k)

Noticed(r) ==
    /\ HandedOver(r) /\ ~Terminal(row[r]) => UnderWay(r)
    /\ ~Terminal(row[r]) => /\ \A x \in Named : sent[r][x] = 0
                            /\ \A a \in Actors : pc[r][a] \notin {"notify", "send", "conclude"}
    /\ pc[r][0] = "tag_job" => row[r].template
    /\ r \in inTime => Promised(r)

LEMMA ThroughFinite ==
    ASSUME NEW r \in Runs
    PROVE  /\ IsFiniteSet(Attempts) /\ IsFiniteSet(Through(r)) /\ Cardinality(Through(r)) \in Nat
           /\ \A S \in SUBSET Attempts : IsFiniteSet(S) /\ Cardinality(S) \in Nat
<1>1. IsFiniteSet(Attempts)
  BY StepsAssumption, FS_Interval DEF Attempts
<1>2. QED
  BY <1>1, FS_Subset, FS_CardinalityType DEF Through

LEMMA SentTyped ==
    ASSUME TypeOK, NEW r \in Runs
    PROVE  sent[r] \in [Addressees -> Nat] /\ \A x \in Named : x \in Addressees /\ sent[r][x] \in Nat
BY DEF TypeOK, Named, Addressees

\* Attempts that are through stay so.
LEMMA ThroughGrows ==
    ASSUME TypeOK, TypeOK', NEW r \in Runs, Through(r) \subseteq Through(r)', sent'[r] = sent[r],
           \A x \in Named : sent[r][x] <= Cardinality(Through(r))
    PROVE  \A x \in Named : sent'[r][x] <= Cardinality(Through(r)')
<1>1. Through(r)' \subseteq Attempts /\ Through(r) \subseteq Attempts
  BY DEF Through
<1>2. Cardinality(Through(r)) <= Cardinality(Through(r)')
  BY <1>1, ThroughFinite, FS_Subset
<1>3. Cardinality(Through(r)) \in Nat /\ Cardinality(Through(r)') \in Nat
  BY <1>1, ThroughFinite
<1>4. QED
  BY <1>2, <1>3, SentTyped

LEMMA NoticedElsewhere ==
    ASSUME NEW r \in Runs, Elsewhere(r), NEW s \in Runs, s # r, Noticed(s), sent'[s] = sent[s],
           s \in inTime' => s \in inTime
    PROVE  Noticed(s)'
<1>1. /\ row'[s] = row[s] /\ pc'[s] = pc[s] /\ copy'[s] = copy[s] /\ queue'[s] = queue[s] /\ sent'[s] = sent[s]
      /\ Through(s)' = Through(s)
  BY DEF Elsewhere, Through
<1>2. /\ \A k \in Attempts : (Acting(s, k)' <=> Acting(s, k)) /\ (WillTell(s, k)' <=> WillTell(s, k))
      /\ Terminal(row'[s]) <=> Terminal(row[s])
      /\ Terminal(copy'[s][0]) <=> Terminal(copy[s][0])
      /\ UnderWay(s)' <=> UnderWay(s)
  BY <1>1 DEF Acting, WillTell, Terminal, UnderWay
<1>3. Promised(s) => Promised(s)'
  BY <1>1, <1>2 DEF Promised
<1>4. QED
  BY <1>1, <1>2, <1>3 DEF Noticed, HandedOver

LEMMA OthersUntold ==
    ASSUME TypeOK, NEW r \in Runs, NEW a \in Actors,
           \/ a = 0 /\ (CreateRun(r) \/ LaunchStep(r) \/ LaunchRaises(r))
           \/ a \in Attempts /\ TaskStep(r, a)
           \/ NoticeStep(r, a)
    PROVE  \A s \in Runs : s # r => sent'[s] = sent[s]
<1>1. \/ sent' = sent
      \/ sent' = [sent EXCEPT ![r]["exception"] = @ + 1]
      \/ \E f : sent' = [sent EXCEPT ![r] = f]
  <2>1. CASE LaunchRaises(r)
    BY <2>1 DEF LaunchRaises
  <2>2. CASE NoticeStep(r, a)
    BY <2>2 DEF NoticeStep, ReadForNotice, SendNotices, Conclude, others, notices
  <2>3. CASE CreateRun(r) \/ LaunchStep(r) \/ TaskStep(r, a)
    BY <2>3 DEF CreateRun, LaunchStep, Dispatch, DispatchRefused, RereadRun, TagRun, TagJob, TouchSchedule,
                TaskStep, LoadJob, MarkRunning, SaveProgress, RefreshJob, MarkSucceeded, MarkCancelled, MarkFailed,
                MarkRetry, PublishRetry, RecheckRun, others, notices
  <2>4. QED
    BY <2>1, <2>2, <2>3
<1>2. QED
  BY <1>1 DEF TypeOK

\* A step of an attempt before its notices: it leaves the run under way, or finished and
\* about to be announced.
LEMMA NoticedAttempt ==
    ASSUME TypeOK, TypeOK', NEW r \in Runs, Noticed(r), NEW k \in Attempts, NEW p \in Pcs, Goto(r, k, p),
           pc[r][k] \notin {"notify", "send", "conclude", "done"}, p \notin {"send", "conclude"},
           p = "notify" => Terminal(row'[r]),
           sent' = sent, inTime' = inTime, row'[r].template = row[r].template,
           \A b \in Actors : b # k => copy'[r][b] = copy[r][b],
           Terminal(row[r]) => Terminal(row'[r]),
           HandedOver(r) /\ ~Terminal(row'[r]) => UnderWay(r)',
           Terminal(row'[r]) => p \in {"notify", "recheck"}
    PROVE  Noticed(r)'
<1> USE ActorsFacts
<1>0. k # 0
  BY StepsAssumption DEF Attempts
<1>1. pc'[r][k] = p /\ (\A b \in Actors : b # k => pc'[r][b] = pc[r][b]) /\ pc'[r][0] = pc[r][0]
  BY <1>0, PcTyped
<1>2. HandedOver(r)' <=> HandedOver(r)
  BY <1>1 DEF HandedOver
<1>3. ~Terminal(row'[r]) => /\ \A x \in Named : sent'[r][x] = 0
                            /\ \A a \in Actors : pc'[r][a] \notin {"notify", "send", "conclude"}
  BY <1>1 DEF Noticed
<1>4. ASSUME r \in inTime
      PROVE  Promised(r)'
  <2>1. Through(r) \subseteq Through(r)'
    BY <1>1 DEF Through
  <2>2. \A x \in Named : sent'[r][x] <= Cardinality(Through(r)')
    BY <1>4, <2>1, ThroughGrows DEF Noticed, Promised
  <2>3. copy'[r][0] = copy[r][0]
    BY <1>0
  <2>4. Terminal(row'[r]) => WillTell(r, k)'
    BY <1>1 DEF WillTell
  <2>5. QED
    BY <1>1, <1>4, <2>2, <2>3, <2>4 DEF Noticed, Promised
<1>5. QED
  BY <1>1, <1>2, <1>3, <1>4 DEF Noticed

LEMMA NoticedTask ==
    ASSUME TypeOK, TypeOK', NEW r \in Runs, Sole(r), Noticed(r), NEW k \in Attempts, TaskStep(r, k)
    PROVE  Noticed(r)'
<1> USE ActorsFacts
<1>1. /\ sent' = sent /\ inTime' = inTime
      /\ Terminal(row[r]) => row'[r].state = row[r].state
      /\ row[r] \in Row /\ WithMetadata(r, k) \in Row /\ row \in [Runs -> Row]
      /\ WithMetadata(r, k).state = row[r].state /\ WithMetadata(r, k).template = row[r].template
  <2>1. sent' = sent /\ inTime' = inTime
    BY DEF TaskStep, LoadJob, MarkRunning, SaveProgress, RefreshJob, MarkSucceeded, MarkCancelled,
       MarkFailed, MarkRetry, PublishRetry, RecheckRun, others, notices
  <2>2. WithMetadata(r, k).template = row[r].template
    BY RowTyped DEF WithMetadata, Row
  <2>3. QED
    BY <2>1, <2>2, TaskEffect, RowTyped, WrittenState DEF TypeOK
<1>2. Terminal(row[r]) => Terminal(row'[r])
  BY <1>1 DEF Terminal
<1>3. Acting(r, k) => ~Terminal(row[r])
  BY DEF Sole, NobodyActs
\* The attempt goes on, and the run with it.
<1>4. ASSUME NEW p \in {"start", "work", "saved", "publish"}, Goto(r, k, p),
             pc[r][k] \notin {"notify", "send", "conclude", "done"}, row'[r].template = row[r].template,
             \A b \in Actors : b # k => copy'[r][b] = copy[r][b], ~Terminal(row'[r])
      PROVE  Noticed(r)'
  <2>1. p \in Pcs
    BY DEF Pcs, TaskPcs
  <2>2. pc'[r][k] = p
    BY <1>4, <2>1, PcTyped
  <2>3. UnderWay(r)'
    BY <1>4, <2>2 DEF UnderWay, Acting
  <2>4. QED
    BY <1>1, <1>2, <1>4, <2>1, <2>3, NoticedAttempt
\* The attempt finishes the run.
<1>5. ASSUME NEW p \in {"notify", "recheck"}, Goto(r, k, p), copy' = copy,
             pc[r][k] \notin {"notify", "send", "conclude", "done"}, row'[r].template = row[r].template,
             Terminal(row'[r])
      PROVE  Noticed(r)'
  <2>1. p \in Pcs
    BY DEF Pcs, TaskPcs
  <2>2. QED
    BY <1>1, <1>2, <1>5, <2>1, NoticedAttempt
<1>6. CASE LoadJob(r, k)
  <2>1. k \in queue[r] /\ pc[r][k] = "idle" /\ row' = row /\ Goto(r, k, "start") /\ Read(r, k)
    BY <1>6 DEF LoadJob
  <2>2. ~Terminal(row[r])
    BY <2>1 DEF Sole
  <2>3. QED
    BY <1>4, <2>1, <2>2, ReadTyped
<1>7. CASE MarkRunning(r, k)
  <2>1. /\ pc[r][k] = "start" /\ row' = [row EXCEPT ![r] = [row[r] EXCEPT !.state = "running"]]
        /\ Goto(r, k, "work") /\ copy' = copy
    BY <1>7 DEF MarkRunning, SaveRow
  <2>2. row'[r].state = "running" /\ row'[r].template = row[r].template
    BY <1>1, <2>1 DEF Row
  <2>3. QED
    BY <1>4, <2>1, <2>2 DEF Terminal, TerminalStates
<1>8. CASE SaveProgress(r, k)
  <2>1. pc[r][k] = "work" /\ row' = [row EXCEPT ![r] = WithMetadata(r, k)] /\ Goto(r, k, "saved") /\ copy' = copy
    BY <1>8 DEF SaveProgress, SaveRow
  <2>2. row'[r].state = row[r].state /\ row'[r].template = row[r].template
    BY <1>1, <2>1
  <2>3. ~Terminal(row'[r])
    BY <1>3, <2>1, <2>2 DEF Acting, Terminal
  <2>4. QED
    BY <1>4, <2>1, <2>2, <2>3
<1>9. CASE RefreshJob(r, k)
  <2>1. pc[r][k] = "saved" /\ row' = row /\ Goto(r, k, "work") /\ Read(r, k)
    BY <1>9 DEF RefreshJob
  <2>2. ~Terminal(row[r])
    BY <1>3, <2>1 DEF Acting
  <2>3. QED
    BY <1>4, <2>1, <2>2, ReadTyped
<1>10. CASE MarkSucceeded(r, k)
  <2>1. /\ pc[r][k] = "saved" /\ Goto(r, k, "notify") /\ copy' = copy
        /\ row' = [row EXCEPT ![r] = [WithMetadata(r, k) EXCEPT !.state = "succeeded", !.result = TRUE]]
    BY <1>10 DEF MarkSucceeded, SaveRow, others
  <2>2. row'[r].state = "succeeded" /\ row'[r].template = row[r].template
    BY <1>1, <2>1 DEF Row
  <2>3. QED
    BY <1>5, <2>1, <2>2 DEF Terminal, TerminalStates
<1>11. CASE MarkCancelled(r, k) \/ MarkFailed(r, k)
  <2>1. PICK p \in {"notify", "recheck"}, st \in {"cancelled", "failed"} :
            /\ pc[r][k] \in {"work", "saved"} /\ Goto(r, k, p) /\ copy' = copy
            /\ row' = [row EXCEPT ![r] = [WithMetadata(r, k) EXCEPT !.state = st]]
    BY <1>11 DEF MarkCancelled, MarkFailed, SaveRow, others
  <2>2. row'[r].state = st /\ row'[r].template = row[r].template
    BY <1>1, <2>1 DEF Row
  <2>3. QED
    BY <1>5, <2>1, <2>2 DEF Terminal, TerminalStates
<1>12. CASE MarkRetry(r, k)
  <2>1. /\ pc[r][k] \in {"work", "saved"} /\ Goto(r, k, "publish") /\ copy' = copy
        /\ row' = [row EXCEPT ![r] = [WithMetadata(r, k) EXCEPT !.state = "queued"]]
    BY <1>12 DEF MarkRetry, SaveRow, others
  <2>2. row'[r].state = "queued" /\ row'[r].template = row[r].template
    BY <1>1, <2>1 DEF Row
  <2>3. QED
    BY <1>4, <2>1, <2>2 DEF Terminal, TerminalStates
<1>13. CASE PublishRetry(r, k)
  <2>1. /\ pc[r][k] = "publish" /\ row' = row /\ copy' = copy /\ Goto(r, k, "recheck")
        /\ queue' = [queue EXCEPT ![r] = queue[r] \union {k + 1}]
    BY <1>13 DEF PublishRetry
  <2>2. queue'[r] # {} /\ UnderWay(r)'
    BY <2>1 DEF TypeOK, UnderWay
  <2>3. "recheck" \in Pcs /\ ~Terminal(row[r])
    BY <1>3, <2>1 DEF Pcs, TaskPcs, Acting
  <2>4. QED
    BY <1>1, <1>2, <2>1, <2>2, <2>3, NoticedAttempt
<1>14. CASE RecheckRun(r, k)
  <2>1. PICK p \in {"notify", "done"} :
            /\ pc[r][k] = "recheck" /\ row' = row /\ copy' = copy /\ queue' = queue /\ Goto(r, k, p)
            /\ p = "notify" <=> Terminal(row[r])
    BY <1>14 DEF RecheckRun, others
  <2>2. p \in Pcs
    BY DEF Pcs
  <2>3. HandedOver(r) /\ ~Terminal(row[r]) => UnderWay(r)'
    <3>1. SUFFICES ASSUME UnderWay(r) PROVE UnderWay(r)'
      BY DEF Noticed
    <3>2. \A j \in Attempts : Acting(r, j) => Acting(r, j)'
      BY <2>1, <2>2, PcTyped DEF Acting
    <3>3. QED
      BY <2>1, <3>1, <3>2 DEF UnderWay
  <2>4. QED
    BY <1>1, <1>2, <2>1, <2>2, <2>3, NoticedAttempt
<1>15. QED
  BY <1>6, <1>7, <1>8, <1>9, <1>10, <1>11, <1>12, <1>13, <1>14 DEF TaskStep

LEMMA NoticedNotice ==
    ASSUME TypeOK, TypeOK', NEW r \in Runs, Kept(r), Noticed(r), NEW a \in Actors, NoticeStep(r, a)
    PROVE  Noticed(r)'
<1> USE ActorsFacts
<1>1. PICK p \in {"send", "conclude", "done"} :
           /\ Goto(r, a, p) /\ pc[r][a] \in {"notify", "send", "conclude"}
           /\ UNCHANGED <<row, queue, inTime>>
  BY DEF NoticeStep, ReadForNotice, SendNotices, Conclude, others
<1>2. pc'[r][a] = p /\ \A b \in Actors : b # a => pc'[r][b] = pc[r][b]
  BY <1>1, PcTyped DEF Pcs
<1>3. Terminal(row[r])
  BY <1>1 DEF Noticed
<1>4. ~(pc'[r][0] = "tag_job") \/ pc[r][0] = "tag_job"
  BY <1>2
<1>5. ASSUME r \in inTime
      PROVE  Promised(r)'
  <2>1. Promised(r) /\ a # 0 /\ a \in Attempts
    <3>1. Promised(r) /\ a # 0
      BY <1>1, <1>5 DEF Noticed, Promised
    <3>2. QED
      BY <3>1, StepsAssumption DEF Actors, Attempts
  <2>2. pc'[r][0] = pc[r][0]
    BY <1>2, <2>1
  <2>3. CASE ReadForNotice(r, a)
    <3>1. /\ pc[r][a] = "notify" /\ copy'[r][a] = row[r] /\ Goto(r, a, "send") /\ sent' = sent
          /\ \A b \in Actors : b # a => copy'[r][b] = copy[r][b]
      BY <2>3, ReadTyped DEF ReadForNotice, others, notices
    <3>2. pc'[r][a] = "send"
      BY <3>1, PcTyped DEF Pcs
    <3>3. WillTell(r, a)'
      BY <1>3, <1>5, <2>1, <3>1, <3>2 DEF WillTell, Kept, Promised
    <3>4. Through(r) \subseteq Through(r)'
      BY <1>2, <3>1 DEF Through
    <3>5. \A x \in Named : sent'[r][x] <= Cardinality(Through(r)')
      BY <2>1, <3>1, <3>4, ThroughGrows DEF Promised
    <3>6. copy'[r][0] = copy[r][0]
      BY <2>1, <3>1
    <3>7. QED
      BY <1>1, <2>1, <2>2, <3>3, <3>5, <3>6 DEF Promised
  <2>4. CASE SendNotices(r, a)
    <3> DEFINE c == copy[r][a]
    <3>1. pc[r][a] = "send" /\ copy' = copy /\ pc'[r][a] = "conclude"
      BY <2>4, PcTyped DEF SendNotices, Pcs
    <3>2. a \notin Through(r) /\ Through(r)' = Through(r) \union {a}
      BY <1>2, <2>1, <3>1 DEF Through
    <3>3. Cardinality(Through(r)') = Cardinality(Through(r)) + 1
      BY <3>2, ThroughFinite, FS_AddElement
    <3>4. \A x \in Named : /\ sent'[r][x] \in {sent[r][x], sent[r][x] + 1}
                           /\ Terminal(c) /\ c.tagged /\ c.template => sent'[r][x] = sent[r][x] + 1
      <4>1. CASE ~Terminal(c)
        BY <2>4, <4>1 DEF SendNotices, notices
      <4>2. CASE Terminal(c)
        <5>1. sent' = [sent EXCEPT ![r] = [x \in Addressees |->
                           IF x \in Concerned(c) THEN sent[r][x] + 1 ELSE sent[r][x]]]
          BY <2>4, <4>2 DEF SendNotices
        <5>2. sent'[r] = [x \in Addressees |-> IF x \in Concerned(c) THEN sent[r][x] + 1 ELSE sent[r][x]]
          BY <5>1 DEF TypeOK
        <5>3. c.tagged /\ c.template => \A x \in Named : x \in Concerned(c)
          BY DEF Named, Concerned
        <5> HIDE DEF c
        <5>4. QED
          BY <5>2, <5>3, SentTyped
      <4>3. QED
        BY <4>1, <4>2
    <3>5. \A x \in Named : sent'[r][x] <= Cardinality(Through(r)')
      <4>1. Cardinality(Through(r)) \in Nat
        BY ThroughFinite
      <4>2. QED
        BY <2>1, <3>3, <3>4, <4>1, SentTyped DEF Promised
    <3>6. (\A x \in Named : sent[r][x] > 0) => (\A x \in Named : sent'[r][x] > 0)
      BY <3>4, SentTyped
    <3>7. WillTell(r, a) => \A x \in Named : sent'[r][x] > 0
      BY <3>1, <3>4, SentTyped DEF WillTell
    <3>8. \A k \in Attempts : k # a /\ WillTell(r, k) => WillTell(r, k)'
      BY <1>2, <3>1 DEF WillTell
    <3>9. (\A x \in Named : sent'[r][x] > 0) \/ \E k \in Attempts : WillTell(r, k)'
      BY <1>3, <2>1, <3>6, <3>7, <3>8 DEF Promised
    <3>10. QED
      BY <1>1, <2>1, <2>2, <3>1, <3>5, <3>9 DEF Promised
  <2>5. CASE Conclude(r, a)
    <3>1. pc[r][a] = "conclude" /\ copy' = copy /\ sent' = sent /\ pc'[r][a] = "done"
      BY <2>5, PcTyped DEF Conclude, notices, Pcs
    <3>2. Through(r) \subseteq Through(r)'
      BY <1>2, <3>1 DEF Through
    <3>3. \A x \in Named : sent'[r][x] <= Cardinality(Through(r)')
      BY <2>1, <3>1, <3>2, ThroughGrows DEF Promised
    <3>4. \A k \in Attempts : WillTell(r, k) => WillTell(r, k)'
      BY <1>2, <3>1 DEF WillTell
    <3>5. QED
      BY <1>1, <2>1, <2>2, <3>1, <3>3, <3>4 DEF Promised
  <2>6. QED
    BY <2>3, <2>4, <2>5 DEF NoticeStep
<1>6. QED
  BY <1>1, <1>3, <1>4, <1>5 DEF Noticed

LEMMA NoticedLaunch ==
    ASSUME TypeOK, TypeOK', NEW r \in Runs, Sole(r), CopyTrue(r), Kept(r), Noticed(r),
           CreateRun(r) \/ LaunchStep(r) \/ LaunchRaises(r)
    PROVE  Noticed(r)'
<1> USE ActorsFacts
<1>0. \A k \in Attempts : k # 0
  BY StepsAssumption DEF Attempts
<1>1. /\ row[r] \in Row /\ WithMetadata(r, 0) \in Row /\ row \in [Runs -> Row]
      /\ WithMetadata(r, 0).state = row[r].state /\ WithMetadata(r, 0).template = row[r].template
  <2>1. WithMetadata(r, 0).template = row[r].template
    BY RowTyped DEF WithMetadata, Row
  <2>2. QED
    BY <2>1, RowTyped, WrittenState DEF TypeOK
\* The launch does not notify, and finds the run as far as it was.
<1>2. ASSUME NEW p \in Pcs \ {"notify", "send", "conclude"}, Goto(r, 0, p)
      PROVE  /\ pc'[r][0] = p /\ (\A k \in Attempts : pc'[r][k] = pc[r][k])
             /\ (\A a \in Actors : pc[r][a] \notin {"notify", "send", "conclude"}) =>
                    \A a \in Actors : pc'[r][a] \notin {"notify", "send", "conclude"}
             /\ queue'[r] = queue[r] => (UnderWay(r)' <=> UnderWay(r))
             /\ Through(r)' = Through(r)
             /\ copy' = copy => \A k \in Attempts : WillTell(r, k)' <=> WillTell(r, k)
  <2>1. pc'[r][0] = p /\ (\A b \in Actors : b # 0 => pc'[r][b] = pc[r][b])
    BY <1>2, PcTyped
  <2>2. \A k \in Attempts : pc'[r][k] = pc[r][k]
    BY <1>0, <2>1
  <2>3. QED
    BY <2>1, <2>2 DEF UnderWay, Acting, Through, WillTell
<1>3. ~Tagged(r) => r \notin inTime
  BY DEF Kept
<1>4. CASE CreateRun(r)
  <2>1. pc[r][0] = "idle" /\ Goto(r, 0, "dispatch") /\ UNCHANGED <<sent, inTime, queue>>
    BY <1>4 DEF CreateRun, others, notices
  <2>2. ~Terminal(row[r]) /\ r \notin inTime'
    BY <1>3, <2>1 DEF Sole, Opening, Tagged
  <2>3. "dispatch" \in Pcs \ {"notify", "send", "conclude"}
    BY DEF Pcs, LaunchPcs
  <2>4. QED
    BY <1>2, <2>1, <2>2, <2>3 DEF Noticed, HandedOver
<1>5. CASE Dispatch(r)
  <2>1. /\ pc[r][0] = "dispatch" /\ Goto(r, 0, "reread") /\ UNCHANGED <<row, sent, inTime>>
        /\ queue' = [queue EXCEPT ![r] = {1}]
    BY <1>5 DEF Dispatch, notices
  <2>2. r \notin inTime' /\ queue'[r] # {}
    BY <1>3, <2>1 DEF Tagged, TypeOK
  <2>3. "reread" \in Pcs \ {"notify", "send", "conclude"}
    BY DEF Pcs, LaunchPcs
  <2>4. QED
    BY <1>2, <2>1, <2>2, <2>3 DEF Noticed, UnderWay
<1>6. CASE DispatchRefused(r)
  <2>1. /\ pc[r][0] = "dispatch" /\ Goto(r, 0, "reread") /\ UNCHANGED <<sent, inTime>>
        /\ row' = [row EXCEPT ![r] = [WithMetadata(r, 0) EXCEPT !.state = "failed"]]
    BY <1>6 DEF DispatchRefused, SaveRow, others, notices
  <2>2. row'[r].state = "failed" /\ r \notin inTime'
    BY <1>1, <1>3, <2>1 DEF Row, Tagged
  <2>3. pc'[r][0] = "reread"
    BY <1>2, <2>1 DEF Pcs, LaunchPcs
  <2>4. QED
    BY <2>2, <2>3 DEF Noticed, Terminal, TerminalStates
<1>7. CASE RereadRun(r)
  <2>1. pc[r][0] = "reread" /\ Goto(r, 0, "tag_run") /\ UNCHANGED <<row, sent, inTime, queue>>
    BY <1>7 DEF RereadRun, others, notices
  <2>2. r \notin inTime'
    BY <1>3, <2>1 DEF Tagged
  <2>3. "tag_run" \in Pcs \ {"notify", "send", "conclude"}
    BY DEF Pcs, LaunchPcs
  <2>4. QED
    BY <1>2, <2>1, <2>2, <2>3 DEF Noticed, HandedOver
<1>8. CASE TagRun(r)
  <2>1. /\ pc[r][0] = "tag_run" /\ Goto(r, 0, "tag_job") /\ UNCHANGED <<sent, inTime, queue>>
        /\ row' = [row EXCEPT ![r] = [row[r] EXCEPT !.template = TRUE]]
    BY <1>8 DEF TagRun, SaveRow, others, notices
  <2>2. r \notin inTime' /\ row'[r].template /\ row'[r].state = row[r].state
    BY <1>1, <1>3, <2>1 DEF Tagged, Row
  <2>3. "tag_job" \in Pcs \ {"notify", "send", "conclude"}
    BY DEF Pcs, LaunchPcs
  <2>4. QED
    BY <1>2, <2>1, <2>2, <2>3 DEF Noticed, HandedOver, Terminal
<1>9. CASE TagJob(r)
  <2>1. /\ pc[r][0] = "tag_job" /\ Goto(r, 0, "touch") /\ UNCHANGED <<copy, sent, queue>>
        /\ row' = [row EXCEPT ![r] = [WithMetadata(r, 0) EXCEPT !.tagged = TRUE]]
        /\ r \in inTime' => r \in inTime \/ ~Terminal(row[r])
    BY <1>9 DEF TagJob, SaveRow, notices
  <2>2. row'[r].template /\ row'[r].state = row[r].state
    BY <1>1, <2>1 DEF Row, Noticed
  <2>3. "touch" \in Pcs \ {"notify", "send", "conclude"} /\ r \notin inTime
    BY <1>3, <2>1 DEF Pcs, LaunchPcs, Tagged
  <2>4. Terminal(row'[r]) <=> Terminal(row[r])
    BY <2>2 DEF Terminal
  <2>5. ~Terminal(row[r]) => ~Terminal(copy[r][0])
    BY DEF CopyTrue, Terminal
  <2>6. pc'[r][0] = "touch" /\ Through(r)' = Through(r) /\ (UnderWay(r)' <=> UnderWay(r))
    BY <1>2, <2>1, <2>3
  <2>7. ~Terminal(row'[r]) => /\ \A x \in Named : sent'[r][x] = 0
                              /\ \A a \in Actors : pc'[r][a] \notin {"notify", "send", "conclude"}
    BY <1>2, <2>1, <2>3, <2>4 DEF Noticed
  <2>8. ~Terminal(row[r]) => \A x \in Named : sent'[r][x] <= Cardinality(Through(r)')
    <3>1. Cardinality(Through(r)) \in Nat
      BY ThroughFinite
    <3>2. QED
      BY <2>4, <2>6, <2>7, <3>1
  <2>9. r \in inTime' => Promised(r)'
    BY <2>1, <2>2, <2>3, <2>4, <2>5, <2>6, <2>8 DEF Promised
  <2>10. HandedOver(r)' /\ ~Terminal(row'[r]) => UnderWay(r)'
    BY <2>1, <2>4, <2>6 DEF Noticed, HandedOver
  <2>11. QED
    BY <2>6, <2>7, <2>9, <2>10 DEF Noticed
<1>10. CASE TouchSchedule(r)
  <2>1. /\ pc[r][0] = "touch" /\ UNCHANGED <<row, copy, sent, inTime, queue>>
        /\ Goto(r, 0, IF Terminal(copy[r][0]) THEN "notify" ELSE "done")
    BY <1>10 DEF TouchSchedule, notices
  <2>2. CASE Terminal(copy[r][0])
    <3>1. Terminal(row[r]) /\ r \notin inTime'
      BY <2>1, <2>2 DEF CopyTrue, Terminal, Noticed, Promised
    <3>2. pc'[r][0] = "notify"
      BY <2>1, <2>2, PcTyped DEF Pcs
    <3>3. QED
      BY <2>1, <3>1, <3>2 DEF Noticed
  <2>3. CASE ~Terminal(copy[r][0])
    <3>1. Goto(r, 0, "done") /\ "done" \in Pcs \ {"notify", "send", "conclude"}
      BY <2>1, <2>3 DEF Pcs
    <3>2. HandedOver(r)' => HandedOver(r)
      BY <1>2, <2>1, <3>1 DEF HandedOver
    <3>3. Promised(r) => Promised(r)'
      BY <1>2, <2>1, <3>1 DEF Promised
    <3>4. QED
      BY <1>2, <2>1, <3>1, <3>2, <3>3 DEF Noticed
  <2>4. QED
    BY <2>2, <2>3
<1>11. CASE LaunchRaises(r)
  <2>1. /\ pc[r][0] \in {"idle", "reread", "tag_run", "tag_job", "touch"} /\ Goto(r, 0, "done")
        /\ UNCHANGED <<row, copy, inTime, queue>> /\ sent' = [sent EXCEPT ![r]["exception"] = @ + 1]
    BY <1>11 DEF LaunchRaises
  <2>2. \A x \in Named : sent'[r][x] = sent[r][x]
    <3>1. sent' = [sent EXCEPT ![r] = [sent[r] EXCEPT !["exception"] = sent[r]["exception"] + 1]]
      BY <2>1
    <3>2. sent'[r] = [sent[r] EXCEPT !["exception"] = sent[r]["exception"] + 1]
      BY <3>1 DEF TypeOK
    <3>3. QED
      BY <3>2, SentTyped DEF Named
  <2>3. "done" \in Pcs \ {"notify", "send", "conclude"}
    BY DEF Pcs
  <2>4. HandedOver(r)' => HandedOver(r)
    BY <1>2, <2>1, <2>3 DEF HandedOver
  <2>5. Promised(r) => Promised(r)'
    BY <1>2, <2>1, <2>2, <2>3 DEF Promised
  <2>6. QED
    BY <1>2, <2>1, <2>2, <2>3, <2>4, <2>5 DEF Noticed
<1>12. QED
  BY <1>4, <1>5, <1>6, <1>7, <1>8, <1>9, <1>10, <1>11 DEF LaunchStep

\* Once nothing of the run is under way, what was promised has been sent.
LEMMA SettledIsNotified ==
    ASSUME TypeOK, NEW r \in Runs, Noticed(r), r \in inTime, Settled(r)
    PROVE  \A x \in Named : sent[r][x] \in 1 .. Cardinality({k \in Attempts : Begun(r, k)})
<1> USE ActorsFacts
<1>1. \A k \in Attempts : pc[r][k] \in {"idle", "done"}
  BY DEF Settled
<1>2. ~UnderWay(r) /\ \A k \in Attempts : ~WillTell(r, k)
  BY <1>1 DEF Settled, UnderWay, Acting, WillTell
<1>3. Terminal(row[r]) /\ \A x \in Named : sent[r][x] > 0
  BY <1>2 DEF Noticed, HandedOver, Promised
<1>4. Through(r) = {k \in Attempts : Begun(r, k)}
  BY <1>1 DEF Through, Begun
<1>5. \A x \in Named : sent[r][x] <= Cardinality({k \in Attempts : Begun(r, k)})
  BY <1>4 DEF Noticed, Promised
<1>6. Cardinality({k \in Attempts : Begun(r, k)}) \in Nat
  BY <1>4, ThroughFinite
<1>7. QED
  BY <1>3, <1>5, <1>6, SentTyped

\* A run tagged in time notifies its schedule and its template's rules at least once, and at
\* most once per attempt, however the launch, the retries and their notices interleave.
THEOREM InTimeRunsNotify == Spec => []InTimeIsNotified
<1> DEFINE K == \A r \in Runs : Kept(r) /\ Noticed(r)
<1>1. Init => K
  <2> SUFFICES ASSUME Init, NEW r \in Runs
               PROVE  Kept(r) /\ Noticed(r)
    OBVIOUS
  <2>1. pc[r][0] = "idle" /\ r \notin inTime /\ \A a \in Actors : pc[r][a] = "idle"
    BY ActorsFacts DEF Init
  <2>2. \A x \in Named : sent[r][x] = 0
    BY DEF Init, Named, Addressees
  <2>3. QED
    BY <2>1, <2>2 DEF Kept, Noticed, HandedOver
<1>2. TypeOK /\ TypeOK' /\ Truth /\ K /\ [Next]_vars => K'
  <2> SUFFICES ASSUME TypeOK, TypeOK', Truth, K, [Next]_vars
               PROVE  K'
    OBVIOUS
  <2> USE ActorsFacts
  <2>0. \A r \in Runs : Sole(r) /\ CopyTrue(r) /\ Kept(r) /\ Noticed(r)
    BY DEF Truth
  <2>1. CASE UNCHANGED vars
    BY <2>1 DEF vars, Kept, Tagged, Holds, Noticed, Promised, HandedOver, UnderWay, Acting, Through, WillTell, Terminal
  <2>2. ASSUME NEW r \in Runs, CreateRun(r) \/ LaunchStep(r) \/ LaunchRaises(r)
        PROVE  K'
    <3>1. Elsewhere(r) /\ \A s \in Runs : s # r => sent'[s] = sent[s]
      BY <2>0, <2>2, LaunchEffect, OthersUntold
    <3>2. Kept(r)' /\ Noticed(r)' /\ \A s \in Runs : s # r /\ s \in inTime' => s \in inTime
      BY <2>0, <2>2, KeptLaunch, NoticedLaunch
    <3>3. QED
      BY <2>0, <3>1, <3>2, KeptElsewhere, NoticedElsewhere
  <2>3. ASSUME NEW r \in Runs, NEW k \in Attempts, TaskStep(r, k)
        PROVE  K'
    <3>1. Elsewhere(r) /\ \A s \in Runs : s # r => sent'[s] = sent[s]
      BY <2>0, <2>3, TaskEffect, OthersUntold
    <3>2. Kept(r)' /\ Noticed(r)' /\ inTime' = inTime
      BY <2>0, <2>3, KeptTask, NoticedTask
    <3>3. QED
      BY <2>0, <3>1, <3>2, KeptElsewhere, NoticedElsewhere
  <2>4. ASSUME NEW r \in Runs, NEW a \in Actors, NoticeStep(r, a)
        PROVE  K'
    <3>1. Elsewhere(r) /\ \A s \in Runs : s # r => sent'[s] = sent[s]
      BY <2>0, <2>4, NoticeEffect, OthersUntold
    <3>2. Kept(r)' /\ Noticed(r)' /\ inTime' = inTime
      BY <2>0, <2>4, KeptNotice, NoticedNotice
    <3>3. QED
      BY <2>0, <3>1, <3>2, KeptElsewhere, NoticedElsewhere
  <2>5. QED
    BY <2>1, <2>2, <2>3, <2>4 DEF Next
<1>3. TypeOK /\ K => InTimeIsNotified
  BY SettledIsNotified DEF InTimeIsNotified, Named, TypeOK
<1>4. QED
  BY <1>1, <1>2, <1>3, TypeInvariant, TruthAlways, PTL DEF Spec

=============================================================================
