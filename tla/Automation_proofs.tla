-------------------------- MODULE Automation_proofs --------------------------
(*****************************************************************************)
(* No digest loses a run and no member gets two of them a day, however the   *)
(* tasks overlap and crash (Digest), and a schedule and its periodic task    *)
(* agree once the requests that overlapped are over (ScheduleSync), for every*)
(* number of members, runs, tasks and requests.                              *)
(*****************************************************************************)
EXTENDS MCAutomation, FiniteSetTheorems, TLAPS

-----------------------------------------------------------------------------
(* Digests (Digest).  The mark in the preferences, the copies of it that a   *)
(* task or a request will use or save, and the time of a task that has read  *)
(* its runs: whatever one of them covers has been sent, or is in the hands   *)
(* of that task.                                                            *)

\* The part of the types that the argument uses.
DigestTyped ==
    /\ dgClock \in Ticks
    /\ dgPref \in WorkspacePreference
    /\ dgStamp \in [DigestRuns -> 0 .. LastTick]
    /\ dgSaved \subseteq DigestRuns /\ \A r \in dgSaved : dgStamp[r] # 0
    /\ dgTask \in [DigestTasks -> TaskRecord]
    /\ dgEdit \in [loaded : BOOLEAN, mark : 0 .. LastTick]
    /\ dgWants \subseteq Members

Heard(r) == \E u \in Recipients : <<u, r>> \in dgEvents

InHand(r, w) == r \in dgTask[w].runs /\ dgTask[w].todo # {}

RunOK(r) ==
    r \in dgSaved \ dgExcused =>
        /\ dgStamp[r] <= dgPref.mark => Heard(r)
        /\ dgStamp[r] <= dgEdit.mark => Heard(r)
        /\ \A w \in DigestTasks :
              /\ dgStamp[r] <= dgTask[w].mark => Heard(r)
              /\ dgTask[w].pc = "send" /\ dgStamp[r] <= dgTask[w].now => Heard(r) \/ InHand(r, w)

DigestInv == DigestTyped /\ \A r \in DigestRuns : RunOK(r)

LEMMA RecordFacts ==
    /\ NoTaskRecord \in TaskRecord /\ Ended \in TaskRecord
    /\ NoTaskRecord.mark = 0 /\ NoTaskRecord.pc = "queued" /\ Ended.mark = 0 /\ Ended.pc = "done"
BY DigestAssumption DEF NoTaskRecord, Ended, TaskRecord

LEMMA DigestStart == DigestInit => DigestInv
<1> SUFFICES ASSUME DigestInit
             PROVE  DigestInv
  OBVIOUS
<1>1. dgPref \in WorkspacePreference /\ 1 \in Ticks
  <2>1. PICK h \in 0 .. DigestSlots - 1 :
             dgPref = [enabled |-> FALSE, address |-> "default", hour |-> h, mark |-> 0]
    BY DEF DigestInit
  <2>2. QED
    BY <2>1, DigestAssumption DEF WorkspacePreference, Ticks
<1>2. DigestTyped
  BY <1>1, RecordFacts, DigestAssumption DEF DigestInit, DigestTyped
<1>3. QED
  BY <1>2 DEF DigestInit, DigestInv, RunOK

\* What is left to show of a step that moves one task at most and takes nothing back.
LEMMA DigestFrame ==
    ASSUME DigestTyped, NEW r \in DigestRuns, RunOK(r),
           r \in dgSaved' \ dgExcused' => r \in dgSaved \ dgExcused,
           r \in dgSaved => dgStamp'[r] = dgStamp[r],
           dgEvents \subseteq dgEvents',
           dgPref'.mark \in {dgPref.mark, dgEdit.mark}, 
           dgEdit'.mark \in {dgPref.mark, dgEdit.mark, 0},
           \A w \in DigestTasks :
              \/ dgTask'[w] = dgTask[w]
              \/ dgTask'[w].pc # "send" /\ dgTask'[w].mark \in {dgPref.mark, dgTask[w].mark, 0}
    PROVE  RunOK(r)'
<1> SUFFICES ASSUME r \in dgSaved' \ dgExcused'
             PROVE  /\ dgStamp'[r] <= dgPref'.mark => Heard(r)'
                    /\ dgStamp'[r] <= dgEdit'.mark => Heard(r)'
                    /\ \A w \in DigestTasks :
                          /\ dgStamp'[r] <= dgTask'[w].mark => Heard(r)'
                          /\ dgTask'[w].pc = "send" /\ dgStamp'[r] <= dgTask'[w].now
                                => Heard(r)' \/ InHand(r, w)'
  BY DEF RunOK
<1>1. r \in dgSaved \ dgExcused /\ dgStamp'[r] = dgStamp[r] /\ ~(dgStamp'[r] <= 0)
  BY DEF DigestTyped
<1>2. Heard(r) => Heard(r)'
  BY DEF Heard
<1>3. \A w \in DigestTasks : dgTask'[w] = dgTask[w] => (InHand(r, w) => InHand(r, w)')
  BY DEF InHand
<1>4. QED
  BY <1>1, <1>2, <1>3 DEF RunOK

LEMMA TaskTypedKept ==
    ASSUME DigestTyped, NEW w \in DigestTasks, NEW t \in TaskRecord, SetTask(w, t)
    PROVE  /\ dgTask' \in [DigestTasks -> TaskRecord] /\ dgTask'[w] = t
           /\ \A v \in DigestTasks : v # w => dgTask'[v] = dgTask[v]
BY DEF DigestTyped, SetTask

\* The clock, the runs and the preferences.
LEMMA DigestWorld ==
    ASSUME DigestInv,
           \/ DigestTick \/ (\E r \in DigestRuns : StampRun(r) \/ CommitRun(r))
           \/ (\E u \in Members : SaveUserPreference(u)) \/ LoadPreference \/ SavePreference
    PROVE  DigestInv'
<1> USE DEF DigestInv
<1>0. DigestTyped /\ \A r \in DigestRuns : RunOK(r)
  OBVIOUS
<1>1. CASE DigestTick
  <2>1. DigestTyped'
    BY <1>0, <1>1, DigestAssumption DEF DigestTick, DigestTyped, Ticks
  <2>2. QED
    BY <1>0, <1>1, <2>1, DigestFrame DEF DigestTick
<1>2. ASSUME NEW s \in DigestRuns, StampRun(s)
      PROVE  DigestInv'
  <2>1. s \notin dgSaved /\ dgClock \in 0 .. LastTick
    BY <1>0, <1>2 DEF StampRun, DigestTyped, Ticks
  <2>2. dgStamp' \in [DigestRuns -> 0 .. LastTick] /\ \A r \in DigestRuns : r # s => dgStamp'[r] = dgStamp[r]
    BY <1>0, <1>2, <2>1 DEF StampRun, DigestTyped
  <2>3. DigestTyped'
    BY <1>0, <1>2, <2>1, <2>2 DEF StampRun, DigestTyped
  <2>4. \A r \in DigestRuns : RunOK(r)'
    BY <1>0, <1>2, <2>1, <2>2, DigestFrame DEF StampRun
  <2>5. QED
    BY <2>3, <2>4
<1>3. ASSUME NEW s \in DigestRuns, CommitRun(s)
      PROVE  DigestInv'
  <2>1. DigestTyped'
    BY <1>0, <1>3 DEF CommitRun, DigestTyped
  <2>2. ASSUME NEW r \in DigestRuns, r # s
        PROVE  RunOK(r)'
    BY <1>0, <1>3, <2>2, DigestFrame DEF CommitRun
  <2>3. RunOK(s)'
    <3>1. SUFFICES ASSUME s \notin dgExcused'
                   PROVE  RunOK(s)'
      BY DEF RunOK
    <3>2. \A m \in Marks : ~(dgStamp[s] <= m)
      BY <1>3, <3>1 DEF CommitRun
    <3>3. /\ dgPref.mark \in Marks /\ dgEdit.mark \in Marks
          /\ \A w \in DigestTasks : /\ dgTask[w].mark \in Marks
                                    /\ dgTask[w].pc = "send" => dgTask[w].now \in Marks
      BY DEF Marks
    <3>4. UNCHANGED <<dgPref, dgEdit, dgTask, dgStamp>>
      BY <1>3 DEF CommitRun
    <3>5. QED
      BY <3>2, <3>3, <3>4 DEF RunOK
  <2>4. QED
    BY <2>1, <2>2, <2>3
<1>4. CASE \E u \in Members : SaveUserPreference(u)
  <2>1. DigestTyped'
    BY <1>0, <1>4 DEF SaveUserPreference, DigestTyped
  <2>2. QED
    BY <1>0, <1>4, <2>1, DigestFrame DEF SaveUserPreference
<1>5. CASE LoadPreference
  <2>1. dgPref.mark \in 0 .. LastTick
    BY <1>0 DEF DigestTyped, WorkspacePreference
  <2>2. DigestTyped'
    BY <1>0, <1>5, <2>1 DEF LoadPreference, DigestTyped
  <2>3. dgEdit'.mark = dgPref.mark
    BY <1>5 DEF LoadPreference
  <2>4. QED
    BY <1>0, <1>5, <2>2, <2>3, DigestFrame DEF LoadPreference
<1>6. CASE SavePreference
  <2>1. dgPref' \in WorkspacePreference /\ dgPref'.mark = dgEdit.mark /\ dgEdit' = [loaded |-> FALSE, mark |-> 0]
    BY <1>6 DEF SavePreference
  <2>2. 0 \in 0 .. LastTick /\ dgEdit'.mark = 0
    BY <2>1, DigestAssumption
  <2>3. DigestTyped'
    BY <1>0, <1>6, <2>1, <2>2 DEF SavePreference, DigestTyped
  <2>4. QED
    BY <1>0, <1>6, <2>1, <2>2, <2>3, DigestFrame DEF SavePreference
<1>7. QED
  BY <1>1, <1>2, <1>3, <1>4, <1>5, <1>6

\* The digest task.
LEMMA DigestTask ==
    ASSUME DigestInv, NEW w \in DigestTasks, TaskStep(w)
    PROVE  DigestInv'
<1> DEFINE t == dgTask[w]
<1>0. /\ DigestTyped /\ (\A r \in DigestRuns : RunOK(r)) /\ t \in TaskRecord
      /\ 0 \in 0 .. LastTick /\ dgClock \in 0 .. LastTick
  BY DigestAssumption DEF DigestInv, DigestTyped, Ticks
<1>a. /\ t.pc \in {"queued", "check", "collect", "send", "done"}
      /\ t.now \in 0 .. LastTick /\ t.mark \in 0 .. LastTick /\ t.address \in {"off", "default", "owner"}
      /\ t.runs \subseteq DigestRuns /\ t.todo \subseteq Recipients
  BY <1>0 DEF TaskRecord
<1>b. dgPref.mark \in 0 .. LastTick /\ dgPref.address \in {"off", "default", "owner"}
  BY <1>0 DEF DigestTyped, WorkspacePreference
\* The task is not about to mark what it has sent, and uses a mark that is known.
<1>1. ASSUME NEW n \in TaskRecord, SetTask(w, n), n.pc # "send", n.mark \in {dgPref.mark, t.mark, 0},
             UNCHANGED <<dgClock, dgPref, dgWants, dgStamp, dgSaved, dgEdit, dgEvents, dgExcused>>
      PROVE  DigestInv'
  <2>1. /\ dgTask' \in [DigestTasks -> TaskRecord] /\ dgTask'[w] = n
        /\ \A v \in DigestTasks : v # w => dgTask'[v] = dgTask[v]
    BY <1>0, <1>1, TaskTypedKept
  <2>2. DigestTyped'
    BY <1>0, <1>1, <2>1 DEF DigestTyped
  <2>3. \A r \in DigestRuns : RunOK(r)'
    BY <1>0, <1>1, <2>1, DigestFrame
  <2>4. QED
    BY <2>2, <2>3 DEF DigestInv
<1>2. CASE StartTask(w)
  <2> DEFINE n == [NoTaskRecord EXCEPT !.pc = "check", !.now = dgClock,
                                       !.mark = dgPref.mark, !.address = dgPref.address]
  <2>1. n \in TaskRecord /\ n.pc = "check" /\ n.mark = dgPref.mark
    BY <1>0, <1>b, RecordFacts DEF TaskRecord, NoTaskRecord
  <2>2. SetTask(w, n) \/ SetTask(w, Ended)
    BY <1>2 DEF StartTask
  <2>3. UNCHANGED <<dgClock, dgPref, dgWants, dgStamp, dgSaved, dgEdit, dgEvents, dgExcused>>
    BY <1>2 DEF StartTask
  <2> HIDE DEF n
  <2>4. QED
    BY <1>1, <2>1, <2>2, <2>3, RecordFacts
<1>3. CASE CheckDate(w)
  <2> DEFINE n == [t EXCEPT !.pc = "collect"]
  <2>1. n \in TaskRecord /\ n.pc = "collect" /\ n.mark = t.mark
    BY <1>0 DEF TaskRecord
  <2>2. SetTask(w, n) \/ SetTask(w, Ended)
    BY <1>3 DEF CheckDate
  <2>3. UNCHANGED <<dgClock, dgPref, dgWants, dgStamp, dgSaved, dgEdit, dgEvents, dgExcused>>
    BY <1>3 DEF CheckDate
  <2> HIDE DEF n
  <2>4. QED
    BY <1>1, <2>1, <2>2, <2>3, RecordFacts
<1>4. CASE CrashTask(w)
  <2>1. /\ SetTask(w, NoTaskRecord)
        /\ UNCHANGED <<dgClock, dgPref, dgWants, dgStamp, dgSaved, dgEdit, dgEvents, dgExcused>>
    BY <1>4 DEF CrashTask
  <2>2. QED
    BY <1>1, <2>1, RecordFacts
<1>5. CASE Collect(w)
  <2> DEFINE runs == RunsBetween(Since(t.mark, t.now), t.now)
  <2> DEFINE everybody == DigestRecipients(t.address)
  <2> DEFINE old == {r \in dgSaved : t.mark = 0 /\ dgStamp[r] <= t.now - DigestSlots}
  <2> DEFINE nobody == IF everybody = {} THEN runs ELSE {}
  <2> DEFINE todo == IF runs = {} THEN {} ELSE everybody
  <2> DEFINE n == [t EXCEPT !.pc = "send", !.runs = runs, !.address = "off", !.mark = 0, !.todo = todo]
  <2>1. /\ t.pc = "collect" /\ SetTask(w, n) /\ dgExcused' = dgExcused \union old \union nobody
        /\ UNCHANGED <<dgClock, dgPref, dgWants, dgStamp, dgSaved, dgEdit, dgEvents>>
    BY <1>5 DEF Collect
  <2>2. runs \subseteq dgSaved /\ dgSaved \subseteq DigestRuns
    BY <1>0 DEF RunsBetween, DigestTyped
  <2>3. everybody \subseteq Recipients
    BY <1>0, <1>a, DigestAssumption DEF DigestRecipients, DigestTyped, Recipients
  <2>4. \A r \in dgSaved : dgStamp[r] <= t.now => r \in runs \/ r \in old \/ dgStamp[r] <= t.mark
    BY <1>0, <1>a, DigestAssumption DEF RunsBetween, Since, DigestTyped
  <2> HIDE DEF runs, everybody, old
  <2>5. /\ n \in TaskRecord /\ n.pc = "send" /\ n.runs = runs /\ n.todo = todo /\ n.mark = 0
        /\ n.now = t.now
    BY <1>0, <2>2, <2>3 DEF TaskRecord
  <2> HIDE DEF n
  <2>6. /\ dgTask' \in [DigestTasks -> TaskRecord] /\ dgTask'[w] = n
        /\ \A v \in DigestTasks : v # w => dgTask'[v] = dgTask[v]
    BY <1>0, <2>1, <2>5, TaskTypedKept
  <2>7. DigestTyped'
    BY <1>0, <2>1, <2>6 DEF DigestTyped
  <2>8. ASSUME NEW r \in DigestRuns
        PROVE  RunOK(r)'
    <3>1. SUFFICES ASSUME r \in dgSaved, r \notin dgExcused, r \notin old, r \notin nobody
                   PROVE  RunOK(r)'
      BY <2>1 DEF RunOK
    <3>2. /\ dgStamp[r] <= dgPref.mark => Heard(r)
          /\ dgStamp[r] <= dgEdit.mark => Heard(r)
          /\ \A v \in DigestTasks :
                /\ dgStamp[r] <= dgTask[v].mark => Heard(r)
                /\ dgTask[v].pc = "send" /\ dgStamp[r] <= dgTask[v].now => Heard(r) \/ InHand(r, v)
      BY <1>0, <3>1 DEF RunOK
    <3>3. (Heard(r)' <=> Heard(r)) /\ \A v \in DigestTasks : v # w => (InHand(r, v)' <=> InHand(r, v))
      BY <2>1, <2>6 DEF Heard, InHand
    <3>4. ~(dgStamp[r] <= 0)
      BY <1>0, <3>1 DEF DigestTyped
    <3>5. dgStamp[r] <= t.now => Heard(r) \/ InHand(r, w)'
      <4>1. CASE r \in runs
        BY <2>5, <2>6, <3>1, <4>1 DEF InHand
      <4>2. CASE dgStamp[r] <= t.mark
        BY <3>2, <4>2
      <4>3. QED
        BY <2>4, <3>1, <4>1, <4>2
    <3>6. QED
      BY <2>1, <2>5, <2>6, <3>2, <3>3, <3>4, <3>5 DEF RunOK
  <2>9. QED
    BY <2>7, <2>8 DEF DigestInv
<1>6. ASSUME NEW u \in Recipients, SendDigest(w, u)
      PROVE  DigestInv'
  <2> DEFINE n == [t EXCEPT !.todo = t.todo \ {u}]
  <2>1. /\ t.pc = "send" /\ u \in t.todo /\ SetTask(w, n)
        /\ dgEvents' = dgEvents \union {<<u, r>> : r \in t.runs}
        /\ UNCHANGED <<dgClock, dgPref, dgWants, dgStamp, dgSaved, dgEdit, dgExcused>>
    BY <1>6 DEF SendDigest
  <2>2. n \in TaskRecord /\ n.pc = "send" /\ n.runs = t.runs /\ n.mark = t.mark /\ n.now = t.now
    <3>1. PICK rest \in SUBSET Recipients : rest = t.todo \ {u}
      BY <1>a
    <3>2. n = [t EXCEPT !.todo = rest]
      BY <3>1
    <3> HIDE DEF n
    <3>3. QED
      BY <1>0, <1>a, <2>1, <3>2 DEF TaskRecord
  <2> HIDE DEF n
  <2>3. /\ dgTask' \in [DigestTasks -> TaskRecord] /\ dgTask'[w] = n
        /\ \A v \in DigestTasks : v # w => dgTask'[v] = dgTask[v]
    BY <1>0, <2>1, <2>2, TaskTypedKept
  <2>4. DigestTyped'
    BY <1>0, <2>1, <2>3 DEF DigestTyped
  <2>5. ASSUME NEW r \in DigestRuns
        PROVE  RunOK(r)'
    <3>1. Heard(r) => Heard(r)'
      BY <2>1 DEF Heard
    <3>2. r \in t.runs => Heard(r)'
      BY <2>1 DEF Heard
    <3>3. \A v \in DigestTasks : v # w => (InHand(r, v)' <=> InHand(r, v))
      BY <2>3 DEF InHand
    <3>4. InHand(r, w) => Heard(r)'
      BY <3>2 DEF InHand
    <3>5. QED
      BY <1>0, <2>1, <2>2, <2>3, <3>1, <3>3, <3>4 DEF RunOK
  <2>6. QED
    BY <2>4, <2>5 DEF DigestInv
<1>7. CASE MarkSent(w)
  <2>1. /\ t.pc = "send" /\ t.todo = {} /\ SetTask(w, Ended)
        /\ dgPref' = [dgPref EXCEPT !.mark = t.now]
        /\ UNCHANGED <<dgClock, dgWants, dgStamp, dgSaved, dgEdit, dgEvents, dgExcused>>
    BY <1>7 DEF MarkSent
  <2>2. dgPref' \in WorkspacePreference /\ dgPref'.mark = t.now
    BY <1>0, <1>a, <2>1 DEF DigestTyped, WorkspacePreference
  <2>3. /\ dgTask' \in [DigestTasks -> TaskRecord] /\ dgTask'[w] = Ended
        /\ \A v \in DigestTasks : v # w => dgTask'[v] = dgTask[v]
    BY <1>0, <2>1, RecordFacts, TaskTypedKept
  <2>4. DigestTyped'
    BY <1>0, <2>1, <2>2, <2>3 DEF DigestTyped
  <2>5. ASSUME NEW r \in DigestRuns
        PROVE  RunOK(r)'
    <3>1. (Heard(r)' <=> Heard(r)) /\ \A v \in DigestTasks : v # w => (InHand(r, v)' <=> InHand(r, v))
      BY <2>1, <2>3 DEF Heard, InHand
    <3>2. r \in dgSaved \ dgExcused /\ dgStamp[r] <= t.now => Heard(r)
      BY <1>0, <2>1 DEF RunOK, InHand
    <3>3. r \in dgSaved => ~(dgStamp[r] <= 0)
      BY <1>0 DEF DigestTyped
    <3>4. QED
      BY <1>0, <2>1, <2>2, <2>3, <3>1, <3>2, <3>3, RecordFacts DEF RunOK
  <2>6. QED
    BY <2>4, <2>5 DEF DigestInv
<1>8. QED
  BY <1>2, <1>3, <1>4, <1>5, <1>6, <1>7 DEF TaskStep

\* No run falls between two digests: every mark from which a window starts, or will start,
\* covers only runs that somebody heard of, or that a task still has to send, whatever
\* overlapped, crashed or saved an old mark.
THEOREM NoRunLost == DigestSpec => []DigestLosesNoRun
<1>1. DigestInv /\ [DigestNext]_digestVars => DigestInv'
  <2> SUFFICES ASSUME DigestInv, [DigestNext]_digestVars
               PROVE  DigestInv'
    OBVIOUS
  <2>1. CASE UNCHANGED digestVars
    BY <2>1 DEF digestVars, DigestInv, DigestTyped, RunOK, Heard, InHand
  <2>2. CASE DigestNext
    BY <2>2, DigestWorld, DigestTask DEF DigestNext
  <2>3. QED
    BY <2>1, <2>2
<1>2. DigestInv => DigestLosesNoRun
  BY DEF DigestInv, DigestTyped, RunOK, Heard, DigestLosesNoRun
<1>3. QED
  BY <1>1, <1>2, DigestStart, PTL DEF DigestSpec

\* Days go by in order, and none of them after the clock has stopped.
LEMMA DaysInOrder ==
    ASSUME NEW a \in 0 .. LastTick, NEW b \in 0 .. LastTick, a <= b
    PROVE  Day(a) \in Days /\ Day(a) <= Day(b)
<1> DEFINE S == DigestSlots
<1>1. S \in Nat \ {0} /\ a \in Nat /\ b \in Nat /\ LastTick \in Nat
  BY DigestAssumption
<1>2. ASSUME NEW m \in Nat, NEW n \in Nat, m <= n
      PROVE  m \div S \in Nat /\ m \div S <= n \div S
  <2>1. /\ m \div S \in Int /\ n \div S \in Int
        /\ S * (m \div S) <= m /\ m < S * (m \div S) + S
        /\ S * (n \div S) <= n /\ n < S * (n \div S) + S
    BY <1>1, <1>2
  <2> DEFINE p == m \div S
             q == n \div S
  <2> HIDE DEF p, q, S
  <2>2. p \in Int /\ q \in Int /\ S * p <= m /\ m < S * p + S /\ S * q <= n /\ n < S * q + S
    BY <2>1 DEF p, q
  <2>3. p >= 0
    BY <1>1, <1>2, <2>2
  <2>4. p <= q
    <3>1. SUFFICES ASSUME q + 1 <= p
                   PROVE  FALSE
      BY <2>2
    <3>2. S * (q + 1) <= S * p
      BY <1>1, <2>2, <3>1
    <3>3. S * (q + 1) = S * q + S
      BY <1>1, <2>2
    <3>4. S * q \in Int /\ S * p \in Int
      BY <1>1, <2>2
    <3>5. QED
      BY <1>1, <1>2, <2>2, <3>2, <3>3, <3>4
  <2>5. QED
    BY <2>2, <2>3, <2>4 DEF p, q
<1>3. QED
  BY <1>1, <1>2, DigestAssumption DEF Day, Days


\* The rows that only grow or count.
DigestCounts ==
    /\ dgEdits \in 0 .. MaxEdits
    /\ dgEvents \subseteq Recipients \X DigestRuns
    /\ dgMailed \in [Recipients -> [Days -> 0 .. MailCap]]
    /\ dgExcused \subseteq DigestRuns
    /\ dgDisturbed \in BOOLEAN

LEMMA DigestCountsStep == DigestTyped /\ DigestCounts /\ [DigestNext]_digestVars => DigestCounts'
<1> SUFFICES ASSUME DigestTyped, DigestCounts, [DigestNext]_digestVars
             PROVE  DigestCounts'
  OBVIOUS
<1>1. CASE UNCHANGED <<dgEdits, dgEvents, dgMailed, dgExcused, dgDisturbed>>
  BY <1>1 DEF DigestCounts
<1>2. ASSUME NEW r \in DigestRuns, CommitRun(r)
      PROVE  DigestCounts'
  BY <1>2 DEF CommitRun, DigestCounts
<1>3. CASE SavePreference \/ \E u \in Members : SaveUserPreference(u)
  <2>1. dgEdits' \in 0 .. MaxEdits
    BY <1>3, DigestAssumption DEF SavePreference, SaveUserPreference, DigestCounts
  <2>2. dgDisturbed' \in BOOLEAN /\ UNCHANGED <<dgEvents, dgMailed, dgExcused>>
    BY <1>3 DEF SavePreference, SaveUserPreference, DigestCounts
  <2>3. QED
    BY <2>1, <2>2 DEF DigestCounts
<1>4. ASSUME NEW w \in DigestTasks, StartTask(w) \/ CrashTask(w)
      PROVE  DigestCounts'
  BY <1>4 DEF StartTask, CrashTask, DigestCounts
<1>5. ASSUME NEW w \in DigestTasks, Collect(w)
      PROVE  DigestCounts'
  BY <1>5 DEF Collect, RunsBetween, DigestTyped, DigestCounts
<1>6. ASSUME NEW w \in DigestTasks, NEW u \in Recipients, SendDigest(w, u)
      PROVE  DigestCounts'
  <2>1. dgTask[w].runs \subseteq DigestRuns /\ dgTask[w].now \in 0 .. LastTick
    BY DEF DigestTyped, TaskRecord
  <2>2. Day(dgTask[w].now) \in Days
    BY <2>1, DaysInOrder
  <2>3. dgEvents' \subseteq Recipients \X DigestRuns
    BY <1>6, <2>1 DEF SendDigest, DigestCounts
  <2>4. dgMailed' \in [Recipients -> [Days -> 0 .. MailCap]]
    <3>1. CASE UNCHANGED dgMailed
      BY <3>1 DEF DigestCounts
    <3>2. CASE dgMailed' = [dgMailed EXCEPT ![u][Day(dgTask[w].now)] = IF @ < MailCap THEN @ + 1 ELSE @]
      <4> DEFINE d == Day(dgTask[w].now)
      <4>1. dgMailed[u] \in [Days -> 0 .. MailCap] /\ dgMailed[u][d] \in 0 .. MailCap
        BY <2>2 DEF DigestCounts
      <4>2. dgMailed' = [dgMailed EXCEPT ![u] = [dgMailed[u] EXCEPT ![d] = IF dgMailed[u][d] < MailCap THEN dgMailed[u][d] + 1 ELSE dgMailed[u][d]]]
        BY <3>2
      <4>3. (IF dgMailed[u][d] < MailCap THEN dgMailed[u][d] + 1 ELSE dgMailed[u][d]) \in 0 .. MailCap
        BY <4>1 DEF MailCap
      <4> HIDE DEF d
      <4>4. QED
        BY <4>1, <4>2, <4>3 DEF DigestCounts
    <3>3. QED
      BY <1>6, <3>1, <3>2 DEF SendDigest
  <2>5. QED
    BY <1>6, <2>3, <2>4 DEF SendDigest, DigestCounts
<1>7. CASE DigestTick \/ LoadPreference \/ (\E r \in DigestRuns : StampRun(r))
           \/ (\E w \in DigestTasks : CheckDate(w) \/ MarkSent(w))
  BY <1>1, <1>7 DEF DigestTick, LoadPreference, StampRun, CheckDate, MarkSent
<1>8. CASE UNCHANGED digestVars
  BY <1>1, <1>8 DEF digestVars
<1>9. QED
  BY <1>2, <1>3, <1>4, <1>5, <1>6, <1>7, <1>8 DEF DigestNext, TaskStep

LEMMA DigestInvStep == DigestInv /\ [DigestNext]_digestVars => DigestInv'
<1> SUFFICES ASSUME DigestInv, [DigestNext]_digestVars
             PROVE  DigestInv'
  OBVIOUS
<1>1. CASE UNCHANGED digestVars
  BY <1>1 DEF digestVars, DigestInv, DigestTyped, RunOK, Heard, InHand
<1>2. CASE DigestNext
  BY <1>2, DigestWorld, DigestTask DEF DigestNext
<1>3. QED
  BY <1>1, <1>2

LEMMA DigestCountsStart == DigestInit => DigestCounts
<1> SUFFICES ASSUME DigestInit
             PROVE  DigestCounts
  OBVIOUS
<1>1. [d \in Days |-> 0] \in [Days -> 0 .. MailCap]
  BY DEF MailCap
<1>2. dgMailed \in [Recipients -> [Days -> 0 .. MailCap]]
  BY <1>1 DEF DigestInit
<1>3. dgEdits = 0 /\ dgEvents = {} /\ dgExcused = {} /\ dgDisturbed = FALSE /\ 0 \in 0 .. MaxEdits
  BY DigestAssumption DEF DigestInit
<1>4. QED
  BY <1>2, <1>3 DEF DigestCounts

LEMMA DigestTypesInv == DigestInv /\ DigestCounts => DigestTypeOK
BY DEF DigestInv, DigestTyped, DigestCounts, DigestTypeOK

\* The preferences, runs, tasks and events keep their types.
THEOREM DigestTypes == DigestSpec => []DigestTypeOK
<1>1. DigestInit => DigestInv /\ DigestCounts
  BY DigestStart, DigestCountsStart
<1>2. DigestInv /\ DigestCounts /\ [DigestNext]_digestVars => (DigestInv /\ DigestCounts)'
  BY DigestInvStep, DigestCountsStep DEF DigestInv
<1>3. QED
  BY <1>1, <1>2, DigestTypesInv, PTL DEF DigestSpec

-----------------------------------------------------------------------------
(* One digest a day.  The mark in the preferences bounds the days on which   *)
(* anybody was mailed, but for the mails of the one task that has not yet    *)
(* saved it; and that task works on a later day than the mark's.             *)

OneTask == \A v, w \in DigestTasks : Under(v) /\ Under(w) => v = w

\* The task works after the mark it read, on a later day once it has compared the dates.
AfterMark(w) ==
    /\ Under(w) => 0 < dgTask[w].now /\ dgPref.mark <= dgTask[w].now /\ dgTask[w].now <= dgClock
    /\ dgTask[w].pc \in {"check", "collect"} => dgTask[w].mark = dgPref.mark
    /\ dgTask[w].pc \in {"collect", "send"} =>
           dgPref.mark = 0 \/ Day(dgPref.mark) < Day(dgTask[w].now)

\* A digest of that day was mailed before the mark, or by the task that will save it.
Accounted(u, d) ==
    \/ dgPref.mark # 0 /\ d <= Day(dgPref.mark)
    \/ \E w \in DigestTasks : dgTask[w].pc = "send" /\ d = Day(dgTask[w].now) /\ u \notin dgTask[w].todo

MailedOnce == \A u \in Recipients, d \in Days :
                  dgMailed[u][d] <= 1 /\ (dgMailed[u][d] > 0 => Accounted(u, d))

Daily ==
    /\ OneTask
    /\ dgPref.mark <= dgClock
    /\ \A w \in DigestTasks : AfterMark(w)
    /\ MailedOnce

DailyInv == DigestInv /\ DigestCounts /\ (~dgDisturbed => Daily)

LEMMA DailyStart == DigestInit => DailyInv
<1> SUFFICES ASSUME DigestInit
             PROVE  DailyInv
  OBVIOUS
<1>1. \A w \in DigestTasks : ~Under(w) /\ dgTask[w].pc = "queued"
  BY RecordFacts DEF DigestInit, Under
<1>2. dgPref.mark = 0 /\ dgClock = 1 /\ \A u \in Recipients, d \in Days : dgMailed[u][d] = 0
  BY DEF DigestInit
<1>3. Daily
  BY <1>1, <1>2 DEF Daily, OneTask, AfterMark, MailedOnce
<1>4. QED
  BY <1>3, DigestStart, DigestCountsStart DEF DailyInv

\* The numbers of the argument are numbers.
LEMMA DigestNumbers ==
    ASSUME DigestTyped, DigestCounts
    PROVE  /\ dgClock \in 1 .. LastTick /\ dgClock \in 0 .. LastTick /\ dgPref.mark \in 0 .. LastTick
           /\ LastTick \in Nat
           /\ \A t \in 0 .. LastTick : t \in Nat
           /\ \A w \in DigestTasks : /\ dgTask[w] \in TaskRecord
                                     /\ dgTask[w].now \in 0 .. LastTick /\ dgTask[w].mark \in 0 .. LastTick
                                     /\ dgTask[w].pc \in {"queued", "check", "collect", "send", "done"}
                                     /\ dgTask[w].runs \subseteq DigestRuns /\ dgTask[w].todo \subseteq Recipients
           /\ \A u \in Recipients, d \in Days : dgMailed[u][d] \in 0 .. MailCap
BY DigestAssumption DEF DigestTyped, DigestCounts, Ticks, WorkspacePreference, TaskRecord

\* The world around the task: a saved copy of the mark is the mark, or the rest is disturbed.
LEMMA DailyWorld ==
    ASSUME DigestTyped, DigestCounts, Daily, ~dgDisturbed',
           \/ UNCHANGED digestVars
           \/ DigestTick \/ (\E r \in DigestRuns : StampRun(r) \/ CommitRun(r))
           \/ (\E u \in Members : SaveUserPreference(u)) \/ LoadPreference \/ SavePreference
    PROVE  Daily'
<1>1. dgPref'.mark = dgPref.mark
  BY DEF SavePreference, DigestTick, StampRun, CommitRun, SaveUserPreference, LoadPreference, digestVars
<1>2. UNCHANGED <<dgTask, dgMailed>>
  BY DEF SavePreference, DigestTick, StampRun, CommitRun, SaveUserPreference, LoadPreference, digestVars
<1>3. dgClock' \in Nat /\ dgClock <= dgClock'
  BY DigestNumbers DEF SavePreference, DigestTick, StampRun, CommitRun, SaveUserPreference, LoadPreference, digestVars
<1>4. OneTask' /\ MailedOnce'
  BY <1>1, <1>2 DEF Daily, OneTask, Under, MailedOnce, Accounted
<1>5. \A w \in DigestTasks : AfterMark(w)'
  BY <1>1, <1>2, <1>3, DigestNumbers DEF Daily, AfterMark, Under
<1>6. dgPref'.mark <= dgClock'
  BY <1>1, <1>3, DigestNumbers DEF Daily
<1>7. QED
  BY <1>4, <1>5, <1>6 DEF Daily

\* A task that has sent nothing, and sends nothing in this step.
LEMMA DailyUnsent ==
    ASSUME DigestTyped, DigestCounts, Daily, NEW w \in DigestTasks, NEW n \in TaskRecord, SetTask(w, n),
           dgTask[w].pc # "send", UNCHANGED <<dgPref, dgClock, dgMailed>>,
           \A v \in DigestTasks : Under(v) => v = w,
           n.pc \in {"check", "collect", "send"} =>
               /\ 0 < n.now /\ dgPref.mark <= n.now /\ n.now <= dgClock
               /\ n.pc # "send" => n.mark = dgPref.mark
               /\ n.pc # "check" => dgPref.mark = 0 \/ Day(dgPref.mark) < Day(n.now)
    PROVE  Daily'
<1>1. /\ dgTask'[w] = n
      /\ \A v \in DigestTasks : v # w => dgTask'[v] = dgTask[v]
  BY TaskTypedKept
<1>2. \A v \in DigestTasks : v # w => ~Under(v) /\ ~Under(v)'
  BY <1>1 DEF Under
<1>3. OneTask'
  BY <1>2 DEF OneTask
<1>4. \A v \in DigestTasks : AfterMark(v)'
  BY <1>1, <1>2 DEF AfterMark, Under
<1>5. ASSUME NEW u \in Recipients, NEW d \in Days, Accounted(u, d)
      PROVE  Accounted(u, d)'
  <2>1. \A v \in DigestTasks : dgTask[v].pc # "send"
    BY <1>2 DEF Under
  <2>2. QED
    BY <1>5, <2>1 DEF Accounted
<1>6. QED
  BY <1>3, <1>4, <1>5 DEF Daily, MailedOnce

LEMMA DailyTask ==
    ASSUME DigestTyped, DigestCounts, Daily, ~dgDisturbed', NEW w \in DigestTasks, TaskStep(w)
    PROVE  Daily'
<1> DEFINE t == dgTask[w]
<1>0. /\ t \in TaskRecord /\ t.pc \in {"queued", "check", "collect", "send", "done"}
      /\ t.now \in 0 .. LastTick /\ t.mark \in 0 .. LastTick /\ t.runs \subseteq DigestRuns /\ t.todo \subseteq Recipients
  BY DigestNumbers
<1>1. AfterMark(w) /\ OneTask /\ MailedOnce /\ dgPref.mark <= dgClock
  BY DEF Daily
<1>2. CASE StartTask(w)
  <2> DEFINE n == [NoTaskRecord EXCEPT !.pc = "check", !.now = dgClock,
                                       !.mark = dgPref.mark, !.address = dgPref.address]
  <2>1. n \in TaskRecord /\ n.pc = "check" /\ n.mark = dgPref.mark /\ n.now = dgClock
    BY RecordFacts, DigestNumbers DEF TaskRecord, NoTaskRecord, DigestTyped, WorkspacePreference
  <2>2. t.pc = "queued" /\ (SetTask(w, n) \/ SetTask(w, Ended)) /\ UNCHANGED <<dgPref, dgClock, dgMailed>>
    BY <1>2 DEF StartTask
  <2>3. \A v \in DigestTasks : ~Under(v)
    BY <1>2 DEF StartTask
  <2>4. 0 < dgClock /\ dgClock <= dgClock
    BY DigestNumbers
  <2> HIDE DEF n
  <2>5. QED
    BY <1>1, <2>1, <2>2, <2>3, <2>4, RecordFacts, DailyUnsent
<1>3. ASSUME Under(w)
      PROVE  \A v \in DigestTasks : Under(v) => v = w
  BY <1>1, <1>3 DEF OneTask
<1>4. CASE CheckDate(w)
  <2> DEFINE n == [t EXCEPT !.pc = "collect"]
  <2>1. n \in TaskRecord /\ n.pc = "collect" /\ n.mark = t.mark /\ n.now = t.now
    BY <1>0 DEF TaskRecord
  <2>2. t.pc = "check" /\ UNCHANGED <<dgPref, dgClock, dgMailed>>
    BY <1>4 DEF CheckDate
  <2>3. SetTask(w, Ended) \/ (SetTask(w, n) /\ (t.mark = 0 \/ Day(t.mark) # Day(t.now)))
    BY <1>4 DEF CheckDate
  <2>4. Under(w) /\ t.mark = dgPref.mark /\ 0 < t.now /\ dgPref.mark <= t.now /\ t.now <= dgClock
    BY <1>1, <2>2 DEF Under, AfterMark
  <2>5. Day(t.mark) <= Day(t.now) /\ Day(t.mark) \in Days /\ Day(t.now) \in Days
    BY <1>0, <2>4, DaysInOrder
  <2>6. Day(t.mark) # Day(t.now) => Day(dgPref.mark) < Day(t.now)
    <3> HIDE DEF t
    <3>1. \A d \in Days : d \in Int
      BY DEF Days
    <3>2. QED
      BY <2>4, <2>5, <3>1
  <2> HIDE DEF n
  <2>7. QED
    BY <1>3, <2>1, <2>2, <2>3, <2>4, <2>6, RecordFacts, DailyUnsent
<1>5. CASE Collect(w)
  <2>1. PICK runs \in SUBSET DigestRuns, todo \in SUBSET Recipients :
             SetTask(w, [t EXCEPT !.pc = "send", !.runs = runs, !.address = "off", !.mark = 0, !.todo = todo])
    <3>1. RunsBetween(Since(t.mark, t.now), t.now) \subseteq DigestRuns
      BY DEF RunsBetween, DigestTyped
    <3>2. DigestRecipients(t.address) \subseteq Recipients
      BY <1>0, DigestAssumption DEF DigestRecipients, DigestTyped, Recipients, TaskRecord
    <3>3. QED
      BY <1>5, <3>1, <3>2 DEF Collect
  <2> DEFINE n == [t EXCEPT !.pc = "send", !.runs = runs, !.address = "off", !.mark = 0, !.todo = todo]
  <2>2. n \in TaskRecord /\ n.pc = "send" /\ n.now = t.now
    <3>1. 0 \in 0 .. LastTick
      BY DigestAssumption
    <3>2. QED
      BY <1>0, <3>1 DEF TaskRecord
  <2>3. t.pc = "collect" /\ UNCHANGED <<dgPref, dgClock, dgMailed>>
    BY <1>5 DEF Collect
  <2>4. /\ Under(w) /\ 0 < t.now /\ dgPref.mark <= t.now /\ t.now <= dgClock
        /\ dgPref.mark = 0 \/ Day(dgPref.mark) < Day(t.now)
    BY <1>1, <2>3 DEF Under, AfterMark
  <2>5. SetTask(w, n)
    BY <2>1
  <2> HIDE DEF n
  <2>6. QED
    BY <1>3, <2>2, <2>3, <2>4, <2>5, DailyUnsent
<1>6. ASSUME t.pc = "send"
      PROVE  /\ Under(w) /\ 0 < t.now /\ dgPref.mark <= t.now /\ t.now <= dgClock
             /\ dgPref.mark = 0 \/ Day(dgPref.mark) < Day(t.now)
             /\ \A v \in DigestTasks : v # w => ~Under(v)
             /\ \A v \in DigestTasks : dgTask[v].pc = "send" => v = w
  BY <1>1, <1>3, <1>6 DEF Under, AfterMark
<1>7. ASSUME NEW u \in Recipients, SendDigest(w, u)
      PROVE  Daily'
  <2> DEFINE n == [t EXCEPT !.todo = t.todo \ {u}]
             today == Day(t.now)
  <2>1. /\ t.pc = "send" /\ u \in t.todo /\ SetTask(w, n)
        /\ UNCHANGED <<dgPref, dgClock>>
    BY <1>7 DEF SendDigest
  <2>2. n \in TaskRecord /\ n.pc = "send" /\ n.now = t.now /\ n.todo = t.todo \ {u}
    <3>1. PICK rest \in SUBSET Recipients : rest = t.todo \ {u}
      BY <1>0
    <3>2. n = [t EXCEPT !.todo = rest]
      BY <3>1
    <3> HIDE DEF n
    <3>3. QED
      BY <1>0, <2>1, <3>1, <3>2 DEF TaskRecord
  <2> HIDE DEF n
  <2>3. /\ dgTask'[w] = n
        /\ \A v \in DigestTasks : v # w => dgTask'[v] = dgTask[v]
    BY <2>1, <2>2, TaskTypedKept
  <2>4. OneTask'
    BY <1>6, <2>1, <2>3 DEF OneTask, Under
  <2>5. \A v \in DigestTasks : AfterMark(v)'
    BY <1>6, <2>1, <2>2, <2>3 DEF AfterMark, Under
  <2>6. MailedOnce'
    <3>1. today \in Days /\ dgMailed[u][today] \in 0 .. MailCap
      BY <1>0, DaysInOrder, DigestNumbers
    <3>2. dgMailed[u][today] = 0
      <4>1. SUFFICES ASSUME Accounted(u, today)
                     PROVE  FALSE
        BY <1>1, <3>1 DEF MailedOnce, MailCap
      <4>2. dgPref.mark # 0 /\ today <= Day(dgPref.mark)
        BY <1>6, <2>1, <4>1 DEF Accounted
      <4>3. Day(dgPref.mark) < today /\ Day(dgPref.mark) \in Days
        BY <1>6, <2>1, <4>2, DigestNumbers, DaysInOrder
      <4> HIDE DEF today
      <4>4. today \in Int /\ Day(dgPref.mark) \in Int
        BY <3>1, <4>3 DEF Days
      <4>5. QED
        BY <4>2, <4>3, <4>4
    <3>3. \A x \in Recipients, d \in Days : dgMailed'[x][d] = dgMailed[x][d] \/ (x = u /\ d = today /\ dgMailed'[x][d] = 1)
      <4>1. CASE UNCHANGED dgMailed
        BY <4>1
      <4>2. CASE dgMailed' = [dgMailed EXCEPT ![u][today] = IF @ < MailCap THEN @ + 1 ELSE @]
        <5>1. dgMailed' = [dgMailed EXCEPT ![u] = [dgMailed[u] EXCEPT ![today] = 1]]
          BY <3>2, <4>2 DEF MailCap
        <5>2. \A x \in Recipients : dgMailed[x] \in [Days -> 0 .. MailCap]
          BY DEF DigestCounts
        <5> HIDE DEF today
        <5>3. QED
          BY <5>1, <5>2 DEF DigestCounts
      <4>3. QED
        BY <1>7, <4>1, <4>2 DEF SendDigest
    <3>4. ASSUME NEW x \in Recipients, NEW d \in Days
          PROVE  dgMailed'[x][d] <= 1 /\ (dgMailed'[x][d] > 0 => Accounted(x, d)')
      <4>1. Accounted(x, d) => Accounted(x, d)'
        BY <2>1, <2>2, <2>3 DEF Accounted
      <4>2. CASE dgMailed'[x][d] = dgMailed[x][d]
        BY <1>1, <4>1, <4>2 DEF MailedOnce
      <4>3. CASE x = u /\ d = today /\ dgMailed'[x][d] = 1
        <5>1. Accounted(x, d)'
          BY <2>1, <2>2, <2>3, <4>3 DEF Accounted
        <5>2. QED
          BY <4>3, <5>1
      <4>4. QED
        BY <3>3, <4>2, <4>3
    <3>5. QED
      BY <3>4 DEF MailedOnce
  <2>7. QED
    BY <1>1, <2>1, <2>4, <2>5, <2>6 DEF Daily
<1>8. CASE MarkSent(w)
  <2>1. /\ t.pc = "send" /\ t.todo = {} /\ SetTask(w, Ended)
        /\ dgPref' = [dgPref EXCEPT !.mark = t.now] /\ UNCHANGED <<dgClock, dgMailed>>
    BY <1>8 DEF MarkSent
  <2>2. dgPref'.mark = t.now
    BY <2>1 DEF DigestTyped, WorkspacePreference
  <2>3. /\ dgTask'[w] = Ended
        /\ \A v \in DigestTasks : v # w => dgTask'[v] = dgTask[v]
    BY <2>1, RecordFacts, TaskTypedKept
  <2>4. \A v \in DigestTasks : ~Under(v)'
    BY <1>6, <2>1, <2>3, RecordFacts DEF Under
  <2>5. OneTask' /\ \A v \in DigestTasks : AfterMark(v)'
    BY <2>4 DEF OneTask, AfterMark, Under
  <2>6. ASSUME NEW u \in Recipients, NEW d \in Days, Accounted(u, d)
        PROVE  Accounted(u, d)'
    <3>1. Day(t.now) \in Int /\ d \in Int /\ Day(dgPref.mark) \in Int
      BY <1>0, DigestNumbers, DaysInOrder DEF Days
    <3>2. d <= Day(t.now)
      <4> HIDE DEF t
      <4>1. CASE dgPref.mark # 0 /\ d <= Day(dgPref.mark)
        BY <1>6, <2>1, <3>1, <4>1
      <4>2. CASE \E v \in DigestTasks : dgTask[v].pc = "send" /\ d = Day(dgTask[v].now)
        BY <1>6, <2>1, <3>1, <4>2 DEF t
      <4>3. QED
        BY <2>6, <4>1, <4>2 DEF Accounted
    <3>3. t.now # 0
      BY <1>0, <1>6, <2>1
    <3>4. QED
      BY <2>2, <3>2, <3>3 DEF Accounted
  <2>7. MailedOnce'
    BY <1>1, <2>1, <2>6 DEF MailedOnce
  <2>8. QED
    BY <1>6, <2>1, <2>2, <2>5, <2>7 DEF Daily
<1>9. CASE CrashTask(w)
  BY <1>9 DEF CrashTask
<1>10. QED
  BY <1>2, <1>4, <1>5, <1>7, <1>8, <1>9 DEF TaskStep

LEMMA DailyStep == DailyInv /\ [DigestNext]_digestVars => DailyInv'
<1> SUFFICES ASSUME DailyInv, [DigestNext]_digestVars
             PROVE  DailyInv'
  OBVIOUS
<1>1. DigestInv' /\ DigestCounts' /\ DigestTyped /\ DigestCounts
  BY DigestInvStep, DigestCountsStep DEF DailyInv, DigestInv
<1>2. ASSUME ~dgDisturbed'
      PROVE  Daily'
  <2>1. ~dgDisturbed
    BY <1>2 DEF digestVars, DigestNext, TaskStep, DigestTick, StampRun, CommitRun, SaveUserPreference, LoadPreference,
                SavePreference, StartTask, CheckDate, Collect, SendDigest, MarkSent, CrashTask
  <2>2. Daily
    BY <2>1 DEF DailyInv
  <2>3. QED
    BY <1>1, <1>2, <2>2, DailyWorld, DailyTask DEF DigestNext
<1>3. QED
  BY <1>1, <1>2 DEF DailyInv

\* Nobody is mailed two digests of one day while nothing was disturbed: each mail is covered by
\* the mark, or by the one task that has still to save it, and a task sends only on a later day.
THEOREM DigestOnceADay == DigestSpec => []OneDigestADay
<1>1. DailyInv => OneDigestADay
  BY DEF DailyInv, Daily, MailedOnce, OneDigestADay
<1>2. QED
  BY <1>1, DailyStart, DailyStep, PTL DEF DigestSpec

-----------------------------------------------------------------------------
(* A schedule and its periodic task (ScheduleSync).                         *)

LEMMA SyncRecords ==
    /\ NoSchedule \in ScheduleRow /\ ~NoSchedule.exists /\ NoSchedule.task = NoTask
    /\ NoPeriodicTask \in TaskRow /\ ~NoPeriodicTask.exists
    /\ \A row \in ScheduleRow : TaskOf(row) \in TaskRow /\ TaskOf(row).exists
<1>1. (CHOOSE c \in Crons : TRUE) \in Crons
  BY CronsAssumption
<1>2. NoSchedule \in ScheduleRow /\ ~NoSchedule.exists /\ NoSchedule.task = NoTask /\ NoSchedule.cron \in Crons
  BY <1>1 DEF NoSchedule, ScheduleRow, Names
<1>3. NoPeriodicTask \in TaskRow /\ ~NoPeriodicTask.exists
  BY <1>2 DEF NoPeriodicTask, TaskRow, Names
<1>4. \A row \in ScheduleRow : TaskOf(row) \in TaskRow /\ TaskOf(row).exists
  BY DEF TaskOf, TaskRow, ScheduleRow
<1>5. QED
  BY <1>2, <1>3, <1>4

\* What a step of one request does to the requests.
LEMMA SyncBecome ==
    ASSUME SyncTypeOK, NEW q \in ScheduleRequests, NEW pc \in RequestPcs, NEW copy \in ScheduleRow,
           Become(q, pc, copy)
    PROVE  /\ ssReq' \in [ScheduleRequests -> Request]
           /\ ssReq'[q].pc = pc /\ ssReq'[q].copy = copy
           /\ \A p \in ScheduleRequests : p # q => ssReq'[p] = ssReq[p]
           /\ Busy' = IF pc \in {"idle", "touch"} THEN Busy \ {q} ELSE Busy \union {q}
<1>1. [pc |-> pc, copy |-> copy] \in Request
  BY DEF Request
<1>2. /\ ssReq' \in [ScheduleRequests -> Request]
      /\ ssReq'[q] = [pc |-> pc, copy |-> copy]
      /\ \A p \in ScheduleRequests : p # q => ssReq'[p] = ssReq[p]
  BY <1>1 DEF SyncTypeOK, Become
<1>3. ssReq'[q].pc = pc /\ ssReq'[q].copy = copy
  BY <1>2
<1>4. QED
  BY <1>2, <1>3 DEF Busy

LEMMA SyncEnd ==
    ASSUME SyncTypeOK, NEW q \in ScheduleRequests, End(q)
    PROVE  /\ ssReq' \in [ScheduleRequests -> Request]
           /\ ssReq'[q].pc = "idle"
           /\ \A p \in ScheduleRequests : p # q => ssReq'[p] = ssReq[p]
           /\ Busy' = Busy \ {q}
BY SyncBecome, SyncRecords DEF End, RequestPcs

LEMMA SyncCopies ==
    ASSUME SyncTypeOK, NEW q \in ScheduleRequests
    PROVE  /\ ssReq[q].pc \in RequestPcs /\ ssReq[q].copy \in ScheduleRow
           /\ ssReq[q].copy.task \in TaskIds \union {NoTask}
           /\ ssRow \in ScheduleRow /\ ssRow.exists \in BOOLEAN /\ ssRow.task \in TaskIds \union {NoTask}
BY DEF SyncTypeOK, Request, ScheduleRow

\* Which tasks live after one was written or deleted.
LEMMA SyncWritten ==
    ASSUME SyncTypeOK, NEW id \in TaskIds, NEW task \in TaskRow, ssTasks' = [ssTasks EXCEPT ![id] = task]
    PROVE  /\ ssTasks' \in [TaskIds -> TaskRow] /\ ssTasks'[id] = task
           /\ LiveTasks' = IF task.exists THEN LiveTasks \union {id} ELSE LiveTasks \ {id}
<1>1. ssTasks' \in [TaskIds -> TaskRow] /\ ssTasks'[id] = task /\ \A k \in TaskIds : k # id => ssTasks'[k] = ssTasks[k]
  BY DEF SyncTypeOK
<1>2. QED
  BY <1>1 DEF LiveTasks

-----------------------------------------------------------------------------
(* Types.                                                                   *)

LEMMA SyncTypeInit == SyncInit => SyncTypeOK
<1>1. [pc |-> "idle", copy |-> NoSchedule] \in Request
  BY SyncRecords DEF Request, RequestPcs
<1>2. QED
  BY <1>1, SyncRecords DEF SyncInit, SyncTypeOK

LEMMA SyncTypeEntry ==
    ASSUME SyncTypeOK, NEW q \in ScheduleRequests, LoadForUpdate(q) \/ LoadForDelete(q) \/ Fire(q)
    PROVE  SyncTypeOK'
<1>1. ssRow \in ScheduleRow
  BY DEF SyncTypeOK
<1>2. \E pc \in RequestPcs : Become(q, pc, ssRow)
  BY DEF LoadForUpdate, LoadForDelete, Fire, RequestPcs
<1>3. ssReq' \in [ScheduleRequests -> Request]
  BY <1>1, <1>2, SyncBecome
<1>4. UNCHANGED <<ssTemplate, ssRow, ssTasks, ssUsed>>
  BY DEF LoadForUpdate, LoadForDelete, Fire
<1>5. ssAlone' \subseteq ScheduleRequests /\ ssHurt' \in BOOLEAN /\ ssMixed' \in BOOLEAN
  BY DEF SyncTypeOK, LoadForUpdate, LoadForDelete, Fire, Enter
<1>6. QED
  BY <1>3, <1>4, <1>5 DEF SyncTypeOK

\* What a request saves: the columns submitted, and of its copy the others.
LEMMA SyncSaves ==
    ASSUME SyncTypeOK, NEW q \in ScheduleRequests, SaveSchedule(q)
    PROVE  \E new \in ScheduleRow :
               /\ new.task = ssReq[q].copy.task /\ new.exists = ssReq[q].copy.exists
               /\ (ssRow' = new /\ Become(q, "sync", new)) \/ (UNCHANGED ssRow /\ End(q))
<1>1. PICK c \in Crons, e \in BOOLEAN, n \in Names :
          LET new == [ssReq[q].copy EXCEPT !.cron = c, !.enabled = e, !.name = n]
          IN  (ssRow' = new /\ Become(q, "sync", new)) \/ (UNCHANGED ssRow /\ End(q))
  BY DEF SaveSchedule
<1> DEFINE new == [ssReq[q].copy EXCEPT !.cron = c, !.enabled = e, !.name = n]
<1>2. (ssRow' = new /\ Become(q, "sync", new)) \/ (UNCHANGED ssRow /\ End(q))
  BY <1>1
<1>3. new \in ScheduleRow /\ new.task = ssReq[q].copy.task /\ new.exists = ssReq[q].copy.exists
  BY SyncCopies DEF ScheduleRow
<1> HIDE DEF new
<1>4. QED
  BY <1>2, <1>3

LEMMA SyncTypeStep == SyncTypeOK /\ [SyncNext]_scheduleVars => SyncTypeOK'
<1> SUFFICES ASSUME SyncTypeOK, [SyncNext]_scheduleVars
             PROVE  SyncTypeOK'
  OBVIOUS
<1>1. CASE UNCHANGED scheduleVars
  BY <1>1 DEF scheduleVars, SyncTypeOK
<1>2. CASE CreateSchedule
  <2>1. PICK id \in TaskIds, c \in Crons, e \in BOOLEAN :
            LET row == [NoSchedule EXCEPT !.exists = TRUE, !.cron = c, !.enabled = e, !.task = id]
            IN  ssRow' = row /\ ssTasks' = [ssTasks EXCEPT ![id] = TaskOf(row)] /\ ssUsed' = {id}
    BY <1>2 DEF CreateSchedule
  <2>2. ssRow' \in ScheduleRow
    BY <2>1, SyncRecords DEF ScheduleRow
  <2>3. ssTasks' = [ssTasks EXCEPT ![id] = TaskOf(ssRow')] /\ TaskOf(ssRow') \in TaskRow
    BY <2>1, <2>2, SyncRecords
  <2>4. QED
    BY <1>2, <2>1, <2>2, <2>3 DEF CreateSchedule, SyncTypeOK
<1>3. CASE DeleteTemplate
  BY <1>3, SyncRecords DEF DeleteTemplate, SyncTypeOK
<1>4. ASSUME NEW q \in ScheduleRequests, SaveSchedule(q)
      PROVE  SyncTypeOK'
  <2>1. \E new \in ScheduleRow : (ssRow' = new /\ Become(q, "sync", new)) \/ (UNCHANGED ssRow /\ End(q))
    BY <1>4, SyncSaves
  <2>2. ssRow' \in ScheduleRow /\ (Become(q, "sync", ssRow') \/ End(q))
    BY <2>1 DEF SyncTypeOK
  <2>3. ssReq' \in [ScheduleRequests -> Request]
    BY <2>2, SyncBecome, SyncEnd DEF RequestPcs
  <2>4. QED
    BY <1>4, <2>2, <2>3 DEF SaveSchedule, SyncTypeOK
<1>5. ASSUME NEW q \in ScheduleRequests, SyncTask(q)
      PROVE  SyncTypeOK'
  <2> DEFINE c == ssReq[q].copy
  <2>1. PICK id \in IF c.task = NoTask THEN TaskIds \ ssUsed ELSE {c.task} :
            \/ End(q) /\ UNCHANGED <<ssTasks, ssUsed>>
            \/ /\ ssTasks' = [ssTasks EXCEPT ![id] = TaskOf(c)]
               /\ ssUsed' = ssUsed \union {id}
               /\ End(q) \/ Become(q, "link", [c EXCEPT !.task = id])
    BY <1>5 DEF SyncTask
  <2>2. id \in TaskIds /\ [c EXCEPT !.task = id] \in ScheduleRow /\ TaskOf(c) \in TaskRow
    BY SyncCopies, SyncRecords DEF ScheduleRow
  <2>3. ssReq' \in [ScheduleRequests -> Request]
    <3> HIDE DEF c
    <3>1. QED
      BY <2>1, <2>2, SyncBecome, SyncEnd DEF RequestPcs
  <2>4. ssTasks' \in [TaskIds -> TaskRow] /\ ssUsed' \subseteq TaskIds
    BY <2>1, <2>2 DEF SyncTypeOK
  <2>5. QED
    BY <1>5, <2>3, <2>4 DEF SyncTask, SyncTypeOK
<1>6. ASSUME NEW q \in ScheduleRequests, LinkTask(q)
      PROVE  SyncTypeOK'
  <2>1. ssRow' \in ScheduleRow
    BY <1>6, SyncCopies DEF LinkTask, ScheduleRow
  <2>2. QED
    BY <1>6, <2>1, SyncEnd DEF LinkTask, SyncTypeOK
<1>7. ASSUME NEW q \in ScheduleRequests, DeleteRow(q)
      PROVE  SyncTypeOK'
  <2>1. ssReq' \in [ScheduleRequests -> Request]
    BY <1>7, SyncEnd, SyncBecome, SyncCopies DEF DeleteRow, RequestPcs
  <2>2. QED
    BY <1>7, <2>1, SyncRecords DEF DeleteRow, SyncTypeOK
<1>8. ASSUME NEW q \in ScheduleRequests, DeleteTask(q)
      PROVE  SyncTypeOK'
  <2>1. ssRow' \in ScheduleRow
    BY <1>8, SyncCopies DEF DeleteTask, ScheduleRow
  <2>2. ssTasks' \in [TaskIds -> TaskRow]
    BY <1>8, SyncRecords DEF DeleteTask, SyncTypeOK
  <2>3. QED
    BY <1>8, <2>1, <2>2, SyncEnd DEF DeleteTask, SyncTypeOK
<1>9. ASSUME NEW q \in ScheduleRequests, TouchAfterLaunch(q)
      PROVE  SyncTypeOK'
  <2>1. ssRow' \in ScheduleRow
    BY <1>9, SyncCopies DEF TouchAfterLaunch, ScheduleRow
  <2>2. QED
    BY <1>9, <2>1, SyncEnd DEF TouchAfterLaunch, SyncTypeOK
<1>10. ASSUME NEW q \in ScheduleRequests, CrashRequest(q)
       PROVE  SyncTypeOK'
  BY <1>10, SyncEnd DEF CrashRequest, SyncTypeOK
<1>11. QED
  BY <1>1, <1>2, <1>3, <1>4, <1>5, <1>6, <1>7, <1>8, <1>9, <1>10, SyncTypeEntry DEF SyncNext, RequestStep

\* Every row, copy and request keeps its type: above all a schedule points at a task's id.
THEOREM ScheduleTypes == SyncSpec => []SyncTypeOK
BY SyncTypeInit, SyncTypeStep, PTL DEF SyncSpec
-----------------------------------------------------------------------------
(* The periodic task follows its schedule.                                  *)

Deleting(q) == At(q, "delete_row") \/ At(q, "delete_task")

\* While no deletion met another request: what each request has in hand agrees with the rows.
RequestWhole(q) ==
    /\ At(q, "save") \/ At(q, "sync") \/ At(q, "delete_row") =>
           ssRow.exists /\ ssReq[q].copy.exists /\ ssReq[q].copy.task = ssRow.task
    /\ ~At(q, "link")
    /\ At(q, "delete_task") => ~ssRow.exists /\ ssReq[q].copy.task \in TaskIds /\ LiveTasks = {ssReq[q].copy.task}

RowsWhole ==
    /\ ssRow.exists => ssRow.task \in TaskIds
    /\ (\A q \in ScheduleRequests : ~At(q, "delete_task")) => LiveTasks = IF ssRow.exists THEN {ssRow.task} ELSE {}

SyncWhole ==
    /\ \A q \in ScheduleRequests : RequestWhole(q)
    /\ \A q, p \in ScheduleRequests : Deleting(q) /\ p \in Busy => p = q
    /\ RowsWhole

\* Nothing is under way before the schedule is created, which happens once.
SyncFresh == ssUsed = {} => /\ ~ssRow.exists /\ LiveTasks = {}
                            /\ \A q \in ScheduleRequests : At(q, "idle")

\* A request that met nobody is the only one; unless harm is done there is no other.
AloneOK == /\ \A q \in Busy : q \in ssAlone => Busy = {q}
           /\ ~ssHurt => Busy \subseteq ssAlone

Same(row, other) == row.cron = other.cron /\ row.enabled = other.enabled /\ row.name = other.name

\* The task agrees with the row; of a request between the two, the copy does.
Follows ==
    /\ ~ssHurt /\ ssRow.exists /\ (\A q \in ScheduleRequests : ~At(q, "sync")) => Same(ssTasks[ssRow.task], ssRow)
    /\ \A q \in ssAlone : At(q, "sync") => Same(ssReq[q].copy, ssRow)

SyncInv == SyncTypeOK /\ SyncFresh /\ AloneOK /\ (~ssMixed => SyncWhole /\ Follows)


LEMMA SyncInvInit == SyncInit => SyncInv
<1> SUFFICES ASSUME SyncInit
             PROVE  SyncInv
  OBVIOUS
<1>1. SyncTypeOK
  BY SyncTypeInit
<1>2. \A q \in ScheduleRequests : ssReq[q].pc = "idle"
  BY DEF SyncInit
<1>3. LiveTasks = {} /\ Busy = {} /\ ~ssRow.exists
  BY <1>2, SyncRecords DEF SyncInit, LiveTasks, Busy
<1>4. \A q \in ScheduleRequests : ~At(q, "sync") /\ RequestWhole(q) /\ ~Deleting(q) /\ At(q, "idle")
  BY <1>2 DEF At, RequestWhole, Deleting
<1>5. RowsWhole /\ SyncWhole
  BY <1>3, <1>4 DEF RowsWhole, SyncWhole
<1>6. QED
  BY <1>1, <1>3, <1>4, <1>5 DEF SyncInit, SyncInv, SyncFresh, AloneOK, Follows

\* Requests that are only launching have no part in it.
LEMMA SyncLaunches ==
    ASSUME SyncInv, NEW q \in ScheduleRequests, Fire(q) \/ TouchAfterLaunch(q)
    PROVE  SyncInv'
<1>0. SyncTypeOK /\ SyncTypeOK' /\ ssReq[q].pc \in {"idle", "touch"}
  BY SyncTypeStep DEF SyncInv, Fire, TouchAfterLaunch, At, SyncNext, RequestStep
<1>1. ssReq'[q].pc \in {"idle", "touch"} /\ (\A p \in ScheduleRequests : p # q => ssReq'[p] = ssReq[p])
  BY <1>0, SyncBecome, SyncEnd DEF Fire, TouchAfterLaunch, RequestPcs, SyncTypeOK
<1>2. Busy' = Busy
  BY <1>0, <1>1 DEF Busy
<1>3. /\ \A pc \in {"save", "sync", "link", "delete_row", "delete_task"} :
             ~(ssReq[q].pc = pc) /\ ~(ssReq'[q].pc = pc)
  BY <1>0, <1>1
<1>4. UNCHANGED <<ssTasks, ssUsed, ssAlone, ssHurt, ssMixed, LiveTasks>>
  BY DEF Fire, TouchAfterLaunch, LiveTasks
<1>5. /\ ssRow'.exists = ssRow.exists /\ ssRow'.task = ssRow.task /\ ssRow'.cron = ssRow.cron
      /\ ssRow'.enabled = ssRow.enabled /\ ssRow'.name = ssRow.name
  <2>1. ssRow' = ssRow \/ ssRow' = [ssRow EXCEPT !.status = "launched"]
    BY DEF Fire, TouchAfterLaunch
  <2>2. QED
    BY <1>0, <2>1 DEF SyncTypeOK, ScheduleRow
<1>6. SyncFresh'
  <2>1. SUFFICES ASSUME ssUsed = {}
                 PROVE  /\ ~ssRow.exists /\ LiveTasks = {} /\ \A p \in ScheduleRequests : ssReq'[p].pc = "idle"
    BY <1>4, <1>5 DEF SyncFresh, At
  <2>2. ~ssRow.exists /\ LiveTasks = {} /\ \A p \in ScheduleRequests : ssReq[p].pc = "idle"
    BY <2>1 DEF SyncInv, SyncFresh, At
  <2>3. FALSE
    BY <2>2 DEF Fire, TouchAfterLaunch, At
  <2>4. QED
    BY <2>3
<1>7. AloneOK'
  BY <1>2, <1>4 DEF SyncInv, AloneOK
<1>8. ASSUME ~ssMixed
      PROVE  SyncWhole' /\ Follows'
  <2>1. SyncWhole /\ Follows
    BY <1>8 DEF SyncInv
  <2>2. \A p \in ScheduleRequests : RequestWhole(p)'
    BY <1>1, <1>3, <1>4, <1>5, <2>1 DEF SyncWhole, RequestWhole, At
  <2>3. \A p, r \in ScheduleRequests : Deleting(p)' /\ r \in Busy' => r = p
    BY <1>1, <1>2, <1>3, <2>1 DEF SyncWhole, Deleting, At
  <2>4. RowsWhole'
    BY <1>1, <1>3, <1>4, <1>5, <2>1 DEF SyncWhole, RowsWhole, At
  <2>5. Follows'
    BY <1>0, <1>1, <1>3, <1>4, <1>5, <2>1 DEF Follows, Same, At, SyncTypeOK
  <2>6. QED
    BY <2>2, <2>3, <2>4, <2>5 DEF SyncWhole
<1>9. QED
  BY <1>0, <1>4, <1>6, <1>7, <1>8 DEF SyncInv


\* A request that loads the schedule.
LEMMA SyncEntry ==
    ASSUME SyncInv, NEW q \in ScheduleRequests, LoadForUpdate(q) \/ LoadForDelete(q)
    PROVE  SyncInv'
<1>0. SyncTypeOK /\ SyncTypeOK' /\ ssReq[q].pc = "idle" /\ ssRow.exists /\ ssRow \in ScheduleRow
  BY SyncTypeStep DEF SyncInv, LoadForUpdate, LoadForDelete, At, SyncNext, RequestStep, SyncTypeOK
<1>1. PICK pc \in {"save", "delete_row"} : Become(q, pc, ssRow)
  BY DEF LoadForUpdate, LoadForDelete
<1>2. /\ ssReq'[q].pc = pc /\ ssReq'[q].copy = ssRow /\ (\A p \in ScheduleRequests : p # q => ssReq'[p] = ssReq[p])
      /\ Busy' = Busy \union {q}
  BY <1>0, <1>1, SyncBecome DEF RequestPcs
<1>3. q \notin Busy
  BY <1>0 DEF Busy
<1>4. UNCHANGED <<ssTasks, ssUsed, ssRow, LiveTasks>> /\ Enter(q)
  BY DEF LoadForUpdate, LoadForDelete, LiveTasks
<1>5. ssUsed # {}
  BY <1>0 DEF SyncInv, SyncFresh
<1>6. AloneOK'
  <2>1. ssAlone' = IF Busy = {} THEN ssAlone \union {q} ELSE ssAlone \ (Busy \union {q})
    BY <1>4 DEF Enter
  <2>2. ssHurt' = (ssHurt \/ Busy # {})
    BY <1>4 DEF Enter
  <2>3. QED
    BY <1>2, <2>1, <2>2 DEF AloneOK
<1>7. ASSUME ~ssMixed'
      PROVE  SyncWhole' /\ Follows'
  <2>1. ~ssMixed /\ SyncWhole /\ Follows
    BY <1>7 DEF SyncInv, LoadForUpdate, LoadForDelete
  <2>2. \A p \in Busy : ~Deleting(p)
    BY <1>7 DEF LoadForUpdate, LoadForDelete, Deleting
  <2>3. pc = "delete_row" => Busy = {}
    <3>1. CASE LoadForUpdate(q)
      BY <1>2, <3>1, <1>0, SyncBecome DEF LoadForUpdate, RequestPcs
    <3>2. CASE LoadForDelete(q)
      BY <1>7, <3>2 DEF LoadForDelete
    <3>3. QED
      BY <3>1, <3>2
  <2>4. \A p \in ScheduleRequests : RequestWhole(p)'
    BY <1>0, <1>2, <1>4, <2>1 DEF SyncWhole, RequestWhole, At
  <2>5. \A p, r \in ScheduleRequests : Deleting(p)' /\ r \in Busy' => r = p
    <3>1. SUFFICES ASSUME NEW p \in ScheduleRequests, NEW r \in ScheduleRequests, Deleting(p)', r \in Busy'
                   PROVE  r = p
      OBVIOUS
    <3>2. CASE p = q
      BY <1>2, <2>3, <3>1, <3>2 DEF Deleting, At
    <3>3. CASE p # q
      <4>1. Deleting(p)
        BY <1>2, <3>1, <3>3 DEF Deleting, At
      <4>2. p \in Busy
        BY <4>1 DEF Busy, Deleting, At
      <4>3. QED
        BY <2>2, <4>1, <4>2
    <3>4. QED
      BY <3>2, <3>3
  <2>6. RowsWhole'
    BY <1>0, <1>2, <1>4, <2>1 DEF SyncWhole, RowsWhole, At
  <2>7. Follows'
    <3>1. ssHurt' = (ssHurt \/ Busy # {}) /\ ssAlone' \subseteq ssAlone \union {q}
      BY <1>4 DEF Enter
    <3>2. \A p \in ScheduleRequests : At(p, "sync")' <=> At(p, "sync")
      BY <1>0, <1>2 DEF At
    <3>3. \A p \in ssAlone' : At(p, "sync")' => p \in ssAlone /\ p # q /\ p \in ScheduleRequests
      BY <1>0, <1>2, <3>1 DEF At, SyncTypeOK
    <3>4. QED
      BY <1>2, <1>4, <2>1, <3>1, <3>2, <3>3 DEF Follows, Same
  <2>8. QED
    BY <2>4, <2>5, <2>6, <2>7 DEF SyncWhole
<1>8. QED
  BY <1>0, <1>4, <1>5, <1>6, <1>7 DEF SyncInv, SyncFresh

\* A request on the schedule is never before its creation.
LEMMA SyncNotFresh ==
    ASSUME SyncInv, NEW q \in ScheduleRequests, ~At(q, "idle"), ssUsed' = ssUsed \/ ssUsed' # {}
    PROVE  SyncFresh'
BY DEF SyncInv, SyncFresh

\* A request that ends, or goes on, takes nobody's solitude.
LEMMA SyncStillAlone ==
    ASSUME SyncInv, NEW q \in Busy, Busy' \in {Busy, Busy \ {q}}, ssAlone' = ssAlone,
           ssHurt' = ssHurt \/ ssHurt' = TRUE \/ (q \in ssAlone /\ Busy' = Busy \ {q})
    PROVE  AloneOK'
BY DEF SyncInv, AloneOK

LEMMA SyncSave ==
    ASSUME SyncInv, NEW q \in ScheduleRequests, SaveSchedule(q)
    PROVE  SyncInv'
<1>0. SyncTypeOK /\ SyncTypeOK' /\ ssReq[q].pc = "save" /\ q \in Busy
  BY SyncTypeStep DEF SyncInv, SaveSchedule, At, SyncNext, RequestStep, Busy
<1>1. PICK new \in ScheduleRow :
          /\ new.task = ssReq[q].copy.task /\ new.exists = ssReq[q].copy.exists
          /\ (ssRow' = new /\ Become(q, "sync", new)) \/ (UNCHANGED ssRow /\ End(q))
  BY <1>0, SyncSaves
<1>2. UNCHANGED <<ssTasks, ssUsed, ssAlone, ssHurt, ssMixed, LiveTasks>>
  BY DEF SaveSchedule, LiveTasks
<1>3. (\A p \in ScheduleRequests : p # q => ssReq'[p] = ssReq[p]) /\ Busy' \in {Busy, Busy \ {q}}
  BY <1>0, <1>1, SyncBecome, SyncEnd DEF RequestPcs
<1>4. SyncFresh' /\ AloneOK'
  BY <1>0, <1>2, <1>3, SyncNotFresh, SyncStillAlone DEF At
<1>5. ASSUME ~ssMixed
      PROVE  SyncWhole' /\ Follows'
  <2>1. SyncWhole /\ Follows /\ ssRow.exists /\ ssReq[q].copy.task = ssRow.task
    BY <1>0, <1>5 DEF SyncInv, SyncWhole, RequestWhole, At
  <2>2. \A p \in ScheduleRequests : ~Deleting(p)
    BY <1>0, <2>1 DEF SyncWhole, Deleting, At
  <2>3. CASE UNCHANGED ssRow /\ End(q)
    <3>1. ssReq'[q].pc = "idle" /\ Busy' = Busy \ {q}
      BY <1>0, <2>3, SyncEnd
    <3>2. \A p \in ScheduleRequests : RequestWhole(p)' /\ ~Deleting(p)'
      BY <1>2, <1>3, <2>1, <2>2, <2>3, <3>1 DEF SyncWhole, RequestWhole, Deleting, At
    <3>3. RowsWhole'
      BY <1>2, <2>1, <2>2, <2>3 DEF SyncWhole, RowsWhole, Deleting
    <3>4. Follows'
      BY <1>0, <1>2, <1>3, <2>1, <2>3, <3>1 DEF Follows, Same, At, SyncTypeOK
    <3>5. QED
      BY <3>2, <3>3, <3>4 DEF SyncWhole
  <2>4. CASE ssRow' = new /\ Become(q, "sync", new)
    <3>1. ssReq'[q].pc = "sync" /\ ssReq'[q].copy = new /\ Busy' = Busy \union {q}
      BY <1>0, <2>4, SyncBecome DEF RequestPcs
    <3>2. ssRow'.task = ssRow.task
      BY <1>1, <2>1, <2>4
    <3>3. ssRow'.exists
      BY <1>0, <1>1, <2>1, <2>4 DEF SyncInv, SyncWhole, RequestWhole, At
    <3>4. \A p \in ScheduleRequests : RequestWhole(p)' /\ ~Deleting(p)'
      BY <1>2, <1>3, <2>1, <2>2, <2>4, <3>1, <3>2, <3>3 DEF SyncWhole, RequestWhole, Deleting, At
    <3>5. RowsWhole'
      BY <1>2, <2>1, <2>2, <3>2, <3>3 DEF SyncWhole, RowsWhole, Deleting
    <3>6. \A p \in ssAlone : p # q => ~At(p, "sync")
      BY <1>0 DEF SyncInv, AloneOK, At, Busy, SyncTypeOK
    <3>7. Follows'
      BY <1>0, <1>2, <1>3, <2>4, <3>1, <3>6 DEF Follows, Same, At, SyncTypeOK
    <3>8. QED
      BY <3>4, <3>5, <3>7 DEF SyncWhole
  <2>5. QED
    BY <1>1, <2>3, <2>4
<1>6. QED
  BY <1>0, <1>2, <1>4, <1>5 DEF SyncInv


LEMMA SyncSyncTask ==
    ASSUME SyncInv, NEW q \in ScheduleRequests, SyncTask(q)
    PROVE  SyncInv'
<1> DEFINE c == ssReq[q].copy
<1>0. SyncTypeOK /\ SyncTypeOK' /\ ssReq[q].pc = "sync" /\ q \in Busy /\ c \in ScheduleRow
  BY SyncTypeStep, SyncCopies DEF SyncInv, SyncTask, At, SyncNext, RequestStep, Busy
<1>1. PICK id \in IF c.task = NoTask THEN TaskIds \ ssUsed ELSE {c.task} :
          IF NameTaken(c.name, id)
          THEN End(q) /\ UNCHANGED <<ssTasks, ssUsed>>
          ELSE /\ ssTasks' = [ssTasks EXCEPT ![id] = TaskOf(c)]
               /\ ssUsed' = ssUsed \union {id}
               /\ IF id = c.task THEN End(q) ELSE Become(q, "link", [c EXCEPT !.task = id])
  BY DEF SyncTask
<1>2. id \in TaskIds /\ [c EXCEPT !.task = id] \in ScheduleRow /\ TaskOf(c) \in TaskRow /\ TaskOf(c).exists
  BY <1>0, SyncCopies, SyncRecords DEF ScheduleRow
<1>3. UNCHANGED <<ssRow, ssAlone, ssMixed>> /\ ssHurt' = (ssHurt /\ ~(q \in ssAlone /\ c.task # NoTask))
  BY DEF SyncTask
<1>4. (\A p \in ScheduleRequests : p # q => ssReq'[p] = ssReq[p])
  <2> HIDE DEF c
  <2>1. QED
    BY <1>0, <1>1, <1>2, SyncBecome, SyncEnd DEF RequestPcs
<1>5. c.task # NoTask => End(q)
  BY <1>1
<1>6. Busy' \in {Busy, Busy \ {q}} /\ (c.task # NoTask => Busy' = Busy \ {q} /\ ssReq'[q].pc = "idle")
  <2>1. End(q) \/ Become(q, "link", [c EXCEPT !.task = id])
    BY <1>1
  <2> HIDE DEF c
  <2>2. End(q) => Busy' = Busy \ {q} /\ ssReq'[q].pc = "idle"
    BY <1>0, SyncEnd
  <2>3. Become(q, "link", [c EXCEPT !.task = id]) => Busy' = Busy \union {q}
    BY <1>0, <1>2, SyncBecome DEF RequestPcs
  <2>4. QED
    BY <1>0, <1>5, <2>1, <2>2, <2>3
<1>7. SyncFresh'
  <2>1. ssUsed' = ssUsed \/ ssUsed' # {}
    BY <1>1
  <2>2. QED
    BY <1>0, <2>1, SyncNotFresh DEF At
<1>8. AloneOK'
  BY <1>0, <1>3, <1>6 DEF SyncInv, AloneOK
<1>9. ASSUME ~ssMixed
      PROVE  SyncWhole' /\ Follows'
  <2>1. SyncWhole /\ Follows /\ ssRow.exists /\ c.task = ssRow.task /\ RowsWhole
    BY <1>0, <1>9 DEF SyncInv, SyncWhole, RequestWhole, At
  <2>2. \A p \in ScheduleRequests : ~Deleting(p)
    BY <1>0, <2>1 DEF SyncWhole, Deleting, At
  <2>3. LiveTasks = {c.task} /\ c.task \in TaskIds /\ c.task # NoTask /\ id = c.task
    BY <1>1, <2>1, <2>2, NoTaskAssumption DEF RowsWhole, Deleting
  <2>4. ssTasks' = [ssTasks EXCEPT ![id] = TaskOf(c)]
    BY <1>1, <2>3 DEF NameTaken
  <2>5. LiveTasks' = LiveTasks /\ ssTasks'[id] = TaskOf(c)
    <3> HIDE DEF c
    <3>1. QED
      BY <1>0, <1>2, <2>3, <2>4, SyncWritten
  <2>6. ssReq'[q].pc = "idle" /\ Busy' = Busy \ {q}
    BY <1>6, <2>3
  <2>7. \A p \in ScheduleRequests : RequestWhole(p)' /\ ~Deleting(p)'
    BY <1>3, <1>4, <2>1, <2>2, <2>5, <2>6 DEF SyncWhole, RequestWhole, Deleting, At
  <2>8. RowsWhole'
    BY <1>3, <2>1, <2>2, <2>5 DEF RowsWhole, Deleting
  <2>9. Follows'
    <3>1. q \in ssAlone => Same(c, ssRow)
      BY <1>0, <2>1 DEF Follows, At
    <3>2. q \in ssAlone => Same(ssTasks'[ssRow.task], ssRow)
      BY <2>1, <2>3, <2>5, <3>1 DEF Same, TaskOf
    <3>3. ~ssHurt' => q \in ssAlone
      BY <1>0, <1>3 DEF SyncInv, AloneOK
    <3>4. \A p \in ssAlone : At(p, "sync")' => p # q /\ p \in ScheduleRequests /\ At(p, "sync") /\ ssReq'[p].copy = ssReq[p].copy
      BY <1>0, <1>4, <2>6 DEF At, SyncTypeOK
    <3>5. QED
      BY <1>3, <2>1, <3>2, <3>3, <3>4 DEF Follows, Same
  <2>10. QED
    BY <2>7, <2>8, <2>9 DEF SyncWhole
<1>10. QED
  BY <1>0, <1>3, <1>7, <1>8, <1>9 DEF SyncInv

LEMMA SyncLink ==
    ASSUME SyncInv, NEW q \in ScheduleRequests, LinkTask(q)
    PROVE  SyncInv'
<1>1. SyncTypeOK /\ SyncTypeOK' /\ ssReq[q].pc = "link" /\ q \in Busy
  BY SyncTypeStep DEF SyncInv, LinkTask, At, SyncNext, RequestStep, Busy
<1>2. ssMixed /\ ssMixed'
  BY <1>1 DEF SyncInv, SyncWhole, RequestWhole, At, LinkTask
<1>3. Busy' = Busy \ {q}
  BY <1>1, SyncEnd DEF LinkTask
<1>4. SyncFresh' /\ AloneOK'
  BY <1>1, <1>3, SyncNotFresh, SyncStillAlone DEF At, LinkTask
<1>5. QED
  BY <1>1, <1>2, <1>4 DEF SyncInv

LEMMA SyncDeleteRow ==
    ASSUME SyncInv, NEW q \in ScheduleRequests, DeleteRow(q)
    PROVE  SyncInv'
<1>1. SyncTypeOK /\ SyncTypeOK' /\ ssReq[q].pc = "delete_row" /\ q \in Busy
  BY SyncTypeStep DEF SyncInv, DeleteRow, At, SyncNext, RequestStep, Busy
<1>2. /\ \A p \in ScheduleRequests : p # q => ssReq'[p] = ssReq[p]
      /\ Busy' \in {Busy, Busy \ {q}}
      /\ ssReq[q].copy.task # NoTask => ssReq'[q].pc = "delete_task" /\ ssReq'[q].copy = ssReq[q].copy
  <2>1. CASE ssReq[q].copy.task = NoTask
    BY <1>1, <2>1, SyncEnd DEF DeleteRow
  <2>2. CASE ssReq[q].copy.task # NoTask
    <3>1. Become(q, "delete_task", ssReq[q].copy)
      BY <2>2 DEF DeleteRow
    <3>2. /\ \A p \in ScheduleRequests : p # q => ssReq'[p] = ssReq[p]
          /\ ssReq'[q].pc = "delete_task" /\ ssReq'[q].copy = ssReq[q].copy
          /\ Busy' = Busy \union {q}
      BY <1>1, <3>1, SyncBecome, SyncCopies DEF RequestPcs
    <3>3. Busy' = Busy
      BY <1>1, <3>2
    <3>4. QED
      BY <3>2, <3>3
  <2>3. QED
    BY <2>1, <2>2
<1>3. UNCHANGED <<ssTasks, ssUsed, ssAlone, ssHurt, ssMixed, LiveTasks>> /\ ~ssRow'.exists
  BY SyncRecords DEF DeleteRow, LiveTasks
<1>4. SyncFresh' /\ AloneOK'
  BY <1>1, <1>2, <1>3, SyncNotFresh, SyncStillAlone DEF At
<1>5. ASSUME ~ssMixed
      PROVE  SyncWhole' /\ Follows'
  <2>1. SyncWhole /\ Follows /\ RowsWhole /\ ssRow.exists /\ ssReq[q].copy.task = ssRow.task
    BY <1>1, <1>5 DEF SyncInv, SyncWhole, RequestWhole, At
  <2>2. \A p \in ScheduleRequests : p # q => ssReq[p].pc \in {"idle", "touch"}
    BY <1>1, <2>1 DEF SyncWhole, Deleting, At, Busy
  <2>3. \A p \in ScheduleRequests : ~At(p, "delete_task")
    BY <1>1, <2>2 DEF At
  <2>4. LiveTasks = {ssRow.task} /\ ssRow.task \in TaskIds /\ ssRow.task # NoTask
    BY <2>1, <2>3, NoTaskAssumption DEF RowsWhole
  <2>5. ssReq'[q].pc = "delete_task" /\ ssReq'[q].copy.task = ssRow.task
    BY <1>2, <2>1, <2>4
  <2>6. \A p \in ScheduleRequests : p # q => ssReq'[p].pc \in {"idle", "touch"}
    BY <1>2, <2>2
  <2>7. \A p \in ScheduleRequests : RequestWhole(p)'
    BY <1>3, <2>4, <2>5, <2>6 DEF RequestWhole, At
  <2>8. \A p, r \in ScheduleRequests : Deleting(p)' /\ r \in Busy' => r = p
    BY <2>6 DEF Deleting, At, Busy
  <2>9. RowsWhole'
    BY <1>3, <2>5 DEF RowsWhole, At
  <2>10. Follows'
    BY <1>1, <1>3, <2>5, <2>6 DEF Follows, At, SyncTypeOK
  <2>11. QED
    BY <2>7, <2>8, <2>9, <2>10 DEF SyncWhole
<1>6. QED
  BY <1>1, <1>3, <1>4, <1>5 DEF SyncInv

LEMMA SyncDeleteTask ==
    ASSUME SyncInv, NEW q \in ScheduleRequests, DeleteTask(q)
    PROVE  SyncInv'
<1>1. SyncTypeOK /\ SyncTypeOK' /\ ssReq[q].pc = "delete_task" /\ q \in Busy
  BY SyncTypeStep DEF SyncInv, DeleteTask, At, SyncNext, RequestStep, Busy
<1>2. ssReq'[q].pc = "idle" /\ Busy' = Busy \ {q} /\ \A p \in ScheduleRequests : p # q => ssReq'[p] = ssReq[p]
  BY <1>1, SyncEnd DEF DeleteTask
<1>3. UNCHANGED <<ssUsed, ssAlone, ssHurt, ssMixed>> /\ ssRow'.exists = ssRow.exists
  BY <1>1 DEF DeleteTask, SyncTypeOK, ScheduleRow
<1>4. SyncFresh' /\ AloneOK'
  BY <1>1, <1>2, <1>3, SyncNotFresh, SyncStillAlone DEF At
<1>5. ASSUME ~ssMixed
      PROVE  SyncWhole' /\ Follows'
  <2>1. SyncWhole /\ ~ssRow.exists /\ ssReq[q].copy.task \in TaskIds /\ LiveTasks = {ssReq[q].copy.task}
    BY <1>1, <1>5 DEF SyncInv, SyncWhole, RequestWhole, At
  <2>2. \A p \in ScheduleRequests : ssReq'[p].pc \in {"idle", "touch"}
    BY <1>1, <1>2, <2>1 DEF SyncWhole, Deleting, At, Busy
  <2>3. LiveTasks' = {}
    BY <1>1, <2>1, SyncWritten, SyncRecords DEF DeleteTask
  <2>4. QED
    BY <1>1, <1>3, <2>1, <2>2, <2>3 DEF SyncWhole, RequestWhole, RowsWhole, Follows, Deleting, At, SyncTypeOK
<1>6. QED
  BY <1>1, <1>3, <1>4, <1>5 DEF SyncInv

LEMMA SyncCrash ==
    ASSUME SyncInv, NEW q \in ScheduleRequests, CrashRequest(q)
    PROVE  SyncInv'
<1>1. SyncTypeOK /\ SyncTypeOK' /\ q \in Busy /\ ssReq[q].pc \notin {"idle", "touch"}
  BY SyncTypeStep DEF SyncInv, CrashRequest, SyncNext, RequestStep, Busy
<1>2. ssReq'[q].pc = "idle" /\ Busy' = Busy \ {q} /\ \A p \in ScheduleRequests : p # q => ssReq'[p] = ssReq[p]
  BY <1>1, SyncEnd DEF CrashRequest
<1>3. UNCHANGED <<ssRow, ssTasks, ssUsed, ssAlone, LiveTasks>> /\ ssHurt'
  BY DEF CrashRequest, LiveTasks
<1>4. SyncFresh' /\ AloneOK'
  <2>1. SyncFresh'
    BY <1>1, <1>3, SyncNotFresh DEF At
  <2>2. AloneOK'
    BY <1>1, <1>2, <1>3 DEF SyncInv, AloneOK
  <2>3. QED
    BY <2>1, <2>2
<1>5. ASSUME ~ssMixed'
      PROVE  SyncWhole' /\ Follows'
  <2>1. SyncWhole /\ Follows /\ ~At(q, "delete_task")
    BY <1>5 DEF SyncInv, CrashRequest
  <2>2. \A p \in ScheduleRequests : RequestWhole(p)'
    BY <1>2, <1>3, <2>1 DEF SyncWhole, RequestWhole, At
  <2>3. \A p, r \in ScheduleRequests : Deleting(p)' /\ r \in Busy' => r = p
    BY <1>2, <2>1 DEF SyncWhole, Deleting, At
  <2>4. RowsWhole'
    BY <1>2, <1>3, <2>1 DEF SyncWhole, RowsWhole, At
  <2>5. Follows'
    BY <1>1, <1>2, <1>3, <2>1 DEF Follows, At, SyncTypeOK
  <2>6. QED
    BY <2>2, <2>3, <2>4, <2>5 DEF SyncWhole
<1>6. QED
  BY <1>1, <1>4, <1>5 DEF SyncInv, CrashRequest

LEMMA SyncCreate ==
    ASSUME SyncInv, CreateSchedule
    PROVE  SyncInv'
<1>1. SyncTypeOK /\ SyncTypeOK'
  BY SyncTypeStep DEF SyncInv, SyncNext
<1>2. LiveTasks = {} /\ \A q \in ScheduleRequests : ssReq[q].pc = "idle"
  BY DEF SyncInv, SyncFresh, CreateSchedule, At
<1>3. UNCHANGED <<ssReq, ssAlone, ssHurt, ssMixed>> /\ Busy' = Busy
  BY DEF CreateSchedule, Busy
<1>4. PICK id \in TaskIds, c \in Crons, e \in BOOLEAN :
          LET row == [NoSchedule EXCEPT !.exists = TRUE, !.cron = c, !.enabled = e, !.task = id]
          IN  ssRow' = row /\ ssTasks' = [ssTasks EXCEPT ![id] = TaskOf(row)] /\ ssUsed' = {id}
  BY DEF CreateSchedule
<1>5. ssRow'.exists /\ ssRow'.task = id /\ ssRow' \in ScheduleRow
  BY <1>1, <1>4, SyncRecords DEF SyncTypeOK, ScheduleRow
<1>6. ssTasks' = [ssTasks EXCEPT ![id] = TaskOf(ssRow')]
  BY <1>4
<1>7. ssTasks'[id] = TaskOf(ssRow') /\ LiveTasks' = {id}
  BY <1>1, <1>2, <1>5, <1>6, SyncWritten, SyncRecords
<1>8. SyncFresh' /\ AloneOK'
  BY <1>3, <1>4 DEF SyncInv, SyncFresh, AloneOK
<1>9. \A q \in ScheduleRequests : ssReq'[q].pc = "idle"
  BY <1>2, <1>3
<1>10. SyncWhole'
  BY <1>5, <1>7, <1>9 DEF SyncWhole, RequestWhole, RowsWhole, Deleting, At
<1>11. Follows'
  BY <1>1, <1>5, <1>7, <1>9 DEF Follows, Same, TaskOf, At, SyncTypeOK
<1>12. QED
  BY <1>1, <1>8, <1>10, <1>11 DEF SyncInv

LEMMA SyncTemplateGone ==
    ASSUME SyncInv, DeleteTemplate
    PROVE  SyncInv'
<1>1. SyncTypeOK /\ SyncTypeOK'
  BY SyncTypeStep DEF SyncInv, SyncNext
<1>2. UNCHANGED <<ssReq, ssTasks, ssUsed, ssAlone, ssHurt, Busy, LiveTasks>> /\ ~ssRow'.exists
  BY SyncRecords DEF DeleteTemplate, Busy, LiveTasks
<1>3. \A q \in ScheduleRequests, pc \in RequestPcs : At(q, pc)' <=> At(q, pc)
  BY <1>2 DEF At
<1>4. SyncFresh' /\ AloneOK'
  BY <1>2 DEF SyncInv, SyncFresh, AloneOK, At
<1>5. ASSUME ~ssMixed'
      PROVE  SyncWhole' /\ Follows'
  <2>1. SyncWhole /\ Follows /\ ~ssRow.exists
    BY <1>5 DEF SyncInv, DeleteTemplate
  <2>2. \A q \in ScheduleRequests : ~At(q, "save") /\ ~At(q, "sync") /\ ~At(q, "delete_row")
    BY <2>1 DEF SyncWhole, RequestWhole
  <2>3. \A q \in ScheduleRequests : RequestWhole(q)'
    BY <1>2, <2>1, <2>2 DEF SyncWhole, RequestWhole, At
  <2>4. \A p, r \in ScheduleRequests : Deleting(p)' /\ r \in Busy' => r = p
    BY <1>2, <2>1 DEF SyncWhole, Deleting, At
  <2>5. RowsWhole'
    BY <1>2, <2>1 DEF SyncWhole, RowsWhole, At
  <2>6. Follows'
    BY <1>1, <1>2, <2>2 DEF Follows, At, SyncTypeOK
  <2>7. QED
    BY <2>3, <2>4, <2>5, <2>6 DEF SyncWhole
<1>6. QED
  BY <1>1, <1>4, <1>5 DEF SyncInv, DeleteTemplate

LEMMA SyncInvStep == SyncInv /\ [SyncNext]_scheduleVars => SyncInv'
<1> SUFFICES ASSUME SyncInv, [SyncNext]_scheduleVars
             PROVE  SyncInv'
  OBVIOUS
<1>1. CASE UNCHANGED scheduleVars
  BY <1>1 DEF scheduleVars, SyncInv, SyncTypeOK, SyncFresh, AloneOK, SyncWhole, RequestWhole, RowsWhole, Follows,
              Deleting, Same, At, Busy, LiveTasks
<1>2. QED
  BY <1>1, SyncLaunches, SyncEntry, SyncSave, SyncSyncTask, SyncLink, SyncDeleteRow, SyncDeleteTask, SyncCrash,
     SyncCreate, SyncTemplateGone DEF SyncNext, RequestStep

\* With no request half way, the inductive invariant says both things of the rows.
LEMMA SyncQuiet == SyncInv => TaskFollowsSchedule /\ NoStrayTask
<1> SUFFICES ASSUME SyncInv, Busy = {}, ~ssMixed
             PROVE  /\ LiveTasks = IF ssRow.exists THEN {ssRow.task} ELSE {}
                    /\ ssRow.exists /\ ~ssHurt => Same(ssTasks[ssRow.task], ssRow)
  BY DEF TaskFollowsSchedule, NoStrayTask, Same
<1>1. \A q \in ScheduleRequests : ~At(q, "sync") /\ ~At(q, "delete_task")
  BY DEF Busy, At
<1>2. QED
  BY <1>1 DEF SyncInv, SyncWhole, RowsWhole, Follows

\* Beat fires when the schedule says so: once no request is half way, the schedule's task has
\* its crontab, flag and name, whatever crashes and overlaps a later lone update put right.
THEOREM TaskFollows == SyncSpec => []TaskFollowsSchedule
BY SyncInvInit, SyncInvStep, SyncQuiet, PTL DEF SyncSpec

\* One task launches a schedule and none a deleted one, unless a deletion overlapped another
\* request, died half way or was the template's.
THEOREM NoTaskStrays == SyncSpec => []NoStrayTask
BY SyncInvInit, SyncInvStep, SyncQuiet, PTL DEF SyncSpec

-----------------------------------------------------------------------------
(* The two together (MCAutomation).                                          *)

\* A behaviour of the digests or of the schedules is one of each.
LEMMA PartsBehave == AutomationSpec => DigestSpec /\ SyncSpec
<1>1. AutomationInit => DigestInit /\ SyncInit
  BY DEF AutomationInit
<1>2. [DigestPart \/ SyncPart]_<<part, digestVars, scheduleVars>> => [DigestNext]_digestVars /\ [SyncNext]_scheduleVars
  BY DEF DigestPart, SyncPart
<1>3. QED
  BY <1>1, <1>2, PTL DEF AutomationSpec, DigestSpec, SyncSpec

\* The preferences, digests and notifications, and the schedule and its tasks, keep their
\* types in whatever order tasks and requests run.
THEOREM AutomationTypes == AutomationSpec => []AutomationTypeOK
<1>1. DigestTypeOK /\ SyncTypeOK => AutomationTypeOK
  BY DEF AutomationTypeOK
<1>2. QED
  BY <1>1, PartsBehave, DigestTypes, ScheduleTypes, PTL

=============================================================================
