--------------------------- MODULE Limits_proofs ---------------------------
(***************************************************************************)
(* A workspace's limit on its unfinished jobs holds (JobLimits), for every  *)
(* set of workspaces and launch requests and every choice of the limits;    *)
(* and a stream of events that ends has shown all it could (JobStream), for *)
(* any events and batch size.                                               *)
(***************************************************************************)
EXTENDS JobLimits, JobStream, WellFoundedInduction, SequenceTheorems, FiniteSetTheorems, TLAPS

-----------------------------------------------------------------------------
(* A set of numbers has a least element.                                     *)

LEMMA NatLess == IsWellFoundedOn({p \in Nat \X Nat : p[1] < p[2]}, Nat)
BY NatLessThanWellFounded DEF OpToRel

LEMMA LeastElement ==
    ASSUME NEW S \in SUBSET Nat, S # {}
    PROVE  \E m \in S : \A j \in S : m <= j
<1> DEFINE Less == {p \in Nat \X Nat : p[1] < p[2]}
<1>1. \E m \in S : \A j \in S : <<j, m>> \notin Less
  <2> HIDE DEF Less
  <2>1. IsWellFoundedOn(Less, Nat)
    BY NatLess DEF Less
  <2>2. QED
    BY <2>1, WFMin
<1>2. PICK m \in S : \A j \in S : <<j, m>> \notin Less
  BY <1>1
<1>3. ASSUME NEW j \in S
      PROVE  m <= j
  <2>1. ~(j < m)
    BY <1>2, <1>3
  <2>2. j \in Nat /\ m \in Nat
    OBVIOUS
  <2>3. QED
    BY <2>1, <2>2
<1>4. QED
  BY <1>3

-----------------------------------------------------------------------------
(* The stream of events (JobStream).                                         *)

\* The part of the types that the argument uses.
StreamTyped ==
    /\ jsTerminal \in BOOLEAN
    /\ jsLastId \in 0 .. MaxEvents
    /\ jsEvents \subseteq EventIds
    /\ jsWriter \in [Writers -> Writer]
    /\ \A w \in Writers : jsWriter[w].pc = "commit" => jsWriter[w].id \in EventIds
    /\ jsConn \in Connection

\* The reader is past this event: it showed it, or could not.
Passed(e) == e \in jsConn.shown \union jsExcused

\* What the reader has passed, holds or is past is accounted for: the events up to the last
\* one it showed, those a batch holds back, and, once the row was final, all that were due.
StreamInv ==
    /\ StreamTyped
    /\ jsConn.last = 0 \/ jsConn.last \in jsEvents
    /\ jsConn.pending \subseteq jsEvents /\ jsConn.due \subseteq jsEvents
    /\ jsConn.pc # "show" => jsConn.pending = {}
    /\ \A e \in jsEvents : e <= jsConn.last => Passed(e)
    /\ \A e \in jsEvents : (\E p \in jsConn.pending : e <= p) => e \in jsConn.pending \/ Passed(e)
    /\ jsConn.pc \in {"show", "ended"} /\ jsConn.terminal =>
           \A e \in jsConn.due : e \in jsConn.pending \/ Passed(e)
    /\ jsConn.pc = "ended" => jsConn.terminal

LEMMA ConnectionFacts ==
    /\ NoConnection \in Connection /\ NoWriter \in Writer /\ NoWriter.pc = "idle"
    /\ NoConnection.last = 0 /\ NoConnection.pending = {} /\ NoConnection.due = {} /\ NoConnection.shown = {}
    /\ NoConnection.pc = "closed"
    /\ [NoConnection EXCEPT !.pc = "row"] \in Connection
<1>1. 0 \in 0 .. MaxEvents
  BY StreamAssumption
<1>2. NoConnection \in Connection /\ [NoConnection EXCEPT !.pc = "row"] \in Connection
  BY <1>1 DEF NoConnection, Connection
<1>3. NoWriter \in Writer
  BY <1>1 DEF NoWriter, Writer
<1>4. QED
  BY <1>2, <1>3 DEF NoConnection, NoWriter

\* A writer whose event is committed is not about to commit.
LEMMA WriterGoesOn ==
    ASSUME NEW t \in Writer
    PROVE  AfterEvent(t) \in Writer /\ AfterEvent(t).pc # "commit"
<1>1. CASE t.more
  <2>1. AfterEvent(t) = [t EXCEPT !.pc = "insert", !.more = FALSE]
    BY <1>1 DEF AfterEvent
  <2>2. QED
    BY <2>1 DEF Writer
<1>2. CASE ~t.more
  <2>1. \E p \in {"over", "idle"} : AfterEvent(t) = [NoWriter EXCEPT !.pc = p]
    BY <1>2 DEF AfterEvent
  <2>2. QED
    BY <2>1, ConnectionFacts DEF Writer
<1>3. QED
  BY <1>1, <1>2

LEMMA StreamStart == StreamInit => StreamInv
<1> SUFFICES ASSUME StreamInit
             PROVE  StreamInv
  OBVIOUS
<1>1. StreamTyped
  <2>1. 0 \in 0 .. MaxEvents
    BY StreamAssumption
  <2>2. jsWriter \in [Writers -> Writer] /\ \A w \in Writers : jsWriter[w].pc # "commit"
    BY ConnectionFacts DEF StreamInit
  <2>3. QED
    BY <2>1, <2>2, ConnectionFacts DEF StreamInit, StreamTyped
<1>2. QED
  BY <1>1, ConnectionFacts DEF StreamInit, StreamInv

\* A batch holds the first of the events: none before one of its own is left behind.
LEMMA FirstBatchIsFirst ==
    ASSUME NEW S \in SUBSET EventIds
    PROVE  /\ FirstBatch(S) \subseteq S
           /\ \A e \in S : (\E p \in FirstBatch(S) : e <= p) => e \in FirstBatch(S)
<1>1. FirstBatch(S) \subseteq S
  BY DEF FirstBatch
<1>2. ASSUME NEW e \in S, NEW p \in FirstBatch(S), e <= p
      PROVE  e \in FirstBatch(S)
  <2> DEFINE Before(x) == {f \in S : f < x}
  <2>1. IsFiniteSet(S)
    <3>1. IsFiniteSet(EventIds)
      BY StreamAssumption, FS_Interval DEF EventIds
    <3>2. QED
      BY <3>1, FS_Subset
  <2>2. Before(e) \subseteq Before(p) /\ Before(p) \subseteq S
    <3>1. e \in Int /\ p \in Int /\ \A f \in S : f \in Int
      <4>1. EventIds \subseteq Int
        BY StreamAssumption DEF EventIds
      <4>2. QED
        BY <1>1, <1>2, <4>1
    <3>2. \A f \in S : f < e => f < p
      BY <1>2, <3>1
    <3>3. QED
      BY <3>2
  <2>3. Cardinality(Before(e)) <= Cardinality(Before(p)) /\ Cardinality(Before(e)) \in Nat /\ Cardinality(Before(p)) \in Nat
    <3> HIDE DEF Before
    <3>1. IsFiniteSet(Before(p)) /\ IsFiniteSet(Before(e))
      BY <2>1, <2>2, FS_Subset
    <3>2. QED
      BY <2>2, <3>1, FS_Subset, FS_CardinalityType
  <2>4. Cardinality(Before(p)) < StreamBatch
    BY <1>2 DEF FirstBatch
  <2> HIDE DEF Before
  <2>5. Cardinality(Before(e)) < StreamBatch
    BY <2>3, <2>4, StreamAssumption
  <2>6. QED
    BY <2>5 DEF FirstBatch, Before
<1>3. QED
  BY <1>1, <1>2

\* The writers: what becomes visible behind the reader is excused.
LEMMA StreamWriters ==
    ASSUME StreamInv, NEW w \in Writers, SaveJobRow(w) \/ InsertEvent(w) \/ CommitEvent(w)
    PROVE  StreamInv'
<1> DEFINE t == jsWriter[w]
<1>0. /\ StreamTyped /\ t \in Writer /\ jsConn \in Connection
      /\ t.final \in BOOLEAN /\ t.id \in 0 .. MaxEvents
  BY DEF StreamInv, StreamTyped, Writer
<1>1. CASE SaveJobRow(w)
  <2>1. PICK final \in BOOLEAN, more \in BOOLEAN :
             /\ jsTerminal' = (jsTerminal \/ final)
             /\ SetWriter(w, [pc |-> "insert", final |-> final, more |-> more, id |-> 0])
    BY <1>1 DEF SaveJobRow
  <2>2. [pc |-> "insert", final |-> final, more |-> more, id |-> 0] \in Writer
    BY StreamAssumption DEF Writer
  <2>3. StreamTyped'
    BY <1>0, <1>1, <2>1, <2>2 DEF SaveJobRow, SetWriter, StreamTyped
  <2>4. QED
    BY <1>1, <2>3 DEF SaveJobRow, StreamInv, Passed
<1>2. CASE InsertEvent(w)
  <2>1. jsLastId + 1 \in EventIds /\ jsLastId + 1 \in 0 .. MaxEvents
    BY <1>0, <1>2, StreamAssumption DEF InsertEvent, StreamTyped, EventIds
  <2>2. [t EXCEPT !.pc = "commit", !.id = jsLastId + 1] \in Writer /\ [t EXCEPT !.pc = "commit", !.id = jsLastId + 1].id = jsLastId + 1
    BY <1>0, <2>1 DEF Writer
  <2>3. StreamTyped'
    BY <1>0, <1>2, <2>1, <2>2 DEF InsertEvent, SetWriter, StreamTyped
  <2>4. QED
    BY <1>2, <2>3 DEF InsertEvent, StreamInv, Passed
<1>3. CASE CommitEvent(w)
  <2>1. PICK id \in EventIds :
        /\ t.pc = "commit" /\ id = t.id /\ jsEvents' = jsEvents \union {id}
        /\ jsExcused' = IF \E e \in jsConn.pending \union {jsConn.last} : id < e
                        THEN jsExcused \union {id} ELSE jsExcused
        /\ SetWriter(w, AfterEvent(t))
        /\ UNCHANGED <<jsTerminal, jsLastId, jsConn, jsTold>>
    BY <1>0, <1>3 DEF CommitEvent, StreamTyped
  <2>2. StreamTyped'
    <3>1. \E n \in Writer : SetWriter(w, n) /\ n.pc # "commit"
      BY <1>0, <2>1, WriterGoesOn
    <3>2. QED
      BY <1>0, <2>1, <3>1 DEF SetWriter, StreamTyped
  <2>3. \A e : Passed(e) => Passed(e)'
    BY <2>1 DEF Passed
  <2>4. ASSUME id \notin jsEvents
        PROVE  /\ id <= jsConn.last => Passed(id)'
               /\ (\E p \in jsConn.pending : id <= p) => Passed(id)'
    <3>1. id # jsConn.last /\ id \notin jsConn.pending
      BY <2>1, <2>4, StreamAssumption DEF StreamInv, EventIds
    <3>2. jsConn.last \in 0 .. MaxEvents /\ jsConn.pending \subseteq EventIds
      BY <1>0 DEF Connection
    <3>3. (id <= jsConn.last => id < jsConn.last) /\ \A p \in jsConn.pending : id <= p => id < p
      BY <2>1, <3>1, <3>2, StreamAssumption DEF EventIds
    <3>4. QED
      BY <2>1, <3>3 DEF Passed
  <2>5. ASSUME NEW e \in jsEvents'
        PROVE  /\ e <= jsConn.last => Passed(e)'
               /\ (\E p \in jsConn.pending : e <= p) => e \in jsConn.pending \/ Passed(e)'
    BY <2>1, <2>3, <2>4 DEF StreamInv
  <2>6. QED
    BY <2>1, <2>2, <2>3, <2>5 DEF StreamInv
<1>4. QED
  BY <1>1, <1>2, <1>3

\* The reader.
LEMMA StreamReader ==
    ASSUME StreamInv, Connect \/ StreamServe \/ Disconnect
    PROVE  StreamInv'
<1> DEFINE c == jsConn
<1>0. /\ StreamTyped /\ c \in Connection /\ jsEvents \subseteq EventIds
      /\ c.last \in 0 .. MaxEvents /\ c.pending \subseteq EventIds /\ c.due \subseteq EventIds /\ c.shown \subseteq EventIds
      /\ c.terminal \in BOOLEAN
  BY DEF StreamInv, StreamTyped, Connection
<1>a. UNCHANGED <<jsTerminal, jsLastId, jsEvents, jsWriter>>
  BY DEF Connect, StreamServe, Disconnect, ReadJobRow, ReadEvents, ShowEvent, ShowJob, Poll
<1>b. jsConn' \in Connection => StreamTyped'
  BY <1>0, <1>a DEF StreamTyped
<1>c. EventIds \subseteq Nat /\ \A e \in EventIds : ~(e <= 0)
  BY StreamAssumption DEF EventIds
<1>1. CASE Connect \/ Disconnect \/ (Poll /\ jsConn' = NoConnection)
  <2>1. jsConn' \in {NoConnection, [NoConnection EXCEPT !.pc = "row"]}
    BY <1>1 DEF Connect, Disconnect
  <2>2. /\ jsConn' \in Connection /\ jsConn'.last = 0 /\ jsConn'.pending = {} /\ jsConn'.due = {}
        /\ jsConn'.pc \in {"closed", "row"}
    BY <2>1, ConnectionFacts DEF NoConnection
  <2>3. QED
    BY <1>0, <1>a, <1>b, <1>c, <2>2 DEF StreamInv
<1>2. CASE Poll /\ jsConn' # NoConnection
  <2>1. c.pc = "rest" /\ jsConn' = [c EXCEPT !.pc = "row"] /\ jsExcused' = jsExcused
    BY <1>2 DEF Poll
  <2>2. jsConn' \in Connection /\ jsConn'.pc = "row"
    BY <1>0, <2>1 DEF Connection
  <2>3. UNCHANGED <<jsConn.last, jsConn.pending, jsConn.due, jsConn.shown>>
    BY <1>0, <2>1 DEF Connection
  <2>4. QED
    BY <1>0, <1>a, <1>b, <2>1, <2>2, <2>3 DEF StreamInv, Passed
<1>3. CASE ReadJobRow
  <2>1. c.pc = "row" /\ jsConn' = [c EXCEPT !.pc = "events", !.terminal = jsTerminal, !.due = jsEvents] /\ jsExcused' = jsExcused
    BY <1>3 DEF ReadJobRow
  <2>2. jsConn' \in Connection /\ jsConn'.pc = "events" /\ jsConn'.due = jsEvents
    BY <1>0, <2>1 DEF Connection, StreamTyped
  <2>3. UNCHANGED <<jsConn.last, jsConn.pending, jsConn.shown>>
    BY <1>0, <2>1 DEF Connection
  <2>4. QED
    BY <1>0, <1>a, <1>b, <2>1, <2>2, <2>3 DEF StreamInv, Passed
<1>4. CASE ReadEvents
  <2> DEFINE new == {e \in jsEvents : e > c.last}
  <2>1. /\ c.pc = "events" /\ jsConn' = [c EXCEPT !.pc = "show", !.pending = FirstBatch(new)]
        /\ jsExcused' = IF c.terminal THEN jsExcused \union (new \ FirstBatch(new)) ELSE jsExcused
    BY <1>4 DEF ReadEvents
  <2>2. new \subseteq jsEvents /\ \A e \in jsEvents : e \in new \/ e <= c.last
    BY <1>0, <1>c
  <2> HIDE DEF new
  <2>3. /\ FirstBatch(new) \subseteq new
        /\ \A e \in new : (\E p \in FirstBatch(new) : e <= p) => e \in FirstBatch(new)
    BY <1>0, <2>2, FirstBatchIsFirst
  <2>4. /\ jsConn' \in Connection /\ jsConn'.pc = "show" /\ jsConn'.pending = FirstBatch(new)
        /\ UNCHANGED <<jsConn.last, jsConn.due, jsConn.shown, jsConn.terminal>>
    BY <1>0, <2>1, <2>2, <2>3 DEF Connection
  <2>5. \A e \in jsEvents : e <= c.last => Passed(e)'
    BY <2>1, <2>4 DEF StreamInv, Passed
  <2>6. \A e \in jsEvents : (\E p \in FirstBatch(new) : e <= p) => e \in FirstBatch(new) \/ Passed(e)'
    BY <2>2, <2>3, <2>5
  <2>7. c.terminal => \A e \in jsEvents : e \in FirstBatch(new) \/ Passed(e)'
    BY <2>1, <2>2, <2>5 DEF Passed
  <2>8. QED
    BY <1>a, <1>b, <2>2, <2>3, <2>4, <2>5, <2>6, <2>7 DEF StreamInv
<1>5. CASE ShowEvent
  <2>1. PICK e : e = Min(c.pending)
    OBVIOUS
  <2>a. /\ c.pc = "show" /\ c.pending # {} /\ jsExcused' = jsExcused
        /\ jsConn' = [c EXCEPT !.last = e, !.pending = c.pending \ {e}, !.shown = c.shown \union {e}]
    BY <1>5, <2>1 DEF ShowEvent
  <2>2. e \in c.pending /\ \A p \in c.pending : e <= p
    <3>1. \E m \in c.pending : \A p \in c.pending : m <= p
      BY <1>0, <1>c, <2>a, LeastElement
    <3>2. QED
      BY <2>1, <3>1 DEF Min
  <2>3. /\ jsConn' \in Connection /\ jsConn'.pc = "show" /\ jsConn'.last = e
        /\ jsConn'.pending = c.pending \ {e} /\ jsConn'.shown = c.shown \union {e}
        /\ UNCHANGED <<jsConn.due, jsConn.terminal>>
    <3>1. e \in 0 .. MaxEvents /\ c.pending \ {e} \subseteq EventIds /\ c.shown \union {e} \subseteq EventIds
      BY <1>0, <2>2, StreamAssumption DEF EventIds
    <3>2. PICK rest \in SUBSET EventIds, all \in SUBSET EventIds : rest = c.pending \ {e} /\ all = c.shown \union {e}
      BY <3>1
    <3>3. jsConn' = [c EXCEPT !.last = e, !.pending = rest, !.shown = all]
      BY <2>a, <3>2
    <3>4. /\ jsConn' \in Connection /\ jsConn'.pc = "show" /\ jsConn'.last = e
          /\ jsConn'.pending = rest /\ jsConn'.shown = all
          /\ UNCHANGED <<jsConn.due, jsConn.terminal>>
      BY <1>0, <2>a, <3>1, <3>3 DEF Connection
    <3>5. QED
      BY <3>2, <3>4
  <2>4. \A x : Passed(x) => Passed(x)'
    BY <2>a, <2>3 DEF Passed
  <2>5. Passed(e)'
    BY <2>3 DEF Passed
  <2>6. \A x \in jsEvents : x <= e => Passed(x)'
    <3>1. SUFFICES ASSUME NEW x \in jsEvents, x <= e, x # e
                   PROVE  Passed(x)'
      BY <2>5
    <3>2. x \notin c.pending
      <4>1. e \in Nat /\ x \in Nat
        BY <1>0, <1>c, <2>2, <3>1
      <4>2. ~(e <= x)
        BY <3>1, <4>1
      <4>3. QED
        BY <2>2, <4>2
    <3>3. QED
      BY <2>2, <2>4, <3>1, <3>2 DEF StreamInv
  <2>7. \A x \in c.pending : x \in jsConn'.pending \/ Passed(x)'
    BY <2>3, <2>5
  <2>8. QED
    BY <1>a, <1>b, <2>a, <2>2, <2>3, <2>4, <2>6, <2>7 DEF StreamInv
<1>6. CASE ShowJob
  <2>1. /\ c.pc = "show" /\ c.pending = {} /\ jsExcused' = jsExcused
        /\ jsConn' = [c EXCEPT !.pc = IF c.terminal THEN "ended" ELSE "rest"]
    BY <1>6 DEF ShowJob
  <2>2. /\ jsConn' \in Connection /\ jsConn'.pc = (IF c.terminal THEN "ended" ELSE "rest")
        /\ UNCHANGED <<jsConn.last, jsConn.pending, jsConn.due, jsConn.shown, jsConn.terminal>>
    BY <1>0, <2>1 DEF Connection
  <2>3. QED
    BY <1>a, <1>b, <2>1, <2>2 DEF StreamInv, Passed
<1>7. QED
  BY <1>1, <1>2, <1>3, <1>4, <1>5, <1>6 DEF StreamServe

\* A stream that ended by itself has shown every event that was committed when it read the
\* final row, but for the excused: the events are read after the row, and in batches of the
\* first ones, so whatever is behind the reader was shown or came too late.
THEOREM StreamShowsAll == StreamSpec => []StreamComplete
<1>1. StreamInv /\ [StreamNext]_streamVars => StreamInv'
  <2> SUFFICES ASSUME StreamInv, [StreamNext]_streamVars
               PROVE  StreamInv'
    OBVIOUS
  <2>1. CASE UNCHANGED streamVars
    BY <2>1 DEF streamVars, StreamInv, StreamTyped, Passed
  <2>2. QED
    BY <2>1, StreamWriters, StreamReader DEF StreamNext
<1>2. StreamInv => StreamComplete
  BY DEF StreamInv, Passed, StreamComplete
<1>3. QED
  BY <1>1, <1>2, StreamStart, PTL DEF StreamSpec

-----------------------------------------------------------------------------
(* The workspace limits (JobLimits).                                        *)

USE RequestsAssumption, LimitsAssumption

-----------------------------------------------------------------------------
(* The lock.                                                                *)

LEMMA LockInit == Init => LockHeld
BY DEF Init, LockHeld, TypeOK, Pcs, Waiting

LEMMA LockStep == LockHeld /\ [Next]_vars => LockHeld'
<1> SUFFICES ASSUME LockHeld, [Next]_vars
             PROVE  LockHeld'
  OBVIOUS
<1> USE DEF LockHeld, TypeOK, Pcs, Waiting, MoveTo, Release
<1>1. CASE UNCHANGED vars
  BY <1>1 DEF vars
<1>2. ASSUME NEW r \in Requests, Arrive(r)
      PROVE  LockHeld'
  BY <1>2 DEF Arrive
<1>3. ASSUME NEW r \in Requests, LockWorkspace(r)
      PROVE  LockHeld'
  BY <1>3 DEF LockWorkspace
<1>4. ASSUME NEW r \in Requests, CountAll(r)
      PROVE  LockHeld'
  BY <1>4 DEF CountAll, Reject
<1>5. ASSUME NEW r \in Requests, CountKind(r)
      PROVE  LockHeld'
  BY <1>5 DEF CountKind, Reject
<1>6. ASSUME NEW r \in Requests, InsertJob(r)
      PROVE  LockHeld'
  BY <1>6 DEF InsertJob
<1>7. ASSUME NEW r \in Requests, CrashRequest(r)
      PROVE  LockHeld'
  BY <1>7 DEF CrashRequest
<1>8. ASSUME NEW r \in Requests, FinishJob(r) \/ ReviveJob(r)
      PROVE  LockHeld'
  BY <1>8 DEF FinishJob, ReviveJob
<1>9. QED
  BY <1>1, <1>2, <1>3, <1>4, <1>5, <1>6, <1>7, <1>8 DEF Next, RequestStep

\* A workspace row is locked exactly by the request whose transaction is open.
THEOREM LockDiscipline == Spec => []LockHeld
BY LockInit, LockStep, PTL DEF Spec

-----------------------------------------------------------------------------
(* The research limit.                                                      *)

\* The research jobs of a workspace that were admitted by a count.
Counted(w) == ActiveOf(w, "research") \ revived

\* The inductive form: a research request that has been admitted keeps both the
\* lock and a free place.
Room(w) ==
    /\ Cardinality(Counted(w)) <= ResearchLimit
    /\ \A r \in Requests :
          /\ pc[r] = "admitted" /\ KindOf[r] = "research" /\ WorkspaceOf[r] = w
          => Cardinality(Counted(w)) < ResearchLimit

LimitInv == LockHeld /\ (ResearchLimit > 0 => \A w \in Workspaces : Room(w))

LEMMA CountedFacts ==
    ASSUME active \subseteq Requests, NEW w
    PROVE  /\ IsFiniteSet(Counted(w)) /\ Cardinality(Counted(w)) \in Nat
           /\ IsFiniteSet(ActiveOf(w, "research"))
           /\ Cardinality(ActiveOf(w, "research")) \in Nat
           /\ Cardinality(Counted(w)) <= Cardinality(ActiveOf(w, "research"))
<1>1. /\ ActiveOf(w, "research") \subseteq Requests
      /\ Counted(w) \subseteq ActiveOf(w, "research")
  BY DEF ActiveOf, ActiveIn, Counted
<1>2. IsFiniteSet(ActiveOf(w, "research"))
  BY <1>1, FS_Subset
<1>3. QED
  BY <1>1, <1>2, FS_Subset, FS_CardinalityType

\* A step that counts no new job and admits no research request.
LEMMA RoomFrame ==
    ASSUME active \subseteq Requests, NEW w \in Workspaces, Room(w),
           Counted(w)' \subseteq Counted(w),
           \A r \in Requests : pc'[r] = "admitted" /\ KindOf[r] = "research"
                                  /\ WorkspaceOf[r] = w => pc[r] = "admitted"
    PROVE  Room(w)'
<1>1. /\ IsFiniteSet(Counted(w)) /\ Cardinality(Counted(w)) \in Nat
  BY CountedFacts
<1>2. /\ Cardinality(Counted(w)') <= Cardinality(Counted(w))
      /\ Cardinality(Counted(w)') \in Nat
  BY <1>1, FS_Subset, FS_CardinalityType
<1>3. QED
  BY <1>1, <1>2 DEF Room

LEMMA RoomStep ==
    ASSUME LockHeld, LockHeld', ResearchLimit > 0, NEW w \in Workspaces, Room(w), Next
    PROVE  Room(w)'
<1>0. /\ active \subseteq Requests /\ active' \subseteq Requests
      /\ pc \in [Requests -> Pcs]
      /\ lock \in [Workspaces -> Requests \union {NoRequest}]
  BY DEF LockHeld, TypeOK
<1>1. ASSUME NEW r \in Requests,
             Arrive(r) \/ LockWorkspace(r) \/ CountAll(r) \/ CrashRequest(r)
      PROVE  Room(w)'
  <2>1. UNCHANGED <<active, revived>> /\ \E q \in Pcs \ {"admitted"} : MoveTo(r, q)
    BY <1>1 DEF Arrive, LockWorkspace, CountAll, CrashRequest, Reject, Pcs, Waiting
  <2>2. \A s \in Requests : pc'[s] = "admitted" => pc[s] = "admitted"
    BY <1>0, <2>1 DEF MoveTo
  <2>3. Counted(w)' = Counted(w)
    BY <2>1 DEF Counted, ActiveOf, ActiveIn
  <2>4. QED
    BY <1>0, <2>2, <2>3, RoomFrame
<1>2. ASSUME NEW r \in Requests, CountKind(r)
      PROVE  Room(w)'
  <2>1. UNCHANGED <<active, revived>>
    BY <1>2 DEF CountKind
  <2>2. Counted(w)' = Counted(w)
    BY <2>1 DEF Counted, ActiveOf, ActiveIn
  <2>3. CASE pc'[r] = "admitted" /\ KindOf[r] = "research" /\ WorkspaceOf[r] = w
    <3>1. ~Reached(ResearchLimit, ActiveOf(w, "research"))
      BY <1>0, <1>2, <2>3 DEF CountKind, Reject, MoveTo, KindLimit
    <3>2. Cardinality(Counted(w)) < ResearchLimit /\ Cardinality(Counted(w)) \in Nat
      BY <1>0, <3>1, CountedFacts DEF Reached
    <3>3. QED
      BY <2>2, <3>2 DEF Room
  <2>4. CASE ~(pc'[r] = "admitted" /\ KindOf[r] = "research" /\ WorkspaceOf[r] = w)
    <3>1. \A s \in Requests : s # r => pc'[s] = pc[s]
      BY <1>0, <1>2 DEF CountKind, Reject, MoveTo
    <3>2. QED
      BY <1>0, <2>2, <2>4, <3>1, RoomFrame
  <2>5. QED
    BY <2>3, <2>4
<1>3. ASSUME NEW r \in Requests, InsertJob(r)
      PROVE  Room(w)'
  <2>1. /\ pc[r] = "admitted" /\ pc'[r] = "created"
        /\ \A s \in Requests : s # r => pc'[s] = pc[s]
        /\ active' = active \union {r} /\ revived' = revived
    BY <1>0, <1>3 DEF InsertJob, MoveTo
  <2>2. CASE KindOf[r] = "research" /\ WorkspaceOf[r] = w
    \* Nobody else is admitted: the lock is this request's.
    <3>1. \A s \in Requests : pc'[s] = "admitted" /\ KindOf[s] = "research"
                                /\ WorkspaceOf[s] = w => FALSE
      <4> SUFFICES ASSUME NEW s \in Requests, pc'[s] = "admitted",
                          KindOf[s] = "research", WorkspaceOf[s] = w
                   PROVE  FALSE
        OBVIOUS
      <4>1. s # r /\ pc[s] = "admitted"
        BY <2>1
      <4>2. lock[w] = r /\ lock[w] = s
        BY <2>1, <2>2, <4>1 DEF LockHeld, InTransaction
      <4>3. QED
        BY <4>1, <4>2
    <3>2. IsFiniteSet(Counted(w)) /\ Cardinality(Counted(w)) \in Nat
      BY <1>0, CountedFacts
    <3>3. Cardinality(Counted(w)) < ResearchLimit
      BY <2>1, <2>2 DEF Room
    <3>4. Counted(w)' \subseteq Counted(w) \union {r}
      BY <2>1 DEF Counted, ActiveOf, ActiveIn
    <3>5. /\ IsFiniteSet(Counted(w) \union {r})
          /\ Cardinality(Counted(w) \union {r}) <= Cardinality(Counted(w)) + 1
          /\ Cardinality(Counted(w) \union {r}) \in Nat
      <4>1. /\ IsFiniteSet(Counted(w) \union {r})
            /\ Cardinality(Counted(w) \union {r}) =
                  IF r \in Counted(w) THEN Cardinality(Counted(w))
                  ELSE Cardinality(Counted(w)) + 1
        BY <3>2, FS_AddElement
      <4>2. QED
        BY <3>2, <4>1
    <3>6. /\ Cardinality(Counted(w)') <= Cardinality(Counted(w) \union {r})
          /\ Cardinality(Counted(w)') \in Nat
      BY <3>4, <3>5, FS_Subset, FS_CardinalityType
    <3>7. Cardinality(Counted(w)') <= ResearchLimit
      BY <3>2, <3>3, <3>5, <3>6
    <3>8. QED
      BY <3>1, <3>7 DEF Room
  <2>3. CASE ~(KindOf[r] = "research" /\ WorkspaceOf[r] = w)
    <3>1. Counted(w)' = Counted(w)
      BY <2>1, <2>3 DEF Counted, ActiveOf, ActiveIn
    <3>2. QED
      BY <1>0, <2>1, <3>1, RoomFrame
  <2>4. QED
    BY <2>2, <2>3
<1>4. ASSUME NEW r \in Requests, FinishJob(r) \/ ReviveJob(r)
      PROVE  Room(w)'
  <2>1. Counted(w)' \subseteq Counted(w) /\ pc' = pc
    BY <1>4 DEF FinishJob, ReviveJob, Counted, ActiveOf, ActiveIn
  <2>2. QED
    BY <1>0, <2>1, RoomFrame
<1>5. QED
  BY <1>1, <1>2, <1>3, <1>4 DEF Next, RequestStep

LEMMA LimitInit == Init => LimitInv
<1> SUFFICES ASSUME Init, ResearchLimit > 0, NEW w \in Workspaces
             PROVE  Room(w)
  BY LockInit DEF LimitInv
<1>1. Counted(w) = {}
  BY DEF Init, Counted, ActiveOf, ActiveIn
<1>2. Cardinality(Counted(w)) = 0
  BY <1>1, FS_EmptySet
<1>3. QED
  BY <1>2 DEF Room

LEMMA LimitStep == LimitInv /\ [Next]_vars => LimitInv'
<1> SUFFICES ASSUME LimitInv, [Next]_vars
             PROVE  LimitInv'
  OBVIOUS
<1>1. LockHeld /\ LockHeld'
  BY LockStep DEF LimitInv
<1>2. ASSUME ResearchLimit > 0, NEW w \in Workspaces
      PROVE  Room(w)'
  <2>1. Room(w)
    BY <1>2 DEF LimitInv
  <2>2. CASE UNCHANGED vars
    BY <2>1, <2>2 DEF vars, Room, Counted, ActiveOf, ActiveIn
  <2>3. CASE Next
    BY <1>1, <1>2, <2>1, <2>3, RoomStep
  <2>4. QED
    BY <2>2, <2>3
<1>3. QED
  BY <1>1, <1>2 DEF LimitInv

\* The research limit of a workspace holds for any number of concurrent launches.
THEOREM ResearchLimitKept == Spec => []ResearchWithinLimit
<1>1. Spec => []LimitInv
  BY LimitInit, LimitStep, PTL DEF Spec
<1>2. LimitInv => ResearchWithinLimit
  BY DEF LimitInv, Room, Counted, ResearchWithinLimit
<1>3. QED
  BY <1>1, <1>2, PTL

=============================================================================
