----------------------------- MODULE JobStream -----------------------------
(***************************************************************************)
(* The event stream of a job (JobStreamView).  The worker and a request     *)
(* that cancels save the row and then insert an event; a reader polls the   *)
(* row and then the events it has not seen, shows both, and stops when the  *)
(* row it read was final or its time is up.  The ids of events are taken    *)
(* from a sequence before the insertion commits, so a higher id may become  *)
(* visible before a lower one.                                              *)
(*                                                                         *)
(* One job and one client, which connects again as "retry:" asks it to.     *)
(***************************************************************************)
EXTENDS Integers, FiniteSets, FiniteSetsExt

CONSTANTS
    Writers,       \* processes that record events of the job
    JobWorker,     \* the one that runs the job
    StreamBatch,   \* events read at once; 200 in the code
    MaxEvents      \* bound: events of the job

ASSUME StreamAssumption == /\ JobWorker \in Writers
                           /\ StreamBatch \in Nat \ {0} /\ MaxEvents \in Nat

VARIABLES
    jsTerminal,   \* the committed row is terminal
    jsLastId,     \* the highest id the sequence has given out
    jsEvents,     \* ids of the committed JobEvent rows
    jsWriter,     \* what each writer is about to do
    jsConn,       \* the connection
    jsTold,       \* the client has been shown a terminal row
    jsExcused     \* history: events this connection cannot be blamed for

streamVars == <<jsTerminal, jsLastId, jsEvents, jsWriter, jsConn, jsTold, jsExcused>>

-----------------------------------------------------------------------------
EventIds == 1 .. MaxEvents

\* final: the row it saved is terminal; more: a second event follows the first; id: the
\* event's, once the sequence has given it.
Writer == [pc : {"idle", "insert", "commit", "over"}, final : BOOLEAN, more : BOOLEAN,
           id : 0 .. MaxEvents]

\* terminal: the copy of the row; last: last_event_id; due: what was committed when the
\* row was read (history); shown: the events sent.
Connection == [pc : {"closed", "row", "events", "show", "rest", "ended"}, terminal : BOOLEAN,
               last : 0 .. MaxEvents, due : SUBSET EventIds, pending : SUBSET EventIds,
               shown : SUBSET EventIds]

NoWriter == [pc |-> "idle", final |-> FALSE, more |-> FALSE, id |-> 0]
NoConnection == [pc |-> "closed", terminal |-> FALSE, last |-> 0, due |-> {}, pending |-> {},
                 shown |-> {}]

SetWriter(w, new) == jsWriter' = [jsWriter EXCEPT ![w] = new]

\* What a writer does when its event is committed.
AfterEvent(t) == IF t.more THEN [t EXCEPT !.pc = "insert", !.more = FALSE]
                 ELSE [NoWriter EXCEPT !.pc = IF t.final THEN "over" ELSE "idle"]

\* A plausible slip: the newest events are read instead of the oldest.
SlipLastBatch(ids) == {e \in ids : Cardinality({f \in ids : f > e}) < StreamBatch}

\* The first events in the order of their ids, at most a batch of them.
FirstBatch(ids) == {e \in ids : Cardinality({f \in ids : f < e}) < StreamBatch}

-----------------------------------------------------------------------------
\* A plausible slip: the stream ends when the row is final, before it shows it.
SlipEndEarly ==
    /\ jsConn.pc = "show" /\ jsConn.pending = {}
    /\ jsConn' = [jsConn EXCEPT !.pc = IF jsConn.terminal THEN "ended" ELSE "rest"]
    /\ UNCHANGED <<jsTerminal, jsLastId, jsEvents, jsWriter, jsTold, jsExcused>>

-----------------------------------------------------------------------------
StreamInit ==
    /\ jsTerminal = FALSE
    /\ jsLastId = 0
    /\ jsEvents = {}
    /\ jsWriter = [w \in Writers |-> NoWriter]
    /\ jsConn = NoConnection
    /\ jsTold = FALSE
    /\ jsExcused = {}

\* _save_job, by the worker or the cancelling request; only the worker makes it final, and
\* a failure of the provider gets an event of its own after the failed one (_mark_failed).
SaveJobRow(w) ==
    /\ jsWriter[w].pc = "idle"
    /\ \E final, more \in BOOLEAN :
           /\ final => w = JobWorker
           /\ more => final
           /\ jsTerminal' = (jsTerminal \/ final)
           /\ SetWriter(w, [pc |-> "insert", final |-> final, more |-> more, id |-> 0])
    /\ UNCHANGED <<jsLastId, jsEvents, jsConn, jsTold, jsExcused>>

\* _record_event: the insertion takes an id ...
InsertEvent(w) ==
    /\ jsWriter[w].pc = "insert" /\ jsLastId < MaxEvents
    /\ jsLastId' = jsLastId + 1
    /\ SetWriter(w, [jsWriter[w] EXCEPT !.pc = "commit", !.id = jsLastId + 1])
    /\ UNCHANGED <<jsTerminal, jsEvents, jsConn, jsTold, jsExcused>>

\* ... and commits; a reader that is past this id will not look for it any more.
CommitEvent(w) ==
    LET id == jsWriter[w].id
    IN  /\ jsWriter[w].pc = "commit"
        /\ jsEvents' = jsEvents \union {id}
        /\ SetWriter(w, AfterEvent(jsWriter[w]))
        /\ jsExcused' = IF \E e \in jsConn.pending \union {jsConn.last} : id < e
                        THEN jsExcused \union {id} ELSE jsExcused
        /\ UNCHANGED <<jsTerminal, jsLastId, jsConn, jsTold>>

-----------------------------------------------------------------------------
(* JobStreamView.                                                           *)

\* Every connection starts from the first event.
Connect ==
    /\ jsConn.pc = "closed"
    /\ jsConn' = [NoConnection EXCEPT !.pc = "row"]
    /\ jsExcused' = {}
    /\ UNCHANGED <<jsTerminal, jsLastId, jsEvents, jsWriter, jsTold>>

\* current_job = ...get(pk=job.id); before the first event the row is sent at once.
ReadJobRow ==
    /\ jsConn.pc = "row"
    /\ jsConn' = [jsConn EXCEPT !.pc = "events", !.terminal = jsTerminal, !.due = jsEvents]
    /\ jsTold' = (jsTold \/ (jsTerminal /\ jsConn.last = 0))
    /\ UNCHANGED <<jsTerminal, jsLastId, jsEvents, jsWriter, jsExcused>>

\* The events with id > last_event_id; what a full batch leaves behind has to wait.
ReadEvents ==
    LET new == {e \in jsEvents : e > jsConn.last}
    IN  /\ jsConn.pc = "events"
        /\ jsConn' = [jsConn EXCEPT !.pc = "show", !.pending = FirstBatch(new)]
        /\ jsExcused' = IF jsConn.terminal THEN jsExcused \union (new \ FirstBatch(new)) ELSE jsExcused
        /\ UNCHANGED <<jsTerminal, jsLastId, jsEvents, jsWriter, jsTold>>

\* Each pending event is sent, in the order of the ids.
ShowEvent ==
    /\ jsConn.pc = "show" /\ jsConn.pending # {}
    /\ LET e == Min(jsConn.pending)
       IN  jsConn' = [jsConn EXCEPT !.last = e, !.pending = @ \ {e}, !.shown = @ \union {e}]
    /\ UNCHANGED <<jsTerminal, jsLastId, jsEvents, jsWriter, jsTold, jsExcused>>

\* The row is sent after the events; a final one ends the stream.
ShowJob ==
    /\ jsConn.pc = "show" /\ jsConn.pending = {}
    /\ jsConn' = [jsConn EXCEPT !.pc = IF jsConn.terminal THEN "ended" ELSE "rest"]
    /\ jsTold' = (jsTold \/ jsConn.terminal)
    /\ UNCHANGED <<jsTerminal, jsLastId, jsEvents, jsWriter, jsExcused>>

\* Another round, until 25 seconds have passed.
Poll ==
    /\ jsConn.pc = "rest"
    /\ \/ jsConn' = [jsConn EXCEPT !.pc = "row"]
       \/ jsConn' = NoConnection
    /\ UNCHANGED <<jsTerminal, jsLastId, jsEvents, jsWriter, jsTold, jsExcused>>

\* The connection breaks; the client connects again.
Disconnect ==
    /\ jsConn.pc \in {"row", "events", "show"}
    /\ jsConn' = NoConnection
    /\ UNCHANGED <<jsTerminal, jsLastId, jsEvents, jsWriter, jsTold, jsExcused>>

StreamServe == ReadJobRow \/ ReadEvents \/ ShowEvent \/ ShowJob \/ Poll

StreamNext ==
    \/ \E w \in Writers : SaveJobRow(w) \/ InsertEvent(w) \/ CommitEvent(w)
    \/ Connect \/ StreamServe \/ Disconnect

\* The server goes on with a connection it has, the client connects again, and a
\* connection that is opened again and again does not break every time before the
\* first query.
StreamFairness == WF_streamVars(Connect) /\ WF_streamVars(StreamServe) /\ SF_streamVars(ReadJobRow)

StreamSpec == StreamInit /\ [][StreamNext]_streamVars /\ StreamFairness

-----------------------------------------------------------------------------
(* Properties.                                                              *)

\* A stream that ended by itself has sent every event committed when it read the final
\* row (JobStreamView: the row is read before the events, in the order of the ids),
\* except one that became visible after a higher id, and the rest of a full last batch.
StreamComplete ==
    jsConn.pc = "ended" => jsConn.terminal /\ jsConn.due \subseteq jsConn.shown \union jsExcused

\* The client of a finished job is told so, though connections time out (the row is sent
\* in every round, and a new connection starts with it).
ToldOfTheEnd == jsTerminal ~> jsTold

=============================================================================
