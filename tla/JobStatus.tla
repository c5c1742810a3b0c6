------------------------------ MODULE JobStatus ------------------------------
(***************************************************************************)
(* What the job subsystem promises about a JobRun, seen from outside: the  *)
(* statuses a reader of the API may observe, in which order, and how often *)
(* the work may be started.  The promise covers a job as long as no        *)
(* message of it is delivered beside its owner; after that it is void.     *)
(* JobLifecycle implements this specification.                             *)
(***************************************************************************)
EXTENDS Naturals

CONSTANTS Jobs, MaxRetries

VARIABLES
    status,   \* status of every job, or "void"
    asked,    \* its cancellation was asked for
    tries,    \* how often its work was started
    allowed   \* how often it may be: once, once per retry, once per lost worker

vars == <<status, asked, tries, allowed>>

Init ==
    /\ status = [j \in Jobs |-> "absent"]
    /\ asked = [j \in Jobs |-> FALSE]
    /\ tries = [j \in Jobs |-> 0]
    /\ allowed = [j \in Jobs |-> MaxRetries + 1]

Create(j) ==
    /\ status[j] = "absent"
    /\ status' = [status EXCEPT ![j] = "queued"]
    /\ UNCHANGED <<asked, tries, allowed>>

\* The message could not be sent: only a job that never ran may end this way.
Refuse(j) ==
    /\ status[j] = "queued" /\ tries[j] = 0
    /\ status' = [status EXCEPT ![j] = "failed"]
    /\ UNCHANGED <<asked, tries, allowed>>

\* A job still shown as running starts again only if a worker was lost.
Start(j) ==
    /\ \/ status[j] = "queued"
       \/ status[j] = "running" /\ allowed[j] > MaxRetries + 1
    /\ tries[j] < allowed[j]
    /\ status' = [status EXCEPT ![j] = "running"]
    /\ tries' = [tries EXCEPT ![j] = @ + 1]
    /\ UNCHANGED <<asked, allowed>>

Requeue(j) ==
    /\ status[j] = "running" /\ tries[j] < allowed[j]
    /\ status' = [status EXCEPT ![j] = "queued"]
    /\ UNCHANGED <<asked, tries, allowed>>

Finish(j) ==
    /\ status[j] = "running"
    /\ \/ status' = [status EXCEPT ![j] = "succeeded"]
       \/ status' = [status EXCEPT ![j] = "failed"]
       \/ asked[j] /\ status' = [status EXCEPT ![j] = "cancelled"]
    /\ UNCHANGED <<asked, tries, allowed>>

\* A worker is lost while the job is unfinished.
LoseWorker(j) ==
    /\ status[j] \in {"queued", "running"}
    /\ allowed' = [allowed EXCEPT ![j] = @ + 1]
    /\ UNCHANGED <<status, asked, tries>>

\* A late request is recorded even on a finished job, which stays as it is.
Ask(j) ==
    /\ status[j] \notin {"absent", "void"}
    /\ asked' = [asked EXCEPT ![j] = TRUE]
    /\ UNCHANGED <<status, tries, allowed>>

Void(j) ==
    /\ status' = [status EXCEPT ![j] = "void"]
    /\ asked' = [asked EXCEPT ![j] = FALSE]
    /\ tries' = [tries EXCEPT ![j] = 0]
    /\ allowed' = [allowed EXCEPT ![j] = 0]

Next == \E j \in Jobs : \/ Create(j) \/ Refuse(j) \/ Start(j) \/ Requeue(j)
                        \/ Finish(j) \/ LoseWorker(j) \/ Ask(j) \/ Void(j)

Spec == Init /\ [][Next]_vars

=============================================================================
