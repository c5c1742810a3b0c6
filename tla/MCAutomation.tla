---------------------------- MODULE MCAutomation ----------------------------
(* Instances of Digest and ScheduleSync for TLC.  The two share no state, so *)
(* a behaviour is one of the one or of the other (part); in the other the    *)
(* digest keeps one initial state.                                           *)
EXTENDS Digest, ScheduleSync, TLC

VARIABLE part

AutomationInit ==
    /\ SyncInit
    /\ DigestInit
    /\ \/ part = "digest"
       \/ part = "sync" /\ dgPref.hour = 0

DigestPart == part = "digest" /\ DigestNext /\ UNCHANGED <<part, scheduleVars>>
SyncPart == part = "sync" /\ SyncNext /\ UNCHANGED <<part, digestVars>>

AutomationSpec ==
    AutomationInit /\ [][DigestPart \/ SyncPart]_<<part, digestVars, scheduleVars>>

\* Executions, runs and requests are told apart by nothing but their names.
AutomationSymmetry ==
    Permutations(DigestTasks) \union Permutations(DigestRuns) \union Permutations(ScheduleRequests)

\* Both modules keep their types.
AutomationTypeOK == DigestTypeOK /\ SyncTypeOK

=============================================================================
