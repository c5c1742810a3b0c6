----------------------------- MODULE Artifacts -----------------------------
(***************************************************************************)
(* The artifact store (ArtifactStorage) and the command that cleans it up.  *)
(* An upload or an attempt of a run makes the day's directory, writes a     *)
(* file under a fresh key and only then commits the row that refers to it;  *)
(* a crash or a rollback leaves the file behind.  cleanup_artifacts reads   *)
(* the references of three tables, lists the files, deletes the old ones    *)
(* nobody refers to, and then the directories that are empty.               *)
(*                                                                         *)
(* One row of each table and one directory.                                 *)
(***************************************************************************)
EXTENDS Integers, Sequences

CONSTANTS
    StoreTasks,   \* uploads and attempts in flight
    MaxKeys,      \* bound: keys ever made
    Retention,    \* ARTIFACT_ORPHAN_RETENTION_HOURS, in ticks
    LastHour      \* bound: the clock stops here

\* The command is not called with --older-than-hours 0.
ASSUME RetentionAssumption == /\ Retention \in Nat \ {0}
                              /\ MaxKeys \in Nat /\ LastHour \in Nat \ {0}

VARIABLES
    atNow,      \* the clock
    atDir,      \* the directory exists
    atBorn,     \* st_mtime of the file of a key; 0: there is none
    atUsed,     \* how many keys were made
    atRef,      \* the key each row refers to; 0: ""
    atTask,     \* what is being stored, and for which row
    atClean     \* the execution of cleanup_artifacts

artifactVars == <<atNow, atDir, atBorn, atUsed, atRef, atTask, atClean>>

-----------------------------------------------------------------------------
Keys == 1 .. MaxKeys
Tables == <<"upload", "screen", "backtest">>
Rows == {Tables[i] : i \in 1 .. Len(Tables)}

StoreTask == [pc : {"idle", "write", "commit"}, row : Rows, key : 0 .. MaxKeys]
NotStoring == [pc |-> "idle", row |-> "upload", key |-> 0]

\* read: how many tables; kept: referenced; doomed: orphaned_files.
CleanUp == [pc : {"idle", "read", "unlink"}, cutoff : Int, read : 0 .. Len(Tables),
            kept : SUBSET Keys, doomed : SUBSET Keys]
NotCleaning == [pc |-> "idle", cutoff |-> 0, read |-> 0, kept |-> {}, doomed |-> {}]

SetStore(t, new) == atTask' = [atTask EXCEPT ![t] = new]

-----------------------------------------------------------------------------
(* A plausible slip: the cutoff is taken when the files are listed.         *)
SlipOrphaned == {k \in Keys : atBorn[k] # 0 /\ k \notin atClean.kept /\ atBorn[k] <= atNow - Retention}

-----------------------------------------------------------------------------
ArtifactInit ==
    /\ atNow = 1
    /\ atDir = FALSE
    /\ atBorn = [k \in Keys |-> 0]
    /\ atUsed = 0
    /\ atRef = [r \in Rows |-> 0]
    /\ atTask = [t \in StoreTasks |-> NotStoring]
    /\ atClean = NotCleaning

\* Assumed: between the file and the commit of its row lies less than the retention time.
Hourly ==
    /\ atNow < LastHour /\ atNow' = atNow + 1
    /\ \A t \in StoreTasks : atTask[t].pc = "commit" => atNow' - atBorn[atTask[t].key] < Retention
    /\ UNCHANGED <<atDir, atBorn, atUsed, atRef, atTask, atClean>>

\* store_artifact: the directory ...
MakeDirectory(t) ==
    /\ atTask[t].pc = "idle"
    /\ \E r \in Rows : /\ r = "upload" => atRef[r] = 0
                       /\ SetStore(t, [pc |-> "write", row |-> r, key |-> 0])
    /\ atDir' = TRUE
    /\ UNCHANGED <<atNow, atBorn, atUsed, atRef, atClean>>

\* ... and the file, unless the directory has been removed again: that raises.
WriteFile(t) ==
    /\ atTask[t].pc = "write"
    /\ IF atDir
       THEN /\ atUsed < MaxKeys /\ atUsed' = atUsed + 1
            /\ atBorn' = [atBorn EXCEPT ![atUsed'] = atNow]
            /\ SetStore(t, [atTask[t] EXCEPT !.pc = "commit", !.key = atUsed'])
       ELSE SetStore(t, NotStoring) /\ UNCHANGED <<atUsed, atBorn>>
    /\ UNCHANGED <<atNow, atDir, atRef, atClean>>

\* The transaction that refers to the file; what the row referred to before is orphaned.
CommitReference(t) ==
    /\ atTask[t].pc = "commit"
    /\ atTask[t].row = "upload" => atRef["upload"] = 0
    /\ atRef' = [atRef EXCEPT ![atTask[t].row] = atTask[t].key]
    /\ SetStore(t, NotStoring)
    /\ UNCHANGED <<atNow, atDir, atBorn, atUsed, atClean>>

\* A crash, a cancellation or a rollback.
AbandonStore(t) ==
    /\ atTask[t].pc # "idle"
    /\ SetStore(t, NotStoring)
    /\ UNCHANGED <<atNow, atDir, atBorn, atUsed, atRef, atClean>>

-----------------------------------------------------------------------------
(* cleanup_artifacts.                                                       *)

StartCleanup ==
    /\ atClean.pc = "idle"
    /\ atClean' = [NotCleaning EXCEPT !.pc = "read", !.cutoff = atNow - Retention]
    /\ UNCHANGED <<atNow, atDir, atBorn, atUsed, atRef, atTask>>

\* One query for each table.
ReadReferences ==
    /\ atClean.pc = "read" /\ atClean.read < Len(Tables)
    /\ LET table == Tables[atClean.read + 1]
       IN  atClean' = [atClean EXCEPT !.read = @ + 1, !.kept = @ \union ({atRef[table]} \ {0})]
    /\ UNCHANGED <<atNow, atDir, atBorn, atUsed, atRef, atTask>>

\* Unreferenced, and not younger than the cutoff.
Orphaned == {k \in Keys : atBorn[k] # 0 /\ k \notin atClean.kept /\ atBorn[k] <= atClean.cutoff}

\* --dry-run ends here.
ListFiles ==
    /\ atClean.pc = "read" /\ atClean.read = Len(Tables)
    /\ \/ atClean' = [atClean EXCEPT !.pc = "unlink", !.doomed = Orphaned]
       \/ atClean' = NotCleaning
    /\ UNCHANGED <<atNow, atDir, atBorn, atUsed, atRef, atTask>>

Unlink(k) ==
    /\ atClean.pc = "unlink" /\ k \in atClean.doomed
    /\ atBorn' = [atBorn EXCEPT ![k] = 0]
    /\ atClean' = [atClean EXCEPT !.doomed = @ \ {k}]
    /\ UNCHANGED <<atNow, atDir, atUsed, atRef, atTask>>

\* rmdir fails on a directory that holds a file.
RemoveDirectory ==
    /\ atClean.pc = "unlink" /\ atClean.doomed = {}
    /\ atDir' = (atDir /\ \E k \in Keys : atBorn[k] # 0)
    /\ atClean' = NotCleaning
    /\ UNCHANGED <<atNow, atBorn, atUsed, atRef, atTask>>

AbortCleanup ==
    /\ atClean.pc # "idle"
    /\ atClean' = NotCleaning
    /\ UNCHANGED <<atNow, atDir, atBorn, atUsed, atRef, atTask>>

ArtifactNext ==
    \/ Hourly
    \/ \E t \in StoreTasks : MakeDirectory(t) \/ WriteFile(t) \/ CommitReference(t) \/ AbandonStore(t)
    \/ StartCleanup \/ ReadReferences \/ ListFiles \/ RemoveDirectory \/ AbortCleanup
    \/ \E k \in Keys : Unlink(k)

ArtifactSpec == ArtifactInit /\ [][ArtifactNext]_artifactVars

-----------------------------------------------------------------------------
(* Properties.                                                              *)

\* The variables keep their types; a file's time is never in the future.
ArtifactTypeOK ==
    /\ atNow \in 1 .. LastHour
    /\ atDir \in BOOLEAN
    /\ atBorn \in [Keys -> 0 .. atNow]
    /\ atUsed \in 0 .. MaxKeys
    /\ atRef \in [Rows -> 0 .. MaxKeys]
    /\ atTask \in [StoreTasks -> StoreTask]
    /\ atClean \in CleanUp

\* Every committed reference has its file, however attempts, crashes and cleanups
\* interleave: the references are read table by table and long before the files are
\* listed, and only the cutoff taken before both keeps a file whose row was committed
\* meanwhile (cleanup_artifacts).
NoDangling == \A r \in Rows : atRef[r] # 0 => atBorn[atRef[r]] # 0

=============================================================================
