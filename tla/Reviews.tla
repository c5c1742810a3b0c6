------------------------------ MODULE Reviews ------------------------------
(***************************************************************************)
(* The review of a strategy template or a schedule (review_status,          *)
(* reviewed_by).  Analysts edit the resource and move it between draft and  *)
(* in review, administrators approve it or request changes.  An update      *)
(* saves every column of the row its request loaded.                        *)
(***************************************************************************)
EXTENDS Naturals

CONSTANTS
    ReviewUsers,    \* members of the workspace, each with one request in flight
    ReviewAdmins,   \* those with the role admin or owner
    ReviewViewers,  \* those with the role viewer
    Nobody          \* reviewed_by is null

ASSUME ReviewAssumption == /\ ReviewAdmins \union ReviewViewers \subseteq ReviewUsers
                           /\ Nobody \notin ReviewUsers

VARIABLES
    rvRow,       \* the row
    rvCopy,      \* the row each request loaded, NoRow for none
    rvDecision,  \* history: the status last decided on by a request
    rvStale      \* history: after the last decision an edit saved a review older than the row's

reviewVars == <<rvRow, rvCopy, rvDecision, rvStale>>

-----------------------------------------------------------------------------
ReviewStatus == {"draft", "in_review", "approved", "changes_requested"}
Decisions == {"approved", "changes_requested"}

ReviewRow == [exists : BOOLEAN, kind : {"template", "schedule"}, status : ReviewStatus,
              by : ReviewUsers \union {Nobody}, edits : 0 .. 1]
NoRow == [exists |-> FALSE, kind |-> "template", status |-> "draft", by |-> Nobody, edits |-> 0]

Editors == ReviewUsers \ ReviewViewers

\* What a decision leaves in the row of its template or schedule.
Review(row) == <<row.exists, row.kind, row.status, row.by>>

-----------------------------------------------------------------------------
(* A plausible slip: any editor may approve.                                *)
SlipMayDecide(u, status) == u \in Editors

-----------------------------------------------------------------------------
\* The role a review status asks for (require_workspace_role).
MayDecide(u, status) == u \in IF status \in Decisions THEN ReviewAdmins ELSE Editors

ReviewInit ==
    /\ rvRow = NoRow
    /\ rvCopy = [u \in ReviewUsers |-> NoRow]
    /\ rvDecision = "draft"
    /\ rvStale = FALSE

\* POST: created in the submitted status; a second save names the reviewer of anything
\* but a draft, or of review notes.
Create(u, kind) ==
    /\ ~rvRow.exists /\ \A v \in ReviewUsers : rvCopy[v] = NoRow
    /\ u \in Editors
    /\ \E status \in ReviewStatus, notes \in BOOLEAN :
           /\ MayDecide(u, status)
           /\ rvRow' = [exists |-> TRUE, kind |-> kind, status |-> status, edits |-> 0,
                        by |-> IF status # "draft" \/ notes THEN u ELSE Nobody]
           /\ rvDecision' = status
    /\ rvStale' = FALSE
    /\ UNCHANGED rvCopy

CreateTemplate(u) == Create(u, "template")
CreateRunSchedule(u) == Create(u, "schedule")

\* PATCH loads the row.
LoadReviewed(u) ==
    /\ rvRow.exists /\ rvCopy[u] = NoRow /\ u \in Editors
    /\ rvCopy' = [rvCopy EXCEPT ![u] = rvRow]
    /\ UNCHANGED <<rvRow, rvDecision, rvStale>>

\* A review: the role decides, and the reviewer is named with the status.
SaveReview(u) ==
    /\ rvCopy[u].exists
    /\ \E status \in ReviewStatus :
           /\ MayDecide(u, status)
           /\ rvRow' = [rvCopy[u] EXCEPT !.status = status, !.by = u]
           /\ rvDecision' = status
    /\ rvStale' = FALSE
    /\ rvCopy' = [rvCopy EXCEPT ![u] = NoRow]

\* An edit of anything else.
Edit(u, kind, reviewers) ==
    /\ rvCopy[u].exists /\ rvCopy[u].kind = kind
    /\ \E by \in reviewers : rvRow' = [rvCopy[u] EXCEPT !.edits = 1 - @, !.by = by]
    /\ rvStale' = (rvStale \/ Review(rvCopy[u]) # Review(rvRow))
    /\ rvCopy' = [rvCopy EXCEPT ![u] = NoRow]
    /\ UNCHANGED rvDecision

\* update_template drops the reviewer that review notes alone name ...
EditTemplate(u) == Edit(u, "template", {rvCopy[u].by})

\* ... update_schedule sets every attribute that is not None.
EditSchedule(u) == Edit(u, "schedule", {rvCopy[u].by, u})

\* DELETE; a request that has loaded the row brings it back when it saves.
DeleteReviewed(u) ==
    /\ rvRow.exists /\ u \in Editors
    /\ rvRow' = NoRow
    /\ UNCHANGED <<rvCopy, rvDecision, rvStale>>

ReviewNext ==
    \E u \in ReviewUsers :
        \/ CreateTemplate(u) \/ CreateRunSchedule(u) \/ LoadReviewed(u) \/ SaveReview(u)
        \/ EditTemplate(u) \/ EditSchedule(u) \/ DeleteReviewed(u)

ReviewSpec == ReviewInit /\ [][ReviewNext]_reviewVars

-----------------------------------------------------------------------------
(* Properties.                                                              *)

\* The variables keep their types.
ReviewTypeOK ==
    /\ rvRow \in ReviewRow
    /\ rvCopy \in [ReviewUsers -> ReviewRow]
    /\ rvDecision \in ReviewStatus /\ rvStale \in BOOLEAN

\* The status is the last one a request decided on, and one of the two decisions is an
\* administrator's: nobody else approves, whoever edits the resource in between, alone or
\* beside another edit.  Only an edit that loaded the row before the decision and saves it
\* after takes it back, and the next decision stands again, whatever copy it was made from.
\* (Of a schedule, editing the notes makes an analyst the reviewer of an administrator's
\* decision.)
DecisionStands ==
    rvRow.exists /\ ~rvStale =>
        /\ rvRow.status = rvDecision
        /\ rvRow.status \in Decisions /\ rvRow.kind = "template" => rvRow.by \in ReviewAdmins

=============================================================================
