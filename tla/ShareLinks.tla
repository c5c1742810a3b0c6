----------------------------- MODULE ShareLinks -----------------------------
(***************************************************************************)
(* A share link of a workspace's resource (apps.collaboration): analysts    *)
(* create, change and revoke it, anybody who has its token may open it      *)
(* until it is revoked or expires.  A change saves every column of the row  *)
(* it loaded, a revocation only its own; each is followed by an entry in    *)
(* the activity log.                                                        *)
(***************************************************************************)
EXTENDS Naturals

CONSTANTS
    LinkRequests,   \* requests in flight
    LinkEditors,    \* those of members with the role analyst or higher
    LinkDays        \* bound: where the clock stops

ASSUME LinkAssumption == LinkEditors \subseteq LinkRequests /\ LinkDays \in Nat \ {0}

VARIABLES
    slNow,       \* the clock
    slLink,      \* the ResourceShareLink row
    slThere,     \* the resource exists
    slReq,       \* the requests
    slLog,       \* verbs of the link's ActivityEvent rows
    slEnded,     \* history: a revocation was saved
    slOverlap    \* history: the last one was, while a change had loaded the row and not saved it

linkVars == <<slNow, slLink, slThere, slReq, slLog, slEnded, slOverlap>>

-----------------------------------------------------------------------------
Scopes == {"token", "workspace_member"}

\* expires: the day of expires_at, 0 for null; revoked: revoked_at is set.
ShareLink == [exists : BOOLEAN, scope : Scopes, expires : 0 .. LinkDays + 1, revoked : BOOLEAN]
NoLink == [exists |-> FALSE, scope |-> "token", expires |-> 0, revoked |-> FALSE]

Verbs == {"share_link_created", "share_link_updated", "share_link_revoked"}

\* verb: what it has yet to record; late: it began under a revocation that nothing overlapped.
LinkRequest == [pc : {"idle", "save", "revoke", "log", "serve", "bundle", "served"},
                copy : ShareLink, verb : Verbs \union {""}, late : BOOLEAN]
NoLinkRequest == [pc |-> "idle", copy |-> NoLink, verb |-> "", late |-> FALSE]

SetRequest(q, new) == slReq' = [slReq EXCEPT ![q] = new]
Recording(q, verb) == SetRequest(q, [slReq[q] EXCEPT !.pc = "log", !.verb = verb, !.copy = NoLink])

\* ResourceShareLink.is_active
IsActive(link) == ~link.revoked /\ (link.expires = 0 \/ link.expires > slNow)

\* What validate_expires_at lets through.
Expirations == {0} \union (slNow + 1 .. LinkDays + 1)

\* Another request is about to save a copy in which the link is not revoked.
StaleChange(q) == \E p \in LinkRequests \ {q} : slReq[p].pc = "save" /\ ~slReq[p].copy.revoked

Ends(q, revoked) ==
    /\ slEnded' = (slEnded \/ revoked)
    /\ slOverlap' = IF revoked THEN StaleChange(q) ELSE slOverlap

-----------------------------------------------------------------------------
(* A plausible slip: is_revoked = false makes the link active again.        *)
SlipSaveLink(q) ==
    /\ slReq[q].pc = "save"
    /\ \E scope \in Scopes, revoke \in BOOLEAN :
           slLink' = [slReq[q].copy EXCEPT !.scope = scope, !.revoked = revoke]
    /\ Ends(q, slLink'.revoked)
    /\ Recording(q, "share_link_updated")
    /\ UNCHANGED <<slNow, slThere, slLog>>

-----------------------------------------------------------------------------
LinkInit ==
    /\ slNow = 1
    /\ slLink = NoLink
    /\ slThere = TRUE
    /\ slReq = [q \in LinkRequests |-> NoLinkRequest]
    /\ slLog = {}
    /\ slEnded = FALSE
    /\ slOverlap = FALSE

NextDay ==
    /\ slNow < LinkDays /\ slNow' = slNow + 1
    /\ UNCHANGED <<slLink, slThere, slReq, slLog, slEnded, slOverlap>>

\* The resource is deleted; nothing ties the link to it but its kind and id.
DeleteResource ==
    /\ slThere /\ slThere' = FALSE
    /\ UNCHANGED <<slNow, slLink, slReq, slLog, slEnded, slOverlap>>

\* ShareLinkListCreateView.post
CreateLink(q) ==
    /\ slReq[q].pc = "idle" /\ q \in LinkEditors
    /\ slThere /\ ~slLink.exists
    /\ \E scope \in Scopes, expires \in Expirations :
           slLink' = [exists |-> TRUE, scope |-> scope, expires |-> expires, revoked |-> FALSE]
    /\ Recording(q, "share_link_created")
    /\ UNCHANGED <<slNow, slThere, slLog, slEnded, slOverlap>>

\* ShareLinkDetailView.patch loads the row ...
LoadLink(q) ==
    /\ slReq[q].pc = "idle" /\ q \in LinkEditors /\ slLink.exists
    /\ SetRequest(q, [NoLinkRequest EXCEPT !.pc = "save", !.copy = slLink])
    /\ UNCHANGED <<slNow, slLink, slThere, slLog, slEnded, slOverlap>>

\* ... sets what was submitted, revoked_at only if it is null, and saves every column.
SaveLink(q) ==
    /\ slReq[q].pc = "save"
    /\ \E scope \in Scopes, expires \in Expirations \union {slReq[q].copy.expires},
          revoke \in BOOLEAN :
           slLink' = [slReq[q].copy EXCEPT !.scope = scope, !.expires = expires,
                                           !.revoked = @ \/ revoke]
    /\ Ends(q, slLink'.revoked)
    /\ Recording(q, "share_link_updated")
    /\ UNCHANGED <<slNow, slThere, slLog>>

\* ShareLinkDetailView.delete: nothing to do for a link that is revoked already ...
LoadForRevocation(q) ==
    /\ slReq[q].pc = "idle" /\ q \in LinkEditors /\ slLink.exists
    /\ ~slLink.revoked
    /\ SetRequest(q, [NoLinkRequest EXCEPT !.pc = "revoke"])
    /\ UNCHANGED <<slNow, slLink, slThere, slLog, slEnded, slOverlap>>

\* ... else revoked_at, in its own column.
RevokeLink(q) ==
    /\ slReq[q].pc = "revoke"
    /\ slLink' = [slLink EXCEPT !.revoked = TRUE]
    /\ Ends(q, TRUE)
    /\ Recording(q, "share_link_revoked")
    /\ UNCHANGED <<slNow, slThere, slLog>>

\* record_activity
RecordLinkActivity(q) ==
    /\ slReq[q].pc = "log"
    /\ slLog' = slLog \union {slReq[q].verb}
    /\ SetRequest(q, NoLinkRequest)
    /\ UNCHANGED <<slNow, slLink, slThere, slEnded, slOverlap>>

\* SharedResourceView.get: an active link of scope token; the view has no authentication
\* classes, so nobody is a member and the other scope is refused.
OpenLink(q) ==
    /\ slReq[q].pc = "idle" /\ slLink.exists
    /\ IsActive(slLink) /\ slLink.scope = "token"
    /\ slThere
    /\ SetRequest(q, [NoLinkRequest EXCEPT !.pc = "serve", !.late = slEnded /\ ~slOverlap])
    /\ UNCHANGED <<slNow, slLink, slThere, slLog, slEnded, slOverlap>>

\* last_accessed_at is saved, the resource resolved again and served if it is still there.
ServeLink(q) ==
    /\ slReq[q].pc \in {"serve", "bundle"}
    /\ SetRequest(q, IF slReq[q].pc = "serve" THEN [slReq[q] EXCEPT !.pc = "bundle"]
                     ELSE IF slThere THEN [slReq[q] EXCEPT !.pc = "served"] ELSE NoLinkRequest)
    /\ UNCHANGED <<slNow, slLink, slThere, slLog, slEnded, slOverlap>>

\* The web process dies, or the answer is out.
EndLinkRequest(q) ==
    /\ slReq[q].pc # "idle"
    /\ SetRequest(q, NoLinkRequest)
    /\ UNCHANGED <<slNow, slLink, slThere, slLog, slEnded, slOverlap>>

LinkRequestStep(q) ==
    \/ CreateLink(q) \/ LoadLink(q) \/ SaveLink(q) \/ LoadForRevocation(q) \/ RevokeLink(q)
    \/ RecordLinkActivity(q) \/ OpenLink(q) \/ ServeLink(q) \/ EndLinkRequest(q)

LinkNext == NextDay \/ DeleteResource \/ \E q \in LinkRequests : LinkRequestStep(q)

LinkSpec == LinkInit /\ [][LinkNext]_linkVars

-----------------------------------------------------------------------------
(* Properties.                                                              *)

\* The variables keep their types.
LinkTypeOK ==
    /\ slNow \in 1 .. LinkDays
    /\ slLink \in ShareLink
    /\ slThere \in BOOLEAN /\ slEnded \in BOOLEAN /\ slOverlap \in BOOLEAN
    /\ slReq \in [LinkRequests -> LinkRequest]
    /\ slLog \subseteq Verbs

\* A revocation is final: the link stays revoked and nobody who comes later is served,
\* unless a change that had loaded the row before saves it after (ShareLinkDetailView's
\* patch writes every column, revoked_at with them); and then the next revocation that no
\* such change overlaps is final again.
RevocationHolds ==
    slEnded /\ ~slOverlap => slLink.revoked /\ \A q \in LinkRequests : ~slReq[q].late

=============================================================================
