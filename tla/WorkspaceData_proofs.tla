------------------------ MODULE WorkspaceData_proofs -------------------------
(*****************************************************************************)
(* What a workspace's data promises whatever requests and tasks overlap, crash*)
(* and save old copies: a revocation and a review's decision stand, no row   *)
(* disappears without a trace and what is appended comes last, a profile has *)
(* one managed universe, and no reference to a stored file dangles.          *)
(*****************************************************************************)
EXTENDS MCWorkspaceData, FiniteSetTheorems, WellFoundedInduction, TLAPS

-----------------------------------------------------------------------------
(* Share links (ShareLinks).  Once a revocation is saved, what a change has  *)
(* in hand is revoked too, unless the change had loaded the row before; the  *)
(* next revocation that meets no such change makes it true again.            *)

LinkTyped ==
    /\ slNow \in 1 .. LinkDays
    /\ slLink \in ShareLink
    /\ slReq \in [LinkRequests -> LinkRequest]
    /\ slEnded \in BOOLEAN /\ slOverlap \in BOOLEAN

\* A request saves or revokes a link that there is, and nobody is late.
RequestOK(q) ==
    /\ slReq[q].pc = "save" => slReq[q].copy.exists
    /\ slReq[q].pc = "revoke" => slLink.exists
    /\ ~slReq[q].late
    /\ slEnded /\ ~slOverlap /\ slReq[q].pc = "save" => slReq[q].copy.revoked

LinkOK == slEnded => slLink.exists /\ (~slOverlap => slLink.revoked)

LinkInv == LinkTyped /\ LinkOK /\ \A q \in LinkRequests : RequestOK(q)

LEMMA LinkFacts ==
    /\ NoLink \in ShareLink /\ NoLink.exists = FALSE /\ NoLink.revoked = FALSE
    /\ NoLinkRequest \in LinkRequest /\ NoLinkRequest.pc = "idle" /\ NoLinkRequest.late = FALSE
<1>1. 0 \in 0 .. LinkDays + 1
  BY LinkAssumption
<1>2. NoLink \in ShareLink /\ NoLink.exists = FALSE /\ NoLink.revoked = FALSE
  BY <1>1 DEF NoLink, ShareLink, Scopes
<1>3. QED
  BY <1>2 DEF NoLinkRequest, LinkRequest

LEMMA LinkStart == LinkInit => LinkInv
<1> SUFFICES ASSUME LinkInit
             PROVE  LinkInv
  OBVIOUS
<1>1. /\ slReq \in [LinkRequests -> LinkRequest]
      /\ \A q \in LinkRequests : slReq[q].pc = "idle" /\ slReq[q].late = FALSE
  BY LinkFacts DEF LinkInit
<1>2. LinkTyped
  <2>1. slNow \in 1 .. LinkDays
    BY LinkAssumption DEF LinkInit
  <2>2. slLink \in ShareLink
    BY LinkFacts DEF LinkInit
  <2>3. slEnded \in BOOLEAN /\ slOverlap \in BOOLEAN
    BY DEF LinkInit
  <2>4. QED
    BY <1>1, <2>1, <2>2, <2>3 DEF LinkTyped
<1>3. LinkOK
  BY DEF LinkInit, LinkOK
<1>4. \A q \in LinkRequests : RequestOK(q)
  BY <1>1 DEF RequestOK
<1>5. QED
  BY <1>2, <1>3, <1>4 DEF LinkInv

\* A step that changes one request, and of the link nothing that counts.
LEMMA LinkFrame ==
    ASSUME LinkInv, NEW q \in LinkRequests, NEW n \in LinkRequest, SetRequest(q, n),
           slNow' \in 1 .. LinkDays, UNCHANGED <<slLink, slEnded, slOverlap>>,
           n.pc = "save" => /\ n.copy.exists
                            /\ \/ slReq[q].pc = "save" /\ n.copy = slReq[q].copy
                               \/ n.copy = slLink,
           n.pc = "revoke" => slLink.exists,
           n.late => slReq[q].late \/ (slEnded /\ ~slOverlap /\ ~slLink.revoked)
    PROVE  LinkInv'
<1>1. /\ slReq' \in [LinkRequests -> LinkRequest] /\ slReq'[q] = n
      /\ \A p \in LinkRequests : p # q => slReq'[p] = slReq[p]
  BY DEF SetRequest, LinkInv, LinkTyped
<1>2. LinkTyped' /\ LinkOK'
  BY <1>1 DEF LinkInv, LinkTyped, LinkOK
<1>3. \A p \in LinkRequests : p # q => RequestOK(p)'
  BY <1>1 DEF LinkInv, RequestOK
<1>4. RequestOK(q)'
  BY <1>1 DEF LinkInv, LinkOK, RequestOK
<1>5. QED
  BY <1>2, <1>3, <1>4 DEF LinkInv

\* A save of the link, by a change or a revocation.
LEMMA LinkSaved ==
    ASSUME LinkInv, NEW q \in LinkRequests, NEW n \in LinkRequest, SetRequest(q, n),
           n.pc = "log", n.late = slReq[q].late,
           slNow' = slNow, slLink' \in ShareLink, slLink'.exists, NEW revoked \in BOOLEAN,
           slLink'.revoked = revoked, Ends(q, revoked),
           slEnded /\ ~slOverlap => revoked
    PROVE  LinkInv'
<1>1. /\ slReq' \in [LinkRequests -> LinkRequest] /\ slReq'[q] = n
      /\ \A p \in LinkRequests : p # q => slReq'[p] = slReq[p]
  BY DEF SetRequest, LinkInv, LinkTyped
<1>2. /\ slEnded' = (slEnded \/ revoked) /\ slOverlap' = (IF revoked THEN StaleChange(q) ELSE slOverlap)
      /\ slEnded \in BOOLEAN /\ slOverlap \in BOOLEAN /\ slEnded' \in BOOLEAN /\ slOverlap' \in BOOLEAN
  BY DEF Ends, LinkInv, LinkTyped, StaleChange
<1>3. LinkTyped' /\ LinkOK'
  <2>1. LinkTyped'
    BY <1>1, <1>2 DEF LinkInv, LinkTyped
  <2>2. LinkOK'
    BY <1>2 DEF LinkOK
  <2>3. QED
    BY <2>1, <2>2
<1>4. ASSUME NEW p \in LinkRequests
      PROVE  RequestOK(p)'
  <2>1. RequestOK(p) /\ slReq[p].late \in BOOLEAN
    BY DEF LinkInv, LinkTyped, LinkRequest
  <2>2. slReq'[p].late = slReq[p].late
    BY <1>1
  <2>3. slReq'[p].pc = "save" => p # q /\ slReq'[p] = slReq[p]
    BY <1>1
  <2>4. slEnded' /\ ~slOverlap' /\ slReq'[p].pc = "save" => slReq'[p].copy.revoked
    <3>1. CASE revoked
      BY <1>2, <2>3, <3>1 DEF StaleChange
    <3>2. CASE ~revoked
      BY <1>2, <3>2
    <3>3. QED
      BY <3>1, <3>2
  <2>5. QED
    BY <2>1, <2>2, <2>3, <2>4 DEF RequestOK
<1>5. QED
  BY <1>3, <1>4 DEF LinkInv

LEMMA LinkStep ==
    ASSUME LinkInv, NEW q \in LinkRequests, LinkRequestStep(q)
    PROVE  LinkInv'
<1> DEFINE a == slReq[q]
<1>0. /\ slNow \in 1 .. LinkDays /\ slLink \in ShareLink /\ a \in LinkRequest /\ a.copy \in ShareLink
      /\ slEnded \in BOOLEAN /\ slOverlap \in BOOLEAN /\ RequestOK(q) /\ LinkOK
  BY DEF LinkInv, LinkTyped, LinkRequest
<1>1. ASSUME NEW verb \in Verbs, Recording(q, verb)
      PROVE  \E n \in LinkRequest : SetRequest(q, n) /\ n.pc = "log" /\ n.late = a.late
  <2> DEFINE n == [a EXCEPT !.pc = "log", !.verb = verb, !.copy = NoLink]
  <2>1. n \in LinkRequest /\ n.pc = "log" /\ n.late = a.late
    BY <1>0, LinkFacts DEF LinkRequest
  <2>2. SetRequest(q, n)
    BY <1>1 DEF Recording
  <2>3. QED
    BY <2>1, <2>2
<1>2. CASE CreateLink(q)
  <2>1. PICK n \in LinkRequest : SetRequest(q, n) /\ n.pc = "log" /\ n.late = a.late
    BY <1>1, <1>2 DEF CreateLink, Verbs
  <2>2. PICK scope \in Scopes, expires \in Expirations :
             slLink' = [exists |-> TRUE, scope |-> scope, expires |-> expires, revoked |-> FALSE]
    BY <1>2 DEF CreateLink
  <2>3. expires \in 0 .. LinkDays + 1
    BY <1>0, LinkAssumption DEF Expirations
  <2>4. slLink' \in ShareLink /\ slLink'.exists
    BY <2>2, <2>3 DEF ShareLink
  <2>5. ~slLink.exists /\ UNCHANGED <<slNow, slEnded, slOverlap>>
    BY <1>2 DEF CreateLink
  <2>6. ~slEnded
    BY <1>0, <2>5 DEF LinkOK
  <2>7. /\ slReq' \in [LinkRequests -> LinkRequest] /\ slReq'[q] = n
        /\ \A p \in LinkRequests : p # q => slReq'[p] = slReq[p]
    BY <2>1 DEF SetRequest, LinkInv, LinkTyped
  <2>8. LinkTyped' /\ LinkOK'
    BY <1>0, <2>4, <2>5, <2>6, <2>7 DEF LinkTyped, LinkOK
  <2>9. \A p \in LinkRequests : RequestOK(p)'
    BY <2>1, <2>4, <2>5, <2>6, <2>7 DEF LinkInv, RequestOK
  <2>10. QED
    BY <2>8, <2>9 DEF LinkInv
<1>3. CASE LoadLink(q)
  <2> DEFINE n == [NoLinkRequest EXCEPT !.pc = "save", !.copy = slLink]
  <2>1. n \in LinkRequest /\ n.pc = "save" /\ n.copy = slLink /\ n.late = FALSE
    BY <1>0, LinkFacts DEF LinkRequest, NoLinkRequest
  <2>2. /\ SetRequest(q, n) /\ slLink.exists /\ UNCHANGED <<slNow, slLink, slEnded, slOverlap>>
    BY <1>3 DEF LoadLink
  <2> HIDE DEF n
  <2>3. QED
    BY <1>0, <2>1, <2>2, LinkFrame
<1>4. CASE SaveLink(q)
  <2>1. PICK n \in LinkRequest : SetRequest(q, n) /\ n.pc = "log" /\ n.late = a.late
    BY <1>1, <1>4 DEF SaveLink, Verbs
  <2>2. PICK scope \in Scopes, expires \in Expirations \union {a.copy.expires}, revoke \in BOOLEAN :
             slLink' = [a.copy EXCEPT !.scope = scope, !.expires = expires, !.revoked = @ \/ revoke]
    BY <1>4 DEF SaveLink
  <2>3. expires \in 0 .. LinkDays + 1
    BY <1>0, LinkAssumption DEF Expirations, ShareLink
  <2>4. PICK r \in BOOLEAN : r = (a.copy.revoked \/ revoke)
    OBVIOUS
  <2>5. slLink' = [a.copy EXCEPT !.scope = scope, !.expires = expires, !.revoked = r]
    BY <2>2, <2>4
  <2>6. slLink' \in ShareLink /\ slLink'.exists = a.copy.exists /\ slLink'.revoked = r
    BY <1>0, <2>3, <2>5 DEF ShareLink
  <2>7. a.pc = "save" /\ Ends(q, slLink'.revoked) /\ slNow' = slNow
    BY <1>4 DEF SaveLink
  <2>8. a.copy.exists /\ (slEnded /\ ~slOverlap => r)
    BY <1>0, <2>4, <2>7 DEF RequestOK
  <2>9. QED
    BY <2>1, <2>6, <2>7, <2>8, LinkSaved
<1>5. CASE LoadForRevocation(q)
  <2> DEFINE n == [NoLinkRequest EXCEPT !.pc = "revoke"]
  <2>1. n \in LinkRequest /\ n.pc = "revoke" /\ n.late = FALSE
    BY LinkFacts DEF LinkRequest, NoLinkRequest
  <2>2. /\ SetRequest(q, n) /\ slLink.exists /\ UNCHANGED <<slNow, slLink, slEnded, slOverlap>>
    BY <1>5 DEF LoadForRevocation
  <2> HIDE DEF n
  <2>3. QED
    BY <1>0, <2>1, <2>2, LinkFrame
<1>6. CASE RevokeLink(q)
  <2>1. PICK n \in LinkRequest : SetRequest(q, n) /\ n.pc = "log" /\ n.late = a.late
    BY <1>1, <1>6 DEF RevokeLink, Verbs
  <2>2. /\ slLink' = [slLink EXCEPT !.revoked = TRUE] /\ Ends(q, TRUE) /\ slNow' = slNow /\ slLink.exists
    BY <1>0, <1>6 DEF RevokeLink, RequestOK
  <2>3. slLink' \in ShareLink /\ slLink'.exists = slLink.exists /\ slLink'.revoked = TRUE
    BY <1>0, <2>2 DEF ShareLink
  <2>4. QED
    BY <2>1, <2>2, <2>3, LinkSaved
<1>7. CASE RecordLinkActivity(q) \/ EndLinkRequest(q)
  <2>1. SetRequest(q, NoLinkRequest) /\ UNCHANGED <<slNow, slLink, slEnded, slOverlap>>
    BY <1>7 DEF RecordLinkActivity, EndLinkRequest
  <2>2. QED
    BY <1>0, <2>1, LinkFacts, LinkFrame
<1>8. CASE OpenLink(q)
  <2> DEFINE n == [NoLinkRequest EXCEPT !.pc = "serve", !.late = slEnded /\ ~slOverlap]
  <2>1. n \in LinkRequest /\ n.pc = "serve" /\ n.late = (slEnded /\ ~slOverlap)
    BY <1>0, LinkFacts DEF LinkRequest, NoLinkRequest
  <2>2. /\ SetRequest(q, n) /\ ~slLink.revoked /\ UNCHANGED <<slNow, slLink, slEnded, slOverlap>>
    BY <1>8 DEF OpenLink, IsActive
  <2> HIDE DEF n
  <2>3. QED
    BY <1>0, <2>1, <2>2, LinkFrame
<1>9. CASE ServeLink(q)
  <2>1. PICK pc \in {"bundle", "served", "idle"} :
             \/ SetRequest(q, [a EXCEPT !.pc = pc])
             \/ SetRequest(q, NoLinkRequest)
    BY <1>9 DEF ServeLink
  <2>2. UNCHANGED <<slNow, slLink, slEnded, slOverlap>>
    BY <1>9 DEF ServeLink
  <2>3. PICK n \in LinkRequest : n = [a EXCEPT !.pc = pc] /\ n.pc = pc /\ n.late = a.late
    <3>1. [a EXCEPT !.pc = pc] \in LinkRequest
      BY <1>0 DEF LinkRequest
    <3>2. [a EXCEPT !.pc = pc].pc = pc /\ [a EXCEPT !.pc = pc].late = a.late
      BY <1>0 DEF LinkRequest
    <3>3. QED
      BY <3>1, <3>2, Zenon
  <2>4. CASE SetRequest(q, [a EXCEPT !.pc = pc])
    <3>1. SetRequest(q, n) /\ n.pc # "save" /\ n.pc # "revoke" /\ (n.late => a.late)
      BY <2>3, <2>4
    <3>2. QED
      BY <1>0, <2>2, <3>1, LinkFrame
  <2>5. CASE SetRequest(q, NoLinkRequest)
    BY <1>0, <2>2, <2>5, LinkFacts, LinkFrame
  <2>6. QED
    BY <2>1, <2>4, <2>5
<1>10. QED
  BY <1>2, <1>3, <1>4, <1>5, <1>6, <1>7, <1>8, <1>9 DEF LinkRequestStep

LEMMA LinkHolds == LinkSpec => []LinkInv
<1>1. LinkInv /\ [LinkNext]_linkVars => LinkInv'
  <2> SUFFICES ASSUME LinkInv, [LinkNext]_linkVars
               PROVE  LinkInv'
    OBVIOUS
  <2>1. CASE UNCHANGED linkVars
    BY <2>1 DEF linkVars, LinkInv, LinkTyped, LinkOK, RequestOK
  <2>2. CASE NextDay \/ DeleteResource
    <3>1. slNow' \in 1 .. LinkDays /\ UNCHANGED <<slLink, slReq, slEnded, slOverlap>>
      BY <2>2, LinkAssumption DEF NextDay, DeleteResource, LinkInv, LinkTyped
    <3>2. QED
      BY <3>1 DEF LinkInv, LinkTyped, LinkOK, RequestOK
  <2>3. QED
    BY <2>1, <2>2, LinkStep DEF LinkNext
<1>2. QED
  BY <1>1, LinkStart, PTL DEF LinkSpec

\* A revocation is final: whatever else is in flight, the link stays revoked and nobody who
\* comes later is served, unless a change had loaded the row before and saves it after, and
\* then from the next revocation on that no such change overlaps.
THEOREM RevocationFinal == LinkSpec => []RevocationHolds
<1>1. LinkInv => RevocationHolds
  BY DEF LinkInv, LinkOK, RequestOK, RevocationHolds
<1>2. QED
  BY <1>1, LinkHolds, PTL

\* The log holds the verbs of the requests that had one to record.
LogTyped ==
    /\ slThere \in BOOLEAN /\ slLog \subseteq Verbs
    /\ \A q \in LinkRequests : slReq[q].pc = "log" => slReq[q].verb \in Verbs

LEMMA LogRequest ==
    ASSUME LinkInv, LogTyped, NEW q \in LinkRequests, LinkRequestStep(q)
    PROVE  LogTyped'
<1>1. /\ slReq \in [LinkRequests -> LinkRequest] /\ slThere' = slThere
  BY DEF LinkInv, LinkTyped, LinkRequestStep, CreateLink, LoadLink, SaveLink, LoadForRevocation,
     RevokeLink, RecordLinkActivity, OpenLink, ServeLink, EndLinkRequest
<1>2. ASSUME NEW n, SetRequest(q, n), n.pc = "log" => n.verb \in Verbs, slLog' \subseteq Verbs
      PROVE  LogTyped'
  BY <1>1, <1>2 DEF SetRequest, LogTyped
<1>3. ASSUME NEW verb \in Verbs, Recording(q, verb), slLog' = slLog
      PROVE  LogTyped'
  <2>1. PICK n : n = [slReq[q] EXCEPT !.pc = "log", !.verb = verb, !.copy = NoLink]
    OBVIOUS
  <2>2. n.verb = verb
    BY <1>1, <2>1 DEF LinkRequest
  <2>3. QED
    BY <1>2, <1>3, <2>1, <2>2 DEF Recording, LogTyped
<1>4. CASE CreateLink(q) \/ SaveLink(q) \/ RevokeLink(q)
  BY <1>3, <1>4 DEF CreateLink, SaveLink, RevokeLink, Verbs
<1>5. CASE RecordLinkActivity(q)
  <2>1. slReq[q].verb \in Verbs /\ NoLinkRequest.pc = "idle"
    BY <1>5 DEF RecordLinkActivity, LogTyped, NoLinkRequest
  <2>2. QED
    BY <1>2, <1>5, <2>1 DEF RecordLinkActivity, LogTyped
<1>6. CASE LoadLink(q) \/ LoadForRevocation(q) \/ OpenLink(q) \/ EndLinkRequest(q)
  <2>1. PICK n : SetRequest(q, n) /\ n.pc # "log"
    <3>1. CASE LoadLink(q)
      <4>1. PICK n : n = [NoLinkRequest EXCEPT !.pc = "save", !.copy = slLink]
        OBVIOUS
      <4>2. n.pc # "log"
        BY <4>1 DEF NoLinkRequest
      <4>3. SetRequest(q, n)
        BY <3>1, <4>1 DEF LoadLink
      <4>4. QED
        BY <4>2, <4>3
    <3>2. CASE LoadForRevocation(q)
      <4>1. PICK n : n = [NoLinkRequest EXCEPT !.pc = "revoke"]
        OBVIOUS
      <4>2. n.pc # "log"
        BY <4>1 DEF NoLinkRequest
      <4>3. SetRequest(q, n)
        BY <3>2, <4>1 DEF LoadForRevocation
      <4>4. QED
        BY <4>2, <4>3
    <3>3. CASE OpenLink(q)
      <4>1. PICK n : n = [NoLinkRequest EXCEPT !.pc = "serve", !.late = slEnded /\ ~slOverlap]
        OBVIOUS
      <4>2. n.pc # "log"
        BY <4>1 DEF NoLinkRequest
      <4>3. SetRequest(q, n)
        BY <3>3, <4>1 DEF OpenLink
      <4>4. QED
        BY <4>2, <4>3
    <3>4. CASE EndLinkRequest(q)
      <4>1. PICK n : n = NoLinkRequest
        OBVIOUS
      <4>2. n.pc # "log"
        BY <4>1 DEF NoLinkRequest
      <4>3. SetRequest(q, n)
        BY <3>4, <4>1 DEF EndLinkRequest
      <4>4. QED
        BY <4>2, <4>3
    <3>5. QED
      BY <1>6, <3>1, <3>2, <3>3, <3>4
  <2>2. slLog' = slLog
    BY <1>6 DEF LoadLink, LoadForRevocation, OpenLink, EndLinkRequest
  <2>3. QED
    BY <1>2, <2>1, <2>2 DEF LogTyped
<1>7. CASE ServeLink(q)
  <2>1. PICK n : SetRequest(q, n) /\ n.pc # "log"
    <3>1. \A pc \in {"bundle", "served"} : [slReq[q] EXCEPT !.pc = pc].pc = pc
      BY <1>1 DEF LinkRequest
    <3>2. NoLinkRequest.pc = "idle"
      BY DEF NoLinkRequest
    <3>3. QED
      BY <1>7, <3>1, <3>2 DEF ServeLink
  <2>2. QED
    BY <1>2, <1>7, <2>1 DEF ServeLink, LogTyped
<1>8. QED
  BY <1>4, <1>5, <1>6, <1>7 DEF LinkRequestStep

\* The link, the requests and the log keep their types.
THEOREM LinkTypes == LinkSpec => []LinkTypeOK
<1>1. LinkInit => LogTyped
  <2> SUFFICES ASSUME LinkInit
               PROVE  LogTyped
    OBVIOUS
  <2>1. \A q \in LinkRequests : slReq[q].pc = "idle"
    BY DEF LinkInit, NoLinkRequest
  <2>2. slThere \in BOOLEAN /\ slLog = {}
    BY DEF LinkInit
  <2>3. QED
    BY <2>1, <2>2 DEF LogTyped
<1>2. LinkInv /\ LogTyped /\ [LinkNext]_linkVars => LogTyped'
  <2> SUFFICES ASSUME LinkInv, LogTyped, [LinkNext]_linkVars
               PROVE  LogTyped'
    OBVIOUS
  <2>1. CASE UNCHANGED linkVars \/ NextDay \/ DeleteResource
    BY <2>1 DEF linkVars, NextDay, DeleteResource, LogTyped
  <2>2. QED
    BY <2>1, LogRequest DEF LinkNext
<1>3. LinkInv /\ LogTyped => LinkTypeOK
  BY DEF LinkInv, LinkTyped, LogTyped, LinkTypeOK
<1>4. QED
  BY <1>1, <1>2, <1>3, LinkHolds, PTL DEF LinkSpec

-----------------------------------------------------------------------------
(* Reviews (Reviews).  What stands is inductive with the types: an edit      *)
(* either keeps the review that is in the row or counts as stale.            *)

ReviewInv == rvRow \in ReviewRow /\ rvCopy \in [ReviewUsers -> ReviewRow] /\ DecisionStands

LEMMA NoRowFacts == NoRow \in ReviewRow /\ NoRow.exists = FALSE
BY DEF NoRow, ReviewRow, ReviewStatus

\* A step of one request keeps it.
LEMMA ReviewStep ==
    ASSUME ReviewInv, NEW u \in ReviewUsers,
           \/ CreateTemplate(u) \/ CreateRunSchedule(u) \/ LoadReviewed(u) \/ SaveReview(u)
           \/ EditTemplate(u) \/ EditSchedule(u) \/ DeleteReviewed(u)
    PROVE  ReviewInv'
<1>1. /\ rvRow \in ReviewRow /\ rvCopy \in [ReviewUsers -> ReviewRow] /\ rvCopy[u] \in ReviewRow
      /\ [rvCopy EXCEPT ![u] = NoRow] \in [ReviewUsers -> ReviewRow] /\ DecisionStands
  BY NoRowFacts DEF ReviewInv
<1>2. ASSUME NEW kind \in {"template", "schedule"}, Create(u, kind)
      PROVE  ReviewInv'
  <2>1. PICK status \in ReviewStatus, notes \in BOOLEAN :
             /\ MayDecide(u, status)
             /\ rvRow' = [exists |-> TRUE, kind |-> kind, status |-> status, edits |-> 0,
                          by |-> IF status # "draft" \/ notes THEN u ELSE Nobody]
             /\ rvDecision' = status
    BY <1>2 DEF Create
  <2>2. PICK by \in ReviewUsers \union {Nobody} :
             /\ by = (IF status # "draft" \/ notes THEN u ELSE Nobody)
             /\ status # "draft" => by = u
    OBVIOUS
  <2>3. rvRow' = [exists |-> TRUE, kind |-> kind, status |-> status, edits |-> 0, by |-> by]
    BY <2>1, <2>2
  <2>4. rvRow' \in ReviewRow /\ rvRow'.status = rvDecision' /\ rvRow'.by = by
    BY <2>1, <2>3 DEF ReviewRow
  <2>5. status \in Decisions => by \in ReviewAdmins
    BY <2>1, <2>2 DEF MayDecide, Decisions
  <2>6. rvCopy' = rvCopy /\ rvRow'.status = status
    BY <1>2, <2>3 DEF Create
  <2>7. QED
    BY <1>1, <2>4, <2>5, <2>6 DEF ReviewInv, DecisionStands
<1>3. CASE LoadReviewed(u)
  BY <1>1, <1>3 DEF LoadReviewed, ReviewInv, DecisionStands
<1>4. CASE SaveReview(u)
  <2>1. PICK status \in ReviewStatus :
             /\ MayDecide(u, status) /\ rvDecision' = status
             /\ rvRow' = [rvCopy[u] EXCEPT !.status = status, !.by = u]
    BY <1>4 DEF SaveReview
  <2>2. rvRow' \in ReviewRow /\ rvRow'.status = status /\ rvRow'.by = u
    BY <1>1, <2>1 DEF ReviewRow
  <2>3. rvCopy' \in [ReviewUsers -> ReviewRow]
    BY <1>1, <1>4 DEF SaveReview
  <2>4. status \in Decisions => u \in ReviewAdmins
    BY <2>1 DEF MayDecide
  <2>5. QED
    BY <2>1, <2>2, <2>3, <2>4 DEF ReviewInv, DecisionStands
<1>5. ASSUME NEW kind \in {"template", "schedule"}, NEW reviewers, Edit(u, kind, reviewers),
             reviewers \subseteq ReviewUsers \union {Nobody},
             kind = "template" => reviewers = {rvCopy[u].by}
      PROVE  ReviewInv'
  <2>1. PICK by \in reviewers : rvRow' = [rvCopy[u] EXCEPT !.edits = 1 - @, !.by = by]
    BY <1>5 DEF Edit
  <2>2. PICK edits \in 0 .. 1 : edits = 1 - rvCopy[u].edits
    BY <1>1 DEF ReviewRow
  <2>3. rvRow' = [rvCopy[u] EXCEPT !.edits = edits, !.by = by]
    BY <2>1, <2>2
  <2>4. /\ rvRow' \in ReviewRow /\ rvRow'.by = by
        /\ rvRow'.exists = rvCopy[u].exists /\ rvRow'.kind = rvCopy[u].kind
        /\ rvRow'.status = rvCopy[u].status
    BY <1>1, <1>5, <2>3 DEF ReviewRow
  <2>5. /\ rvCopy' \in [ReviewUsers -> ReviewRow] /\ rvDecision' = rvDecision
        /\ rvCopy[u].kind = kind /\ rvStale' = (rvStale \/ Review(rvCopy[u]) # Review(rvRow))
    BY <1>1, <1>5 DEF Edit
  <2>6. ~rvStale' => /\ ~rvStale /\ rvCopy[u].exists = rvRow.exists /\ rvCopy[u].kind = rvRow.kind
                     /\ rvCopy[u].status = rvRow.status /\ rvCopy[u].by = rvRow.by
    BY <2>5 DEF Review
  <2>7. DecisionStands'
    BY <1>1, <1>5, <2>4, <2>5, <2>6 DEF DecisionStands
  <2>8. QED
    BY <2>4, <2>5, <2>7 DEF ReviewInv
<1>6. CASE DeleteReviewed(u)
  BY <1>1, <1>6, NoRowFacts DEF DeleteReviewed, ReviewInv, DecisionStands
<1>7. rvCopy[u].by \in ReviewUsers \union {Nobody}
  BY <1>1 DEF ReviewRow
<1>8. CASE EditTemplate(u)
  BY <1>5, <1>7, <1>8 DEF EditTemplate
<1>9. CASE EditSchedule(u)
  <2>1. Edit(u, "schedule", {rvCopy[u].by, u}) /\ {rvCopy[u].by, u} \subseteq ReviewUsers \union {Nobody}
    BY <1>7, <1>9 DEF EditSchedule
  <2>2. QED
    BY <1>5, <2>1
<1>10. QED
  BY <1>2, <1>3, <1>4, <1>6, <1>8, <1>9 DEF CreateTemplate, CreateRunSchedule

LEMMA ReviewHolds == ReviewSpec => []ReviewInv
<1>1. ReviewInit => ReviewInv
  BY NoRowFacts DEF ReviewInit, ReviewInv, DecisionStands
<1>2. ReviewInv /\ [ReviewNext]_reviewVars => ReviewInv'
  <2> SUFFICES ASSUME ReviewInv, [ReviewNext]_reviewVars
               PROVE  ReviewInv'
    OBVIOUS
  <2>1. CASE UNCHANGED reviewVars
    BY <2>1 DEF reviewVars, ReviewInv, DecisionStands
  <2>2. CASE ReviewNext
    BY <2>2, ReviewStep DEF ReviewNext
  <2>3. QED
    BY <2>1, <2>2
<1>3. QED
  BY <1>1, <1>2, PTL DEF ReviewSpec

\* A decision stands: only requests with the role take one, only an edit that had loaded the
\* row before takes it back, and the next decision stands again.
THEOREM DecisionKept == ReviewSpec => []DecisionStands
<1>1. ReviewInv => DecisionStands
  BY DEF ReviewInv
<1>2. QED
  BY <1>1, ReviewHolds, PTL

DecisionTyped == rvDecision \in ReviewStatus /\ rvStale \in BOOLEAN

\* The row, the copies and the decision keep their types.
THEOREM ReviewTypes == ReviewSpec => []ReviewTypeOK
<1>1. ReviewInit => DecisionTyped
  BY DEF ReviewInit, ReviewStatus, DecisionTyped
<1>2. DecisionTyped /\ [ReviewNext]_reviewVars => DecisionTyped'
  BY DEF reviewVars, ReviewNext, CreateTemplate, CreateRunSchedule, Create, LoadReviewed,
     SaveReview, EditTemplate, EditSchedule, Edit, DeleteReviewed, DecisionTyped
<1>3. ReviewInv /\ DecisionTyped => ReviewTypeOK
  BY DEF ReviewInv, ReviewTypeOK, DecisionTyped
<1>4. QED
  BY <1>1, <1>2, <1>3, ReviewHolds, PTL DEF ReviewSpec

-----------------------------------------------------------------------------
(* Curation (Curation).  A request that is about to delete has recorded it,  *)
(* and one that will save an item holds a copy of that item.                *)

RequestMeant(r) ==
    /\ r.pc = "remove" => r.object \in cuLog
    /\ r.pc = "write" /\ r.deed = "change" /\ r.object \in ItemIds =>
           r.item.id = r.object /\ r.object < cuNextId

Numbered == \A i \in cuItems : i.id < cuNextId

CurationInv ==
    CurationTypeOK /\ Numbered /\ DeletionsAreLogged /\ \A q \in Curators : RequestMeant(cuReq[q])

LEMMA CurationFacts ==
    /\ NoItem \in Items /\ ItemIds \subseteq Objects /\ Objects \subseteq Nat /\ ItemIds \subseteq Nat
    /\ Comment \in Objects /\ Collection \in Objects /\ Comment \notin ItemIds /\ Collection \notin ItemIds
    /\ Resting \in CurationRequest /\ Resting.pc = "idle"
<1>1. /\ ItemIds \subseteq Objects /\ Objects \subseteq Nat /\ ItemIds \subseteq Nat
      /\ Comment \in Objects /\ Collection \in Objects /\ Comment \notin ItemIds /\ Collection \notin ItemIds
  BY CurationAssumption DEF ItemIds, Comment, Collection, Singles, Objects
<1>2. NoItem \in Items
  BY CurationAssumption DEF NoItem, Items, ItemIds
<1>3. Resting \in CurationRequest /\ Resting.pc = "idle"
  BY <1>1, <1>2 DEF Resting, CurationRequest, Deeds
<1>4. QED
  BY <1>1, <1>2, <1>3

\* An id stands for one item, so there are as many items as ids, and not more than the bound.
LEMMA ItemsCounted ==
    ASSUME NEW S \in SUBSET Items, \A i, j \in S : i.id = j.id => i = j
    PROVE  /\ IsFiniteSet(S) /\ Cardinality(S) \in 0 .. MaxItems
           /\ IsFiniteSet({i.id : i \in S}) /\ Cardinality({i.id : i \in S}) = Cardinality(S)
<1> DEFINE f == [i \in S |-> i.id]
           T == {i.id : i \in S}
<1>1. \A i \in S : i.id \in ItemIds
  BY DEF Items
<1>2. f \in Injection(S, ItemIds)
  BY <1>1 DEF Injection, IsInjective
<1>3. f \in Surjection(S, T) /\ f \in Injection(S, T)
  BY <1>1 DEF Surjection, Injection, IsInjective
<1>4. IsFiniteSet(ItemIds) /\ Cardinality(ItemIds) = MaxItems
  BY CurationAssumption, FS_Interval DEF ItemIds
<1> HIDE DEF f, T
<1>5. IsFiniteSet(S) /\ Cardinality(S) <= MaxItems
  BY <1>2, <1>4, FS_Injection
<1>6. IsFiniteSet(T) /\ Cardinality(T) = Cardinality(S)
  BY <1>3, <1>5, FS_Surjection
<1>7. Cardinality(S) \in Nat
  BY <1>5, FS_CardinalityType
<1>8. QED
  BY <1>5, <1>6, <1>7, CurationAssumption DEF T

\* A step of one request after which everything is there that was.
LEMMA CurationFrame ==
    ASSUME CurationInv, NEW q \in Curators, NEW r \in CurationRequest, cuReq' = [cuReq EXCEPT ![q] = r],
           cuRows' \subseteq Singles, cuItems' \subseteq Items,
           \A i, j \in cuItems' : i.id = j.id => i = j, Numbered',
           cuLog' \subseteq Objects, cuMoved' \in BOOLEAN,
           cuNextId' \in 1 .. MaxItems + 1, cuNextId <= cuNextId', cuLog \subseteq cuLog', RequestMeant(r)',
           Present \subseteq Present', cuEver' \subseteq cuEver \union (Present' \intersect Objects)
    PROVE  CurationInv'
<1>1. cuReq' \in [Curators -> CurationRequest] /\ \A p \in Curators : cuReq'[p] = r \/ cuReq'[p] = cuReq[p]
  BY DEF CurationInv, CurationTypeOK
<1>2. CurationTypeOK'
  BY <1>1 DEF CurationInv, CurationTypeOK
<1>3. DeletionsAreLogged'
  BY DEF CurationInv, DeletionsAreLogged
<1>4. ASSUME NEW o \in ItemIds, o < cuNextId
      PROVE  o < cuNextId'
  BY <1>4, CurationAssumption DEF CurationInv, CurationTypeOK, ItemIds
<1>5. \A p \in Curators : RequestMeant(cuReq[p])'
  <2> SUFFICES ASSUME NEW p \in Curators, cuReq'[p] = cuReq[p]
               PROVE  RequestMeant(cuReq[p])'
    BY <1>1
  <2>1. RequestMeant(cuReq[p])
    BY DEF CurationInv
  <2>2. QED
    BY <1>4, <2>1 DEF RequestMeant
<1>6. QED
  BY <1>2, <1>3, <1>5 DEF CurationInv

\* ... and nothing has changed but the request and the log.
LEMMA CurationQuiet ==
    ASSUME CurationInv, NEW q \in Curators, NEW r \in CurationRequest, cuReq' = [cuReq EXCEPT ![q] = r],
           UNCHANGED <<cuRows, cuItems, cuEver>>, cuMoved' \in BOOLEAN,
           cuNextId' \in 1 .. MaxItems + 1, cuNextId <= cuNextId',
           cuLog' \subseteq Objects, cuLog \subseteq cuLog', RequestMeant(r)'
    PROVE  CurationInv'
<1>1. /\ cuRows' \subseteq Singles /\ cuItems' \subseteq Items
      /\ \A i, j \in cuItems' : i.id = j.id => i = j
      /\ Present' = Present
  BY DEF CurationInv, CurationTypeOK, Present
<1>2. Numbered'
  <2>1. \A i \in cuItems : i.id \in Nat
    BY CurationFacts DEF CurationInv, CurationTypeOK, Items
  <2>2. cuNextId \in Nat /\ cuNextId' \in Nat
    BY CurationAssumption DEF CurationInv, CurationTypeOK
  <2>3. QED
    BY <2>1, <2>2 DEF CurationInv, Numbered
<1>3. QED
  BY <1>1, <1>2, CurationFrame

\* What an EXCEPT makes of a request or of an item.
LEMMA RequestAt ==
    ASSUME NEW r \in CurationRequest, NEW to \in {"log", "remove"}
    PROVE  \E n \in CurationRequest : n = [r EXCEPT !.pc = to] /\ n.pc = to /\ n.object = r.object
<1>1. [r EXCEPT !.pc = to] \in CurationRequest
  BY DEF CurationRequest
<1>2. [r EXCEPT !.pc = to].pc = to /\ [r EXCEPT !.pc = to].object = r.object
  BY DEF CurationRequest
<1>3. QED
  BY <1>1, <1>2, Zenon

LEMMA ItemWithId ==
    ASSUME NEW i \in Items, NEW id \in ItemIds
    PROVE  \E n \in Items : n = [i EXCEPT !.id = id] /\ n.id = id
<1>1. [i EXCEPT !.id = id] \in Items
  BY DEF Items
<1>2. [i EXCEPT !.id = id].id = id
  BY DEF Items
<1>3. QED
  BY <1>1, <1>2, Zenon

LEMMA ItemAt ==
    ASSUME NEW i \in Items, NEW p \in 1 .. MaxItems + 1
    PROVE  \E n \in Items : n = [i EXCEPT !.position = p] /\ n.id = i.id
<1>1. [i EXCEPT !.position = p] \in Items
  BY DEF Items
<1>2. [i EXCEPT !.position = p].id = i.id
  BY DEF Items
<1>3. QED
  BY <1>1, <1>2, Zenon

LEMMA CurationStep ==
    ASSUME CurationInv, NEW q \in Curators,
           \/ CreateComment(q) \/ CreateCollection(q) \/ PlaceItem(q) \/ InsertItem(q)
           \/ LoadCollection(q) \/ SaveCollection(q) \/ LoadItem(q) \/ SaveItem(q)
           \/ DeleteComment(q) \/ DeleteCollection(q) \/ DeleteItem(q)
           \/ RecordActivity(q) \/ RemoveObject(q) \/ CrashCurator(q)
    PROVE  CurationInv'
<1> DEFINE a == cuReq[q]
<1>0. /\ cuItems \subseteq Items /\ \A i, j \in cuItems : i.id = j.id => i = j
      /\ \A i \in cuItems : i.id \in ItemIds
      /\ cuReq \in [Curators -> CurationRequest] /\ a \in CurationRequest /\ a.object \in Objects /\ a.item \in Items
      /\ cuRows \subseteq Singles /\ cuLog \subseteq Objects /\ cuEver \subseteq Objects /\ cuMoved \in BOOLEAN
      /\ RequestMeant(a) /\ DeletionsAreLogged /\ Numbered
  BY DEF CurationInv, CurationTypeOK, CurationRequest, Items
<1>a. cuNextId \in 1 .. MaxItems + 1 /\ cuNextId \in Nat /\ cuNextId <= cuNextId
  BY CurationAssumption DEF CurationInv, CurationTypeOK
<1>1. ASSUME NEW pc \in {"log", "write"}, NEW deed \in Deeds, NEW o \in Objects, NEW i \in Items,
             Begin(q, pc, deed, o, i)
      PROVE  \E r \in CurationRequest : /\ cuReq' = [cuReq EXCEPT ![q] = r]
                                    /\ r.pc = pc /\ r.deed = deed /\ r.object = o /\ r.item = i
  <2> DEFINE r == [pc |-> pc, deed |-> deed, object |-> o, item |-> i]
  <2>1. r \in CurationRequest /\ r.pc = pc /\ r.deed = deed /\ r.object = o /\ r.item = i
    BY DEF CurationRequest
  <2>2. cuReq' = [cuReq EXCEPT ![q] = r]
    BY <1>1 DEF Begin
  <2>3. QED
    BY <2>1, <2>2
<1>2. CASE CreateComment(q) \/ CreateCollection(q)
  <2>1. PICK o \in {Comment, Collection} : CreateSingle(q, o)
    BY <1>2 DEF CreateComment, CreateCollection
  <2>2. PICK r \in CurationRequest : cuReq' = [cuReq EXCEPT ![q] = r] /\ r.pc = "log"
    BY <1>1, <2>1, CurationFacts DEF CreateSingle, Deeds
  <2>3. /\ cuRows' = cuRows \union {o} /\ cuEver' = cuEver \union {o}
        /\ UNCHANGED <<cuItems, cuLog, cuNextId>>
    BY <2>1 DEF CreateSingle
  <2>4. Present \subseteq Present' /\ o \in Present' /\ o \in Objects
    BY <2>3, CurationFacts DEF Present
  <2>5. RequestMeant(r)'
    BY <2>2 DEF RequestMeant
  <2>6. cuRows' \subseteq Singles /\ Numbered' /\ cuMoved' = cuMoved
    BY <1>0, <2>1, <2>3 DEF CreateSingle, Singles, Numbered
  <2>7. QED
    BY <1>0, <1>a, <2>2, <2>3, <2>4, <2>5, <2>6, CurationFrame
<1>3. CASE PlaceItem(q)
  <2>1. PICK c \in Contents, hand \in BOOLEAN, p \in 1 .. MaxItems :
             Begin(q, "write", "create", 1,
                   [id |-> 1, content |-> c, position |-> IF hand THEN p ELSE NextPosition,
                    before |-> {i.id : i \in cuItems}])
    BY <1>3 DEF PlaceItem
  <2>2. PICK place \in 1 .. MaxItems + 1 : place = IF hand THEN p ELSE NextPosition
    <3>1. p \in 1 .. MaxItems + 1
      BY CurationAssumption
    <3>2. NextPosition \in 1 .. MaxItems + 1
      <4>1. Cardinality(cuItems) \in 0 .. MaxItems
        BY <1>0, ItemsCounted
      <4>2. QED
        BY <4>1, CurationAssumption DEF NextPosition
    <3>3. QED
      BY <3>1, <3>2
  <2>3. PICK before \in SUBSET ItemIds : before = {i.id : i \in cuItems}
    BY <1>0
  <2>4. [id |-> 1, content |-> c, position |-> place, before |-> before] \in Items /\ 1 \in Objects
    BY CurationAssumption, CurationFacts DEF Items, ItemIds
  <2>5. Begin(q, "write", "create", 1, [id |-> 1, content |-> c, position |-> place, before |-> before])
    BY <2>1, <2>2, <2>3
  <2>6. PICK r \in CurationRequest : cuReq' = [cuReq EXCEPT ![q] = r] /\ r.pc = "write" /\ r.deed = "create"
    BY <1>1, <2>4, <2>5 DEF Deeds
  <2>7. RequestMeant(r)'
    BY <2>6 DEF RequestMeant
  <2>8. UNCHANGED <<cuRows, cuItems, cuLog, cuEver, cuNextId>> /\ cuMoved' \in BOOLEAN
    BY <1>0, <1>3 DEF PlaceItem
  <2>9. QED
    BY <1>0, <1>a, <2>6, <2>7, <2>8, CurationQuiet
<1>4. CASE InsertItem(q)
  <2>1. PICK new \in Items : new = [a.item EXCEPT !.id = cuNextId] /\ new.id = cuNextId
    BY <1>0, <1>4, ItemWithId DEF InsertItem
  <2>2. cuNextId \in ItemIds /\ cuNextId' = cuNextId + 1 /\ UNCHANGED <<cuRows, cuLog, cuMoved>>
    BY <1>4 DEF InsertItem
  <2>a. cuNextId' \in 1 .. MaxItems + 1 /\ cuNextId <= cuNextId'
    BY <1>a, <2>2, CurationAssumption DEF ItemIds
  <2>3. CASE CanInsert(new)
    <3>1. /\ cuItems' = cuItems \union {new} /\ cuEver' = cuEver \union {cuNextId}
          /\ Begin(q, "log", "create", cuNextId, NoItem)
      BY <1>4, <2>1, <2>3 DEF InsertItem
    <3>2. PICK r \in CurationRequest : cuReq' = [cuReq EXCEPT ![q] = r] /\ r.pc = "log"
      BY <1>1, <2>2, <3>1, CurationFacts DEF Deeds
    <3>3. Numbered' /\ \A i \in cuItems : i.id # new.id
      <4>1. \A i \in cuItems : i.id \in Nat /\ i.id < cuNextId
        BY <1>0, CurationFacts DEF Numbered
      <4>2. new.id < cuNextId' /\ \A i \in cuItems : i.id < cuNextId' /\ i.id # new.id
        BY <1>a, <2>1, <2>2, <4>1
      <4>3. QED
        BY <3>1, <4>2 DEF Numbered
    <3>4. cuItems' \subseteq Items /\ \A i, j \in cuItems' : i.id = j.id => i = j
      BY <1>0, <3>1, <3>3
    <3>5. Present \subseteq Present' /\ cuNextId \in Present'
      BY <2>1, <2>2, <3>1 DEF Present
    <3>6. RequestMeant(r)'
      BY <3>2 DEF RequestMeant
    <3>7. QED
      <4>1. /\ cuRows' \subseteq Singles /\ cuLog' \subseteq Objects /\ cuMoved' \in BOOLEAN
            /\ cuLog \subseteq cuLog' /\ cuEver' \subseteq cuEver \union (Present' \intersect Objects)
        BY <1>0, <2>2, <3>1, <3>5, CurationFacts
      <4>2. QED
        BY <2>a, <3>2, <3>3, <3>4, <3>5, <3>6, <4>1, CurationFrame
  <2>4. CASE ~CanInsert(new)
    <3>1. UNCHANGED <<cuItems, cuEver>> /\ cuReq' = [cuReq EXCEPT ![q] = Resting]
      BY <1>4, <2>1, <2>4 DEF InsertItem
    <3>2. RequestMeant(Resting)'
      BY CurationFacts DEF RequestMeant
    <3>3. QED
      BY <1>0, <2>2, <2>a, <3>1, <3>2, CurationFacts, CurationQuiet
  <2>5. QED
    BY <2>3, <2>4
<1>5. CASE LoadCollection(q)
  <2>1. PICK r \in CurationRequest : cuReq' = [cuReq EXCEPT ![q] = r] /\ r.pc = "write" /\ r.object = Collection
    BY <1>1, <1>5, CurationFacts DEF LoadCollection, Deeds
  <2>2. RequestMeant(r)'
    BY <2>1, CurationFacts DEF RequestMeant
  <2>3. UNCHANGED <<cuRows, cuItems, cuLog, cuEver, cuNextId, cuMoved>>
    BY <1>5 DEF LoadCollection
  <2>4. QED
    BY <1>0, <1>a, <2>1, <2>2, <2>3, CurationQuiet
<1>6. PICK recorded \in CurationRequest : recorded = [a EXCEPT !.pc = "log"] /\ recorded.pc = "log"
  BY <1>0, RequestAt
<1>7. [cuReq EXCEPT ![q].pc = "log"] = [cuReq EXCEPT ![q] = recorded]
  BY <1>0, <1>6
<1>8. CASE SaveCollection(q)
  <2>1. /\ cuReq' = [cuReq EXCEPT ![q] = recorded] /\ cuRows' = cuRows \union {Collection}
        /\ UNCHANGED <<cuItems, cuLog, cuEver, cuNextId, cuMoved>>
    BY <1>7, <1>8 DEF SaveCollection
  <2>2. Present \subseteq Present' /\ cuRows' \subseteq Singles /\ Numbered'
    BY <1>0, <2>1 DEF Present, Singles, Numbered
  <2>3. RequestMeant(recorded)'
    BY <1>6 DEF RequestMeant
  <2>4. QED
    BY <1>0, <1>a, <2>1, <2>2, <2>3, CurationFrame
<1>9. CASE LoadItem(q)
  <2>1. PICK i \in cuItems : Begin(q, "write", "change", i.id, i)
    BY <1>9 DEF LoadItem
  <2>2. i \in Items /\ i.id \in Objects /\ i.id < cuNextId
    BY <1>0, CurationFacts DEF Numbered
  <2>3. PICK r \in CurationRequest : cuReq' = [cuReq EXCEPT ![q] = r] /\ r.pc = "write"
                                 /\ r.object = i.id /\ r.item = i
    BY <1>1, <2>1, <2>2 DEF Deeds
  <2>4. UNCHANGED <<cuRows, cuItems, cuLog, cuEver, cuNextId, cuMoved>>
    BY <1>9 DEF LoadItem
  <2>5. RequestMeant(r)'
    BY <2>2, <2>3, <2>4 DEF RequestMeant
  <2>6. QED
    BY <1>0, <1>a, <2>3, <2>4, <2>5, CurationQuiet
<1>10. CASE SaveItem(q)
  <2>1. /\ a.pc = "write" /\ a.deed = "change" /\ a.object \in ItemIds
        /\ UNCHANGED <<cuRows, cuLog, cuEver, cuNextId>>
    BY <1>10 DEF SaveItem
  <2>2. PICK p \in 1 .. MaxItems \union {a.item.position} :
             LET new == [a.item EXCEPT !.position = p]
             IN  IF CanInsert(new)
                 THEN /\ cuItems' = Without(a.object) \union {new}
                      /\ cuMoved' = (cuMoved \/ cuItems' # cuItems)
                      /\ cuReq' = [cuReq EXCEPT ![q].pc = "log"]
                 ELSE UNCHANGED <<cuItems, cuMoved>> /\ cuReq' = [cuReq EXCEPT ![q] = Resting]
    BY <1>10 DEF SaveItem
  <2>3. p \in 1 .. MaxItems + 1
    BY <1>0, CurationAssumption DEF Items
  <2>4. PICK new \in Items : new = [a.item EXCEPT !.position = p] /\ new.id = a.item.id
    BY <1>0, <2>3, ItemAt
  <2>5. new.id = a.object
    BY <1>0, <2>1, <2>4 DEF RequestMeant
  <2>6. CASE CanInsert(new)
    <3>1. cuItems' = Without(a.object) \union {new} /\ cuMoved' \in BOOLEAN /\ cuReq' = [cuReq EXCEPT ![q] = recorded]
      BY <1>7, <2>2, <2>4, <2>6
    <3>2. Without(a.object) \subseteq cuItems /\ \A i \in Without(a.object) : i.id # new.id
      BY <2>5 DEF Without
    <3>3. Numbered'
      BY <1>0, <2>1, <2>5, <3>1, <3>2 DEF Numbered, RequestMeant
    <3>4. cuItems' \subseteq Items /\ \A i, j \in cuItems' : i.id = j.id => i = j
      BY <1>0, <3>1, <3>2
    <3>5. Present \subseteq Present'
      BY <2>1, <2>5, <3>1 DEF Present, Without
    <3>6. RequestMeant(recorded)'
      BY <1>6 DEF RequestMeant
    <3>7. QED
      BY <1>0, <1>a, <2>1, <3>1, <3>3, <3>4, <3>5, <3>6, CurationFrame
  <2>7. CASE ~CanInsert(new)
    <3>1. UNCHANGED <<cuItems, cuMoved>> /\ cuReq' = [cuReq EXCEPT ![q] = Resting]
      BY <2>2, <2>4, <2>7
    <3>2. RequestMeant(Resting)'
      BY CurationFacts DEF RequestMeant
    <3>3. QED
      BY <1>0, <1>a, <2>1, <3>1, <3>2, CurationFacts, CurationQuiet
  <2>8. QED
    BY <2>6, <2>7
<1>11. CASE DeleteComment(q) \/ DeleteCollection(q) \/ DeleteItem(q)
  <2>1. PICK o \in Objects : BeginDeletion(q, o)
    BY <1>11, CurationFacts DEF DeleteComment, DeleteCollection, DeleteItem
  <2>2. PICK r \in CurationRequest : cuReq' = [cuReq EXCEPT ![q] = r] /\ r.pc = "log"
    BY <1>1, <2>1, CurationFacts DEF BeginDeletion, Deeds
  <2>3. RequestMeant(r)'
    BY <2>2 DEF RequestMeant
  <2>4. UNCHANGED <<cuRows, cuItems, cuLog, cuEver, cuNextId, cuMoved>>
    BY <2>1 DEF BeginDeletion
  <2>5. QED
    BY <1>0, <1>a, <2>2, <2>3, <2>4, CurationQuiet
<1>12. CASE RecordActivity(q)
  <2>1. UNCHANGED <<cuRows, cuItems, cuEver, cuNextId, cuMoved>>
    BY <1>12 DEF RecordActivity
  <2>2. CASE a.deed = "delete"
    <3>1. PICK r \in CurationRequest : /\ r = [a EXCEPT !.pc = "remove"] /\ r.pc = "remove"
                                   /\ r.object = a.object
      BY <1>0, RequestAt
    <3>2. cuReq' = [cuReq EXCEPT ![q] = r] /\ cuLog' = cuLog \union {a.object}
      BY <1>0, <1>12, <2>2, <3>1 DEF RecordActivity
    <3>3. RequestMeant(r)'
      BY <3>1, <3>2 DEF RequestMeant
    <3>4. QED
      BY <1>0, <1>a, <2>1, <3>2, <3>3, CurationQuiet
  <2>3. CASE a.deed # "delete"
    <3>1. cuReq' = [cuReq EXCEPT ![q] = Resting] /\ cuLog' = cuLog
      BY <1>12, <2>3 DEF RecordActivity
    <3>2. RequestMeant(Resting)'
      BY CurationFacts DEF RequestMeant
    <3>3. QED
      BY <1>0, <1>a, <2>1, <3>1, <3>2, CurationFacts, CurationQuiet
  <2>4. QED
    BY <2>2, <2>3
<1>13. CASE RemoveObject(q)
  <2>1. /\ a.object \in cuLog /\ cuRows' = cuRows \ {a.object}
        /\ cuItems' = IF a.object = Collection THEN {} ELSE Without(a.object)
        /\ cuReq' = [cuReq EXCEPT ![q] = Resting]
        /\ UNCHANGED <<cuLog, cuEver, cuNextId>> /\ cuMoved' \in BOOLEAN
    BY <1>0, <1>13 DEF RemoveObject, RequestMeant
  <2>2. cuItems' \subseteq cuItems
    BY <2>1 DEF Without
  <2>3. Numbered'
    BY <1>0, <2>1, <2>2 DEF Numbered
  <2>4. cuReq' \in [Curators -> CurationRequest] /\ \A p \in Curators : cuReq'[p] = Resting \/ cuReq'[p] = cuReq[p]
    BY <1>0, <2>1, CurationFacts
  <2>5. CurationTypeOK'
    BY <1>0, <1>a, <2>1, <2>2, <2>4 DEF CurationTypeOK
  <2>6. \A p \in Curators : RequestMeant(cuReq[p])'
    BY <2>1, <2>4, CurationFacts DEF CurationInv, RequestMeant
  <2>7. ASSUME NEW o \in Present \ Present'
        PROVE  o \in cuLog \/ (o \in ItemIds /\ Collection \in cuLog)
    <3>1. CASE o = a.object
      BY <2>1, <3>1
    <3>2. CASE o # a.object
      <4>1. PICK i \in cuItems : i.id = o
        BY <2>1, <2>7, <3>2 DEF Present
      <4>2. a.object = Collection
        BY <2>1, <2>7, <3>2, <4>1 DEF Present, Without
      <4>3. QED
        BY <1>0, <2>1, <4>1, <4>2
    <3>3. QED
      BY <3>1, <3>2
  <2>8. DeletionsAreLogged'
    BY <1>0, <2>1, <2>7 DEF DeletionsAreLogged
  <2>9. QED
    BY <2>3, <2>5, <2>6, <2>8 DEF CurationInv
<1>14. CASE CrashCurator(q)
  <2>1. cuReq' = [cuReq EXCEPT ![q] = Resting] /\ UNCHANGED <<cuRows, cuItems, cuLog, cuEver, cuNextId, cuMoved>>
    BY <1>14 DEF CrashCurator
  <2>2. RequestMeant(Resting)'
    BY CurationFacts DEF RequestMeant
  <2>3. QED
    BY <1>0, <1>a, <2>1, <2>2, CurationFacts, CurationQuiet
<1>15. QED
  BY <1>2, <1>3, <1>4, <1>5, <1>8, <1>9, <1>10, <1>11, <1>12, <1>13, <1>14

\* What holds at every step of the curation.
LEMMA CurationHolds == CurationSpec => []CurationInv
<1>1. CurationInit => CurationInv
  <2> SUFFICES ASSUME CurationInit
               PROVE  CurationInv
    OBVIOUS
  <2>1. cuReq \in [Curators -> CurationRequest] /\ \A q \in Curators : cuReq[q].pc = "idle"
    BY CurationFacts DEF CurationInit
  <2>2. CurationTypeOK
    <3>1. 1 \in 1 .. MaxItems + 1
      BY CurationAssumption
    <3>2. QED
      BY <2>1, <3>1 DEF CurationInit, CurationTypeOK
  <2>3. \A q \in Curators : RequestMeant(cuReq[q])
    BY <2>1 DEF RequestMeant
  <2>4. DeletionsAreLogged /\ Numbered
    BY DEF CurationInit, DeletionsAreLogged, Numbered
  <2>5. QED
    BY <2>2, <2>3, <2>4 DEF CurationInv
<1>2. CurationInv /\ [CurationNext]_curationVars => CurationInv'
  <2> SUFFICES ASSUME CurationInv, [CurationNext]_curationVars
               PROVE  CurationInv'
    OBVIOUS
  <2>1. CASE UNCHANGED curationVars
    BY <2>1 DEF curationVars, CurationInv, CurationTypeOK, Numbered, RequestMeant, DeletionsAreLogged, Present
  <2>2. CASE CurationNext
    BY <2>2, CurationStep DEF CurationNext
  <2>3. QED
    BY <2>1, <2>2
<1>3. QED
  BY <1>1, <1>2, PTL DEF CurationSpec

\* The variables keep their types: the place an item is given is within the bound, and an
\* id stands for one item, also after a request saved a copy of an item that was deleted.
THEOREM CurationTypes == CurationSpec => []CurationTypeOK
<1>1. CurationInv => CurationTypeOK
  BY DEF CurationInv
<1>2. QED
  BY <1>1, CurationHolds, PTL

\* Nothing disappears without a trace, whoever crashed or wrote meanwhile.
THEOREM TraceIsLeft == CurationSpec => []DeletionsAreLogged
<1>1. CurationInv => DeletionsAreLogged
  BY DEF CurationInv
<1>2. QED
  BY <1>1, CurationHolds, PTL

\* While no item has been moved, each has the place after all those that were there when it
\* was counted, with all that were there when theirs was; so has each that a request is
\* about to insert.
ItemsThere == {i.id : i \in cuItems}

PlacedLast(item) ==
    /\ item.before \subseteq ItemsThere /\ item.position = Cardinality(item.before) + 1
    /\ \A i \in cuItems : i.id \in item.before => i.before \subseteq item.before

Inserting(q) == cuReq[q].pc = "write" /\ cuReq[q].deed = "create"

AppendInv ==
    ~cuMoved => /\ \A i \in cuItems : i.id \notin i.before /\ PlacedLast(i)
                /\ \A q \in Curators : Inserting(q) => PlacedLast(cuReq[q].item)

\* A step that leaves the items as they are, if it moves none, and begins no insertion.
LEMMA AppendQuiet ==
    ASSUME AppendInv, ~cuMoved' => ~cuMoved /\ cuItems' = cuItems,
           \A p \in Curators : cuReq'[p] = cuReq[p] \/ ~Inserting(p)'
    PROVE  AppendInv'
<1> SUFFICES ASSUME ~cuMoved'
             PROVE  AppendInv'
  BY DEF AppendInv
<1>1. \A i : PlacedLast(i)' <=> PlacedLast(i)
  BY DEF PlacedLast, ItemsThere
<1>2. ASSUME NEW p \in Curators, Inserting(p)'
      PROVE  Inserting(p) /\ cuReq'[p] = cuReq[p]
  BY <1>2 DEF Inserting
<1>3. \A p \in Curators : Inserting(p)' => PlacedLast(cuReq'[p].item)
  BY <1>2 DEF AppendInv
<1>4. QED
  BY <1>1, <1>3 DEF AppendInv

\* A request is counted the place after the items there are.
LEMMA AppendPlace ==
    ASSUME CurationInv, AppendInv, NEW q \in Curators, PlaceItem(q)
    PROVE  AppendInv'
<1>1. PICK c \in Contents, hand \in BOOLEAN, p \in 1 .. MaxItems :
           /\ Begin(q, "write", "create", 1,
                    [id |-> 1, content |-> c, position |-> IF hand THEN p ELSE NextPosition,
                     before |-> {i.id : i \in cuItems}])
           /\ cuMoved' = (cuMoved \/ hand)
  BY DEF PlaceItem
<1>2. UNCHANGED cuItems
  BY DEF PlaceItem
<1>3. SUFFICES ASSUME ~cuMoved'
               PROVE  AppendInv'
  BY DEF AppendInv
<1>4. ~cuMoved /\ ~hand
  BY <1>1, <1>3
<1>5. PICK item : item = [id |-> 1, content |-> c, position |-> NextPosition, before |-> ItemsThere]
  OBVIOUS
<1>6. PICK r : r = [pc |-> "write", deed |-> "create", object |-> 1, item |-> item]
  OBVIOUS
<1>7. cuReq' = [cuReq EXCEPT ![q] = r] /\ r.item = item
  BY <1>1, <1>4, <1>5, <1>6 DEF Begin, ItemsThere
<1>8. cuReq'[q].item = item /\ \A o \in Curators : o # q => cuReq'[o] = cuReq[o]
  BY <1>7 DEF CurationInv, CurationTypeOK
<1>9. \A i : PlacedLast(i)' <=> PlacedLast(i)
  BY <1>2 DEF PlacedLast, ItemsThere
<1>10. NextPosition = Cardinality(ItemsThere) + 1
  BY ItemsCounted DEF CurationInv, CurationTypeOK, NextPosition, ItemsThere
<1>11. PlacedLast(item)
  BY <1>4, <1>5, <1>10 DEF PlacedLast, AppendInv
<1>12. \A o \in Curators : Inserting(o)' => PlacedLast(cuReq'[o].item)
  BY <1>4, <1>8, <1>11 DEF AppendInv, Inserting
<1>13. QED
  BY <1>2, <1>4, <1>9, <1>12 DEF AppendInv

\* An item is inserted where a request counted it, with a new id, which no other item has
\* been placed after.
LEMMA AppendInsert ==
    ASSUME CurationInv, AppendInv, NEW q \in Curators, InsertItem(q)
    PROVE  AppendInv'
<1> SUFFICES ASSUME ~cuMoved, cuMoved' = cuMoved
             PROVE  AppendInv'
  BY DEF AppendInv, InsertItem
<1>1. /\ cuReq[q] \in CurationRequest /\ cuReq[q].item \in Items /\ Inserting(q)
      /\ cuNextId \in ItemIds /\ cuNextId \in Nat /\ cuItems \subseteq Items
  BY CurationFacts DEF CurationInv, CurationTypeOK, CurationRequest, InsertItem, Inserting
<1>2. PICK new \in Items : /\ new = [cuReq[q].item EXCEPT !.id = cuNextId] /\ new.id = cuNextId
                           /\ new.before = cuReq[q].item.before /\ new.position = cuReq[q].item.position
  <2>1. PICK new : new = [cuReq[q].item EXCEPT !.id = cuNextId]
    OBVIOUS
  <2>2. /\ new \in Items /\ new.id = cuNextId
        /\ new.before = cuReq[q].item.before /\ new.position = cuReq[q].item.position
    BY <1>1, <2>1 DEF Items
  <2>3. QED
    BY <2>1, <2>2
<1>3. PlacedLast(new)
  BY <1>1, <1>2 DEF AppendInv, PlacedLast
<1>4. cuNextId \notin ItemsThere
  BY <1>1, CurationFacts DEF CurationInv, Numbered, ItemsThere, Items
<1>5. CASE ~CanInsert(new)
  <2>1. cuItems' = cuItems /\ cuReq' = [cuReq EXCEPT ![q] = Resting]
    BY <1>2, <1>5 DEF InsertItem
  <2>2. \A p \in Curators : cuReq'[p] = cuReq[p] \/ cuReq'[p] = Resting
    BY <2>1 DEF CurationInv, CurationTypeOK
  <2>3. QED
    BY <2>1, <2>2, AppendQuiet, CurationFacts DEF Inserting
<1>6. CASE CanInsert(new)
  <2>1. PICK r : r = [pc |-> "log", deed |-> "create", object |-> cuNextId, item |-> NoItem]
    OBVIOUS
  <2>2. cuItems' = cuItems \union {new} /\ cuReq' = [cuReq EXCEPT ![q] = r] /\ r.pc = "log"
    BY <1>2, <1>6, <2>1 DEF InsertItem, Begin
  <2>3. cuReq'[q] = r /\ \A p \in Curators : p # q => cuReq'[p] = cuReq[p]
    BY <2>2 DEF CurationInv, CurationTypeOK
  <2>4. ItemsThere' = ItemsThere \union {cuNextId}
    BY <1>2, <2>2 DEF ItemsThere
  <2>5. ASSUME NEW item, PlacedLast(item)
        PROVE  PlacedLast(item)'
    <3>1. cuNextId \notin item.before
      BY <1>4, <2>5 DEF PlacedLast
    <3>2. QED
      BY <1>2, <2>2, <2>4, <2>5, <3>1 DEF PlacedLast
  <2>6. \A i \in cuItems' : i.id \notin i.before /\ PlacedLast(i)'
    <3>1. new.id \notin new.before
      BY <1>2, <1>3, <1>4 DEF PlacedLast
    <3>2. QED
      BY <1>3, <2>2, <2>5, <3>1 DEF AppendInv
  <2>7. ASSUME NEW p \in Curators, Inserting(p)'
        PROVE  PlacedLast(cuReq[p].item)'
    <3>1. Inserting(p) /\ cuReq'[p] = cuReq[p]
      BY <2>2, <2>3, <2>7 DEF Inserting
    <3>2. PICK item : item = cuReq[p].item
      OBVIOUS
    <3>3. PlacedLast(item)'
      BY <2>5, <3>1, <3>2 DEF AppendInv
    <3>4. QED
      BY <3>1, <3>2, <3>3
  <2>8. QED
    BY <2>6, <2>7 DEF AppendInv
<1>7. QED
  BY <1>5, <1>6

LEMMA AppendStep ==
    ASSUME CurationInv, AppendInv, NEW q \in Curators,
           \/ CreateComment(q) \/ CreateCollection(q) \/ PlaceItem(q) \/ InsertItem(q)
           \/ LoadCollection(q) \/ SaveCollection(q) \/ LoadItem(q) \/ SaveItem(q)
           \/ DeleteComment(q) \/ DeleteCollection(q) \/ DeleteItem(q)
           \/ RecordActivity(q) \/ RemoveObject(q) \/ CrashCurator(q)
    PROVE  AppendInv'
<1>0. cuReq \in [Curators -> CurationRequest] /\ cuReq[q] \in CurationRequest
  BY DEF CurationInv, CurationTypeOK
<1>1. ASSUME NEW r, cuReq' = [cuReq EXCEPT ![q] = r], r.pc # "write" \/ r.deed = "change",
             ~cuMoved' => ~cuMoved /\ cuItems' = cuItems
      PROVE  AppendInv'
  <2>1. \A p \in Curators : cuReq'[p] = cuReq[p] \/ cuReq'[p] = r
    BY <1>0, <1>1
  <2>2. \A p \in Curators : cuReq'[p] = cuReq[p] \/ ~Inserting(p)'
    BY <1>1, <2>1 DEF Inserting
  <2>3. QED
    BY <1>1, <2>2, AppendQuiet
<1>2. ASSUME NEW pc, NEW deed, NEW o, NEW i, Begin(q, pc, deed, o, i), pc # "write" \/ deed = "change",
             UNCHANGED <<cuItems, cuMoved>>
      PROVE  AppendInv'
  <2>1. PICK r : r = [pc |-> pc, deed |-> deed, object |-> o, item |-> i]
    OBVIOUS
  <2>2. cuReq' = [cuReq EXCEPT ![q] = r] /\ r.pc = pc /\ r.deed = deed
    BY <1>2, <2>1 DEF Begin
  <2>3. QED
    BY <1>1, <1>2, <2>2
<1>3. PICK logged : logged = [cuReq[q] EXCEPT !.pc = "log"]
  OBVIOUS
<1>4. PICK removing : removing = [cuReq[q] EXCEPT !.pc = "remove"]
  OBVIOUS
<1>5. logged.pc = "log" /\ removing.pc = "remove" /\ Resting.pc = "idle"
  BY <1>0, <1>3, <1>4, CurationFacts DEF CurationRequest
<1>6. /\ [cuReq EXCEPT ![q].pc = "log"] = [cuReq EXCEPT ![q] = logged]
      /\ [cuReq EXCEPT ![q].pc = "remove"] = [cuReq EXCEPT ![q] = removing]
  BY <1>0, <1>3, <1>4
<1>7. CASE CreateComment(q) \/ CreateCollection(q)
  BY <1>2, <1>7 DEF CreateComment, CreateCollection, CreateSingle
<1>8. CASE PlaceItem(q) \/ InsertItem(q)
  BY <1>8, AppendPlace, AppendInsert
<1>9. CASE LoadCollection(q)
  BY <1>2, <1>9 DEF LoadCollection
<1>10. CASE SaveCollection(q)
  BY <1>1, <1>5, <1>6, <1>10 DEF SaveCollection
<1>11. CASE LoadItem(q)
  BY <1>2, <1>11 DEF LoadItem
<1>12. CASE SaveItem(q)
  <2>1. \/ cuReq' = [cuReq EXCEPT ![q] = logged] /\ cuMoved' = (cuMoved \/ cuItems' # cuItems)
        \/ cuReq' = [cuReq EXCEPT ![q] = Resting] /\ UNCHANGED <<cuItems, cuMoved>>
    BY <1>6, <1>12 DEF SaveItem
  <2>2. CASE cuReq' = [cuReq EXCEPT ![q] = logged] /\ cuMoved' = (cuMoved \/ cuItems' # cuItems)
    <3>1. ~cuMoved' => ~cuMoved /\ cuItems' = cuItems
      BY <2>2
    <3>2. QED
      BY <1>1, <1>5, <2>2, <3>1
  <2>3. CASE cuReq' = [cuReq EXCEPT ![q] = Resting] /\ UNCHANGED <<cuItems, cuMoved>>
    BY <1>1, <1>5, <2>3
  <2>4. QED
    BY <2>1, <2>2, <2>3
<1>13. CASE DeleteComment(q) \/ DeleteCollection(q) \/ DeleteItem(q)
  BY <1>2, <1>13 DEF DeleteComment, DeleteCollection, DeleteItem, BeginDeletion
<1>14. CASE RecordActivity(q)
  <2>1. \/ cuReq' = [cuReq EXCEPT ![q] = removing]
        \/ cuReq' = [cuReq EXCEPT ![q] = Resting]
    BY <1>6, <1>14 DEF RecordActivity
  <2>2. QED
    BY <1>1, <1>5, <1>14, <2>1 DEF RecordActivity
<1>15. CASE RemoveObject(q)
  BY <1>1, <1>5, <1>15 DEF RemoveObject
<1>16. CASE CrashCurator(q)
  BY <1>1, <1>5, <1>16 DEF CrashCurator
<1>17. QED
  BY <1>7, <1>8, <1>9, <1>10, <1>11, <1>12, <1>13, <1>14, <1>15, <1>16

\* What was there when an item was counted and what was there when it was inserted are
\* nested, so it comes after each of them.
LEMMA PlacedInOrder == CurationInv /\ AppendInv => AppendedLast
<1> SUFFICES ASSUME CurationInv, AppendInv, ~cuMoved, NEW i \in cuItems, NEW j \in cuItems, i.id \in j.before
             PROVE  i.position < j.position
  BY DEF AppendedLast
<1>1. /\ i.before \subseteq j.before /\ i.id \notin i.before /\ j.before \subseteq ItemsThere
      /\ i.position = Cardinality(i.before) + 1 /\ j.position = Cardinality(j.before) + 1
  BY DEF AppendInv, PlacedLast
<1>2. IsFiniteSet(ItemsThere)
  BY ItemsCounted DEF CurationInv, CurationTypeOK, ItemsThere
<1>3. IsFiniteSet(j.before) /\ IsFiniteSet(i.before)
  BY <1>1, <1>2, FS_Subset
<1>4. Cardinality(i.before \union {i.id}) = Cardinality(i.before) + 1
  BY <1>1, <1>3, FS_AddElement
<1>5. Cardinality(i.before \union {i.id}) <= Cardinality(j.before)
  BY <1>1, <1>3, FS_Subset
<1>6. Cardinality(i.before) \in Nat /\ Cardinality(j.before) \in Nat
  BY <1>3, FS_CardinalityType
<1>7. QED
  BY <1>1, <1>4, <1>5, <1>6

\* While nobody moves items, an item comes after all that were there when its place was
\* counted, also when additions overlap.
THEOREM AppendsComeLast == CurationSpec => []AppendedLast
<1>1. CurationInit => AppendInv
  BY CurationFacts DEF CurationInit, AppendInv, Inserting
<1>2. CurationInv /\ AppendInv /\ [CurationNext]_curationVars => AppendInv'
  <2> SUFFICES ASSUME CurationInv, AppendInv, [CurationNext]_curationVars
               PROVE  AppendInv'
    OBVIOUS
  <2>1. CASE UNCHANGED curationVars
    BY <2>1, AppendQuiet DEF curationVars
  <2>2. CASE CurationNext
    BY <2>2, AppendStep DEF CurationNext
  <2>3. QED
    BY <2>1, <2>2
<1>3. QED
  BY <1>1, <1>2, CurationHolds, PlacedInOrder, PTL DEF CurationSpec

-----------------------------------------------------------------------------
(* Universes (Universes).  What the sources yield is left open here: a list  *)
(* of entries is one of those they may yield, and a count is a length.       *)

EntryLists == {<<>>} \union ProfileTickers \union ParseTickers \union ParseFile
Counts == {Len(e) : e \in EntryLists}
HeldUniverse == [exists : BOOLEAN, system : BOOLEAN, source : Sources, profile : BOOLEAN, count : Counts]

UniverseTyped ==
    /\ unRows \in [UniverseIds -> HeldUniverse]
    /\ unEntries \in [UniverseIds -> EntryLists]
    /\ unMade \in Nat
    /\ unSync \in [Syncs -> [creates : BOOLEAN, entries : EntryLists]]
    /\ unCopy \in [Patchers -> [id : Nat, row : HeldUniverse]]
    /\ unRaced \in BOOLEAN /\ unSeized \in BOOLEAN

\* Nothing has happened after which a profile may have two managed universes.
Orderly == ~unRaced /\ ~unSeized

OneManaged == \A u, v \in Managed : u = v

\* Until then one sync at most is about to create the managed universe, which is not there.
SyncAlone ==
    \A s \in Syncs : unSync[s] # NoSync => Managed = {} /\ \A t \in Syncs : unSync[t] # NoSync => t = s

UniverseInv == UniverseTyped /\ EntriesCounted /\ (Orderly => OneManaged /\ SyncAlone)

\* Two rows of one universe: what the sync looks for is the same if the system made it.
Alike(row, other) ==
    row.system \/ other.system =>
        row.system = other.system /\ row.source = other.source /\ row.profile = other.profile

\* A request holds a row of a universe that was made, and nothing else of its universe
\* differs from it in what the sync looks for.
CopyOK(q) ==
    /\ unCopy[q] = NoCopy \/ (unCopy[q].id \in UniverseIds /\ unCopy[q].id <= unMade)
    /\ Orderly => /\ \A u \in UniverseIds : u = unCopy[q].id /\ unRows[u].exists => Alike(unRows[u], unCopy[q].row)
                  /\ \A p \in Patchers : unCopy[p].id = unCopy[q].id => Alike(unCopy[p].row, unCopy[q].row)

CopyInv ==
    /\ unMade \in 0 .. MaxUniverses /\ unStale \subseteq UniverseIds
    /\ \A u \in UniverseIds : unRows[u].exists => u <= unMade
    /\ \A q \in Patchers : CopyOK(q)

LEMMA UniverseFacts ==
    /\ NoUniverse \in HeldUniverse /\ NoSync \in [creates : BOOLEAN, entries : EntryLists]
    /\ ~OfProfile(NoUniverse) /\ NoUniverse.count = 0 /\ UniverseIds \subseteq Nat
    /\ <<>> \in EntryLists /\ Len(<<>>) = 0 /\ 0 \in Counts
<1>1. <<>> \in EntryLists /\ Len(<<>>) = 0
  BY DEF EntryLists
<1>2. 0 \in Counts
  BY <1>1 DEF Counts
<1>3. NoUniverse \in HeldUniverse /\ ~OfProfile(NoUniverse) /\ NoUniverse.count = 0
  BY <1>2 DEF NoUniverse, HeldUniverse, Sources, OfProfile
<1>4. NoSync \in [creates : BOOLEAN, entries : EntryLists]
  BY <1>1 DEF NoSync
<1>5. UniverseIds \subseteq Nat
  BY UniverseAssumption DEF UniverseIds
<1>6. QED
  BY <1>1, <1>2, <1>3, <1>4, <1>5

\* The oldest of some universes.
LEMMA NatLess == IsWellFoundedOn({p \in Nat \X Nat : p[1] < p[2]}, Nat)
BY NatLessThanWellFounded DEF OpToRel

LEMMA LeastElement ==
    ASSUME NEW S \in SUBSET Nat, S # {}
    PROVE  \E m \in S : \A j \in S : m <= j
<1> DEFINE Less == {p \in Nat \X Nat : p[1] < p[2]}
<1>1. \E m \in S : \A j \in S : <<j, m>> \notin Less
  <2> HIDE DEF Less
  <2>1. IsWellFoundedOn(Less, Nat)
    BY NatLess DEF Less
  <2>2. QED
    BY <2>1, WFMin
<1>2. PICK m \in S : \A j \in S : <<j, m>> \notin Less
  BY <1>1
<1>3. ASSUME NEW j \in S
      PROVE  m <= j
  <2>1. ~(j < m)
    BY <1>2, <1>3
  <2>2. j \in Nat /\ m \in Nat
    OBVIOUS
  <2>3. QED
    BY <2>1, <2>2
<1>4. QED
  BY <1>3

\* A row with a new list of entries.
Written(id, row, entries, new) ==
    /\ new.exists /\ new.system = row.system /\ new.source = row.source
    /\ new.profile = row.profile /\ new.count = Len(entries)
    /\ unRows' = [unRows EXCEPT ![id] = new] /\ unRows' \in [UniverseIds -> HeldUniverse]
    /\ unEntries' = [unEntries EXCEPT ![id] = entries]
    /\ unEntries' \in [UniverseIds -> EntryLists]
    /\ unStale' = unStale \ {id} /\ EntriesCounted'

LEMMA Replaced ==
    ASSUME UniverseInv, NEW id, NEW row \in HeldUniverse, NEW entries \in EntryLists,
           Replace(id, row, entries)
    PROVE  \E new \in HeldUniverse : Written(id, row, entries, new)
<1>1. PICK new : new = [row EXCEPT !.exists = TRUE, !.count = Len(entries)]
  OBVIOUS
<1>2. Len(entries) \in Counts
  BY DEF Counts
<1>3. /\ new \in HeldUniverse /\ new.exists /\ new.system = row.system /\ new.source = row.source
      /\ new.profile = row.profile /\ new.count = Len(entries)
  BY <1>1, <1>2 DEF HeldUniverse
<1>4. /\ unRows' = [unRows EXCEPT ![id] = new] /\ unEntries' = [unEntries EXCEPT ![id] = entries]
      /\ unStale' = unStale \ {id}
  BY <1>1 DEF Replace
<1>5. unRows \in [UniverseIds -> HeldUniverse] /\ unEntries \in [UniverseIds -> EntryLists]
  BY DEF UniverseInv, UniverseTyped
<1>6. unRows' \in [UniverseIds -> HeldUniverse] /\ unEntries' \in [UniverseIds -> EntryLists]
  BY <1>3, <1>4, <1>5
<1>7. EntriesCounted'
  BY <1>3, <1>4, <1>5 DEF UniverseInv, EntriesCounted
<1>8. QED
  BY <1>3, <1>4, <1>6, <1>7 DEF Written

LEMMA SourcesYield ==
    /\ ProfileTickers \subseteq EntryLists
    /\ \A source \in Sources : Inputs(source) \subseteq EntryLists
BY DEF EntryLists, Inputs, Sources

LEMMA SyncProfileKeeps ==
    ASSUME UniverseInv, NEW s \in Syncs, SyncProfile(s)
    PROVE  UniverseInv'
<1>1. PICK entries \in ProfileTickers :
           IF Managed # {}
           THEN LET u == CHOOSE u \in Managed : \A v \in Managed : u <= v
                IN  Replace(u, unRows[u], entries) /\ UNCHANGED <<unSync, unRaced>>
           ELSE /\ unSync' = [unSync EXCEPT ![s] = [creates |-> TRUE, entries |-> entries]]
                /\ unRaced' = (unRaced \/ \E t \in Syncs : unSync[t] # NoSync)
                /\ UNCHANGED <<unRows, unEntries, unStale>>
  BY DEF SyncProfile
<1>2. UNCHANGED <<unMade, unCopy, unSeized>> /\ entries \in EntryLists
  BY SourcesYield DEF SyncProfile
<1>3. CASE Managed # {}
  <2>1. \E u \in Managed : \A v \in Managed : u <= v
    <3>1. Managed \in SUBSET Nat
      BY UniverseFacts DEF Managed
    <3>2. QED
      BY <1>3, <3>1, LeastElement
  <2>2. PICK u \in Managed : Replace(u, unRows[u], entries) /\ UNCHANGED <<unSync, unRaced>>
    BY <1>1, <1>3, <2>1
  <2>3. u \in UniverseIds /\ OfProfile(unRows[u]) /\ unRows[u] \in HeldUniverse
    BY DEF Managed, UniverseInv, UniverseTyped
  <2>4. PICK new \in HeldUniverse :
             /\ new.exists /\ new.system = unRows[u].system /\ new.source = unRows[u].source
             /\ new.profile = unRows[u].profile
             /\ unRows' = [unRows EXCEPT ![u] = new] /\ unRows' \in [UniverseIds -> HeldUniverse]
             /\ unEntries' \in [UniverseIds -> EntryLists]
             /\ EntriesCounted'
    <3>1. PICK new \in HeldUniverse : Written(u, unRows[u], entries, new)
      BY <1>2, <2>2, <2>3, Replaced
    <3>2. QED
      BY <3>1 DEF Written
  <2>5. OfProfile(new)
    BY <2>3, <2>4 DEF OfProfile
  <2>6. Managed' = Managed
    BY <2>3, <2>4, <2>5 DEF Managed, UniverseInv, UniverseTyped
  <2>7. UniverseTyped' /\ EntriesCounted'
    BY <1>2, <2>2, <2>4 DEF UniverseInv, UniverseTyped, EntriesCounted
  <2>8. QED
    BY <1>2, <2>2, <2>6, <2>7 DEF UniverseInv, Orderly, OneManaged, SyncAlone
<1>4. CASE Managed = {}
  <2>1. PICK new \in [creates : BOOLEAN, entries : EntryLists] : new = [creates |-> TRUE, entries |-> entries]
    BY <1>2
  <2>2. /\ unSync' = [unSync EXCEPT ![s] = new] /\ UNCHANGED <<unRows, unEntries, unStale>>
        /\ unRaced' = (unRaced \/ \E t \in Syncs : unSync[t] # NoSync)
    BY <1>1, <1>4, <2>1
  <2>3. /\ unSync' \in [Syncs -> [creates : BOOLEAN, entries : EntryLists]]
        /\ \A t \in Syncs : t # s => unSync'[t] = unSync[t]
    BY <2>2 DEF UniverseInv, UniverseTyped
  <2>4. Managed' = {} /\ unRaced' \in BOOLEAN
    BY <1>4, <2>2 DEF Managed, UniverseInv, UniverseTyped
  <2>5. UniverseTyped' /\ EntriesCounted'
    BY <1>2, <2>2, <2>3, <2>4 DEF UniverseInv, UniverseTyped, EntriesCounted
  <2>6. Orderly' => SyncAlone'
    BY <2>2, <2>3, <2>4 DEF Orderly, SyncAlone
  <2>7. QED
    BY <2>4, <2>5, <2>6 DEF UniverseInv, OneManaged
<1>5. QED
  BY <1>3, <1>4

LEMMA SyncEnds ==
    ASSUME UniverseInv, NEW s \in Syncs, SyncCreate(s) \/ SyncFails(s)
    PROVE  UniverseInv'
<1>1. /\ unSync' = [unSync EXCEPT ![s] = NoSync] /\ unSync[s] # NoSync
      /\ UNCHANGED <<unCopy, unRaced, unSeized>>
  BY DEF SyncCreate, SyncFails
<1>2. /\ unSync' \in [Syncs -> [creates : BOOLEAN, entries : EntryLists]]
      /\ \A t \in Syncs : unSync'[t] # NoSync => t # s /\ unSync[t] # NoSync
  BY <1>1, UniverseFacts DEF UniverseInv, UniverseTyped
<1>3. Orderly' => Orderly /\ Managed = {} /\ \A t \in Syncs : unSync'[t] = NoSync
  BY <1>1, <1>2 DEF UniverseInv, Orderly, SyncAlone
<1>4. CASE SyncCreate(s)
  <2>1. PICK row : row = [NoUniverse EXCEPT !.system = TRUE, !.source = "built_in", !.profile = TRUE]
    OBVIOUS
  <2>2. row \in HeldUniverse
    BY <2>1, UniverseFacts DEF HeldUniverse, Sources
  <2>3. PICK entries \in EntryLists : entries = unSync[s].entries
    BY DEF UniverseInv, UniverseTyped
  <2>4. Replace(FreshId, row, entries) /\ unMade' = FreshId
    BY <1>4, <2>1, <2>3 DEF SyncCreate
  <2>5. PICK new \in HeldUniverse :
             /\ unRows' = [unRows EXCEPT ![FreshId] = new] /\ unRows' \in [UniverseIds -> HeldUniverse]
             /\ unEntries' \in [UniverseIds -> EntryLists]
             /\ EntriesCounted'
    <3>1. PICK new \in HeldUniverse : Written(FreshId, row, entries, new)
      BY <2>2, <2>4, Replaced
    <3>2. QED
      BY <3>1 DEF Written
  <2>6. UniverseTyped' /\ EntriesCounted'
    BY <1>1, <1>2, <2>4, <2>5 DEF UniverseInv, UniverseTyped, EntriesCounted, FreshId
  <2>7. Managed' \subseteq Managed \union {FreshId}
    BY <2>5 DEF Managed, UniverseInv, UniverseTyped
  <2>8. QED
    BY <1>3, <2>6, <2>7 DEF UniverseInv, OneManaged, SyncAlone
<1>5. CASE SyncFails(s)
  <2>1. UNCHANGED <<unRows, unEntries, unMade, unStale>>
    BY <1>5 DEF SyncFails
  <2>2. UniverseTyped' /\ EntriesCounted' /\ Managed' = Managed
    BY <1>1, <1>2, <2>1 DEF UniverseInv, UniverseTyped, EntriesCounted, Managed
  <2>3. QED
    BY <1>3, <2>2 DEF UniverseInv, OneManaged, SyncAlone
<1>6. QED
  BY <1>4, <1>5

\* A step of the members, after which no universe is managed that was not.
LEMMA MembersFrame ==
    ASSUME UniverseInv, UniverseTyped', EntriesCounted',
           UNCHANGED <<unSync, unRaced>>, Orderly' => Orderly /\ Managed' \subseteq Managed
    PROVE  UniverseInv'
<1>1. Orderly' => OneManaged'
  BY DEF UniverseInv, OneManaged
<1>2. Orderly' => SyncAlone'
  BY DEF UniverseInv, SyncAlone
<1>3. QED
  BY <1>1, <1>2 DEF UniverseInv

LEMMA MembersKeep ==
    ASSUME UniverseInv, CreateUniverse \/ DeleteUniverse
    PROVE  UniverseInv'
<1>1. CASE CreateUniverse
  <2>1. PICK source \in Sources, submitted \in BOOLEAN :
             \E entries \in Inputs(source) : CreateFrom(source, submitted, entries)
    BY <1>1 DEF CreateUniverse
  <2>2. PICK entries \in EntryLists : CreateFrom(source, submitted, entries)
    BY <2>1, SourcesYield
  <2>3. PICK row : row = [NoUniverse EXCEPT !.source = source, !.profile = submitted]
    OBVIOUS
  <2>4. row \in HeldUniverse /\ row.system = FALSE
    BY <2>3, UniverseFacts DEF HeldUniverse, NoUniverse
  <2>5. Replace(FreshId, row, entries)
    BY <2>2, <2>3 DEF CreateFrom
  <2>6. PICK new \in HeldUniverse :
             /\ new.system = row.system
             /\ unRows' = [unRows EXCEPT ![FreshId] = new] /\ unRows' \in [UniverseIds -> HeldUniverse]
             /\ unEntries' \in [UniverseIds -> EntryLists]
             /\ EntriesCounted'
    <3>1. PICK new \in HeldUniverse : Written(FreshId, row, entries, new)
      BY <2>4, <2>5, Replaced
    <3>2. QED
      BY <3>1 DEF Written
  <2>7. unMade' = FreshId /\ UNCHANGED <<unSync, unCopy, unRaced, unSeized>>
    BY <1>1 DEF CreateUniverse
  <2>8. UniverseTyped' /\ EntriesCounted'
    BY <2>6, <2>7 DEF UniverseInv, UniverseTyped, EntriesCounted, FreshId
  <2>9. ~OfProfile(new)
    BY <2>4, <2>6 DEF OfProfile
  <2>10. Managed' \subseteq Managed
    BY <2>6, <2>9 DEF Managed, UniverseInv, UniverseTyped
  <2>11. QED
    BY <2>7, <2>8, <2>10, MembersFrame DEF Orderly
<1>2. CASE DeleteUniverse
  <2>1. PICK u \in UniverseIds : /\ unRows' = [unRows EXCEPT ![u] = NoUniverse]
                                 /\ unEntries' = [unEntries EXCEPT ![u] = <<>>]
    BY <1>2 DEF DeleteUniverse
  <2>2. UNCHANGED <<unMade, unSync, unCopy, unRaced, unSeized, unStale>>
    BY <1>2 DEF DeleteUniverse
  <2>3. /\ unRows' \in [UniverseIds -> HeldUniverse] /\ unEntries' \in [UniverseIds -> EntryLists]
        /\ unRows'[u].count = Len(unEntries'[u]) /\ ~OfProfile(unRows'[u])
        /\ \A v \in UniverseIds : v # u => unRows'[v] = unRows[v] /\ unEntries'[v] = unEntries[v]
    BY <2>1, UniverseFacts DEF UniverseInv, UniverseTyped
  <2>4. UniverseTyped' /\ EntriesCounted'
    BY <2>2, <2>3 DEF UniverseInv, UniverseTyped, EntriesCounted
  <2>5. Managed' \subseteq Managed
    BY <2>3 DEF Managed
  <2>6. QED
    BY <2>2, <2>4, <2>5, MembersFrame DEF Orderly
<1>3. QED
  BY <1>1, <1>2

LEMMA PatchersKeep ==
    ASSUME UniverseInv, CopyInv, NEW q \in Patchers, LoadUniverse(q) \/ PatchMetadata(q) \/ PatchSource(q)
    PROVE  UniverseInv'
<1>1. PICK c \in [id : Nat, row : HeldUniverse] : c = unCopy[q]
  BY DEF UniverseInv, UniverseTyped
<1>2. NoCopy \in [id : Nat, row : HeldUniverse]
  BY UniverseFacts DEF NoCopy
<1>3. CASE LoadUniverse(q)
  <2>1. PICK u \in UniverseIds : unCopy' = [unCopy EXCEPT ![q] = [id |-> u, row |-> unRows[u]]]
    BY <1>3 DEF LoadUniverse
  <2>2. [id |-> u, row |-> unRows[u]] \in [id : Nat, row : HeldUniverse]
    BY UniverseFacts DEF UniverseInv, UniverseTyped
  <2>3. UNCHANGED <<unRows, unEntries, unMade, unSync, unRaced, unSeized, unStale>>
    BY <1>3 DEF LoadUniverse
  <2>4. UniverseTyped' /\ EntriesCounted' /\ Managed' = Managed
    BY <2>1, <2>2, <2>3 DEF UniverseInv, UniverseTyped, EntriesCounted, Managed
  <2>5. QED
    BY <2>3, <2>4, MembersFrame DEF Orderly
<1>4. CASE PatchMetadata(q)
  <2>1. /\ unRows' = [unRows EXCEPT ![c.id] = c.row]
        /\ unStale' = IF c.row # unRows[c.id] THEN unStale \union {c.id} ELSE unStale
        /\ unSeized' = (unSeized \/ (c.row.system /\ ~unRows[c.id].exists))
        /\ c # NoCopy /\ unCopy' = [unCopy EXCEPT ![q] = NoCopy]
        /\ UNCHANGED <<unEntries, unMade, unSync, unRaced>>
    BY <1>1, <1>4 DEF PatchMetadata, Outdated, Restores
  <2>2. unRows' \in [UniverseIds -> HeldUniverse] /\ unSeized' \in BOOLEAN
    BY <1>1, <2>1 DEF UniverseInv, UniverseTyped
  <2>3. c.id \in UniverseIds /\ (Orderly /\ unRows[c.id].exists => Alike(unRows[c.id], c.row))
    BY <1>1, <2>1 DEF CopyInv, CopyOK
  <2>4. UniverseTyped'
    BY <1>2, <2>1, <2>2 DEF UniverseInv, UniverseTyped
  <2>5. EntriesCounted'
    BY <2>1, <2>3 DEF UniverseInv, UniverseTyped, EntriesCounted
  <2>6. Orderly' => Orderly /\ (c.row.system => unRows[c.id].exists)
    BY <2>1 DEF Orderly
  <2>7. Orderly' /\ OfProfile(c.row) => OfProfile(unRows[c.id])
    BY <2>3, <2>6 DEF OfProfile, Alike
  <2>8. Orderly' => Managed' \subseteq Managed
    BY <2>1, <2>7 DEF Managed, UniverseInv, UniverseTyped
  <2>9. QED
    BY <2>1, <2>4, <2>5, <2>6, <2>8, MembersFrame
<1>5. CASE PatchSource(q)
  <2>1. PICK source \in Sources, submitted \in BOOLEAN : \E entries \in Inputs(source) :
             Replace(c.id, [c.row EXCEPT !.source = source,
                                         !.profile = (source = "built_in" /\ submitted)], entries)
    BY <1>1, <1>5 DEF PatchSource
  <2>2. PICK row : row = [c.row EXCEPT !.source = source, !.profile = (source = "built_in" /\ submitted)]
    OBVIOUS
  <2>3. row \in HeldUniverse /\ row.system = c.row.system
    BY <2>2 DEF HeldUniverse
  <2>4. PICK entries \in EntryLists : Replace(c.id, row, entries)
    BY <2>1, <2>2, SourcesYield
  <2>5. PICK new \in HeldUniverse :
             /\ new.system = row.system
             /\ unRows' = [unRows EXCEPT ![c.id] = new] /\ unRows' \in [UniverseIds -> HeldUniverse]
             /\ unEntries' \in [UniverseIds -> EntryLists]
             /\ EntriesCounted'
    <3>1. PICK new \in HeldUniverse : Written(c.id, row, entries, new)
      BY <2>3, <2>4, Replaced
    <3>2. QED
      BY <3>1 DEF Written
  <2>6. /\ unSeized' = (unSeized \/ c.row.system)
        /\ unCopy' = [unCopy EXCEPT ![q] = NoCopy] /\ UNCHANGED <<unMade, unSync, unRaced>>
    BY <1>1, <1>5 DEF PatchSource
  <2>7. unSeized' \in BOOLEAN
    BY <2>6 DEF UniverseInv, UniverseTyped, HeldUniverse
  <2>8. UniverseTyped' /\ EntriesCounted'
    BY <1>2, <2>5, <2>6, <2>7 DEF UniverseInv, UniverseTyped, EntriesCounted
  <2>9. Orderly' => Orderly /\ ~new.system
    BY <2>3, <2>5, <2>6 DEF Orderly
  <2>10. ~new.system => Managed' \subseteq Managed
    BY <2>5 DEF Managed, OfProfile, UniverseInv, UniverseTyped
  <2>11. QED
    BY <2>6, <2>8, <2>9, <2>10, MembersFrame
<1>6. QED
  BY <1>3, <1>4, <1>5

LEMMA AlikeFacts ==
    ASSUME NEW a \in HeldUniverse, NEW b \in HeldUniverse, NEW c \in HeldUniverse
    PROVE  /\ Alike(a, a)
           /\ Alike(a, b) => Alike(b, a)
           /\ Alike(a, b) /\ Alike(b, c) => Alike(a, c)
           /\ Alike(a, b) /\ ~b.system => ~a.system
           /\ ~a.system /\ ~b.system => Alike(a, b)
<1>1. a.system \in BOOLEAN /\ b.system \in BOOLEAN /\ c.system \in BOOLEAN
  BY DEF HeldUniverse
<1>2. QED
  BY <1>1 DEF Alike

\* The row of u after a step suits what the requests hold of it.
RowFits(u) ==
    unRows'[u].exists =>
        /\ u <= unMade'
        /\ Orderly' => \A p \in Patchers : unCopy[p].id = u => Alike(unRows'[u], unCopy[p].row)

\* A step after which no request holds a row that it did not.
LEMMA CopiesFrame ==
    ASSUME UniverseInv, CopyInv, Orderly' => Orderly,
           unMade' \in unMade .. MaxUniverses, unStale' \subseteq UniverseIds,
           \A p \in Patchers : unCopy'[p] = unCopy[p] \/ unCopy'[p] = NoCopy,
           \A u \in UniverseIds : RowFits(u)
    PROVE  CopyInv'
<1>1. unMade \in Nat /\ MaxUniverses \in Nat /\ unMade' \in Nat /\ unMade <= unMade'
  BY UniverseAssumption DEF CopyInv
<1>2. unCopy \in [Patchers -> [id : Nat, row : HeldUniverse]]
  BY DEF UniverseInv, UniverseTyped
<1>3. NoCopy.id = 0 /\ NoCopy.row = NoUniverse /\ 0 \notin UniverseIds /\ UniverseIds \subseteq Nat
  BY UniverseFacts DEF NoCopy, UniverseIds
<1>4. ASSUME NEW q \in Patchers
      PROVE  CopyOK(q)'
  <2>1. unCopy[q] = NoCopy \/ (unCopy[q].id \in UniverseIds /\ unCopy[q].id <= unMade)
    BY DEF CopyInv, CopyOK
  <2>2. unCopy'[q] = NoCopy \/ (unCopy'[q].id \in UniverseIds /\ unCopy'[q].id <= unMade')
    BY <1>1, <1>3, <2>1
  <2>3. ASSUME Orderly', NEW u \in UniverseIds, u = unCopy'[q].id, unRows'[u].exists
        PROVE  Alike(unRows'[u], unCopy'[q].row)
    BY <1>3, <2>3 DEF RowFits
  <2>4. ASSUME Orderly', NEW p \in Patchers, unCopy'[p].id = unCopy'[q].id
        PROVE  Alike(unCopy'[p].row, unCopy'[q].row)
    <3>1. CASE unCopy'[p] = unCopy[p] /\ unCopy'[q] = unCopy[q]
      BY <2>4, <3>1 DEF CopyInv, CopyOK
    <3>2. CASE unCopy'[p] = NoCopy \/ unCopy'[q] = NoCopy
      <4>1. \A r \in Patchers : unCopy'[r].id = 0 => unCopy'[r] = NoCopy
        BY <1>3 DEF CopyInv, CopyOK
      <4>2. unCopy'[p] = NoCopy /\ unCopy'[q] = NoCopy
        BY <1>3, <2>4, <3>2, <4>1
      <4>3. QED
        BY <1>3, <4>2, UniverseFacts, AlikeFacts
    <3>3. QED
      BY <3>1, <3>2
  <2>5. QED
    BY <2>2, <2>3, <2>4 DEF CopyOK
<1>5. \A u \in UniverseIds : unRows'[u].exists => u <= unMade'
  BY DEF RowFits
<1>6. unMade' \in 0 .. MaxUniverses
  BY <1>1
<1>7. QED
  BY <1>4, <1>5, <1>6 DEF CopyInv

\* A row the step leaves, or deletes, or that no request can hold yet.
LEMMA RowKept ==
    ASSUME UniverseInv, CopyInv, Orderly' => Orderly, unMade' \in unMade .. MaxUniverses,
           NEW u \in UniverseIds,
           \/ unRows'[u] = unRows[u]
           \/ ~unRows'[u].exists
           \/ u = FreshId /\ unMade' = FreshId
    PROVE  RowFits(u)
<1>1. unMade \in Nat /\ MaxUniverses \in Nat /\ unMade' \in Nat /\ unMade <= unMade' /\ u \in Nat
  BY UniverseAssumption, UniverseFacts DEF CopyInv
<1>2. CASE unRows'[u] = unRows[u]
  <2>1. unRows[u].exists => u <= unMade
    BY DEF CopyInv
  <2>2. ASSUME Orderly, unRows[u].exists, NEW p \in Patchers, unCopy[p].id = u
        PROVE  Alike(unRows[u], unCopy[p].row)
    BY <2>2 DEF CopyInv, CopyOK
  <2>3. QED
    BY <1>1, <1>2, <2>1, <2>2 DEF RowFits
<1>3. CASE u = FreshId /\ unMade' = FreshId
  <2>1. \A p \in Patchers : unCopy[p].id = 0 \/ unCopy[p].id <= unMade
    BY DEF CopyInv, CopyOK, NoCopy
  <2>2. \A p \in Patchers : unCopy[p].id \in Nat
    BY DEF UniverseInv, UniverseTyped
  <2>3. \A p \in Patchers : unCopy[p].id # u
    BY <1>1, <1>3, <2>1, <2>2 DEF FreshId
  <2>4. QED
    BY <1>1, <1>3, <2>3 DEF RowFits
<1>4. QED
  BY <1>2, <1>3 DEF RowFits

LEMMA MadeFits ==
    ASSUME UniverseInv, CopyInv, NEW row, NEW entries, Replace(FreshId, row, entries),
           unMade' = FreshId, FreshId \in UniverseIds, unCopy' = unCopy, Orderly' => Orderly
    PROVE  CopyInv'
<1>1. unMade' \in unMade .. MaxUniverses /\ unStale' \subseteq UniverseIds
  BY UniverseAssumption DEF CopyInv, UniverseIds, FreshId, Replace
<1>2. \A u \in UniverseIds : u # FreshId => unRows'[u] = unRows[u]
  BY DEF Replace, UniverseInv, UniverseTyped
<1>3. \A u \in UniverseIds : RowFits(u)
  BY <1>1, <1>2, RowKept
<1>4. QED
  BY <1>1, <1>3, CopiesFrame

LEMMA SyncsFit ==
    ASSUME UniverseInv, CopyInv, NEW s \in Syncs, SyncProfile(s) \/ SyncCreate(s) \/ SyncFails(s)
    PROVE  CopyInv'
<1>1. UNCHANGED <<unCopy, unSeized>> /\ (Orderly' => Orderly)
  BY DEF SyncProfile, SyncCreate, SyncFails, Orderly, UniverseInv, UniverseTyped
<1>2. unMade \in 0 .. MaxUniverses /\ MaxUniverses \in Nat /\ unStale \subseteq UniverseIds
  BY UniverseAssumption DEF CopyInv
<1>3. CASE UNCHANGED <<unRows, unMade, unStale>>
  <2>1. unMade' \in unMade .. MaxUniverses
    BY <1>2, <1>3
  <2>2. QED
    BY <1>1, <1>2, <1>3, <2>1, RowKept, CopiesFrame
<1>4. ASSUME NEW u \in Managed, NEW entries \in EntryLists, Replace(u, unRows[u], entries), unMade' = unMade
      PROVE  CopyInv'
  <2>1. u \in UniverseIds /\ unRows[u].exists /\ unRows[u] \in HeldUniverse
    BY DEF Managed, OfProfile, UniverseInv, UniverseTyped
  <2>2. PICK new \in HeldUniverse :
             /\ new.system = unRows[u].system /\ new.source = unRows[u].source
             /\ new.profile = unRows[u].profile
             /\ unRows' = [unRows EXCEPT ![u] = new] /\ unStale' = unStale \ {u}
    <3>1. PICK new \in HeldUniverse : Written(u, unRows[u], entries, new)
      BY <1>4, <2>1, Replaced
    <3>2. QED
      BY <3>1 DEF Written
  <2>3. unMade' \in unMade .. MaxUniverses
    BY <1>2, <1>4
  <2>4. ASSUME NEW p \in Patchers, unCopy[p].id = u, Orderly
        PROVE  Alike(new, unCopy[p].row)
    <3>1. Alike(unRows[u], unCopy[p].row)
      BY <2>1, <2>4 DEF CopyInv, CopyOK
    <3>2. QED
      BY <2>2, <3>1 DEF Alike
  <2>5. unRows'[u] = new /\ \A v \in UniverseIds : v # u => unRows'[v] = unRows[v]
    BY <2>1, <2>2 DEF UniverseInv, UniverseTyped
  <2>6. RowFits(u)
    BY <1>1, <1>4, <2>1, <2>4, <2>5 DEF RowFits, CopyInv
  <2>7. \A v \in UniverseIds : RowFits(v)
    BY <1>1, <2>3, <2>5, <2>6, RowKept
  <2>8. QED
    BY <1>1, <1>2, <2>2, <2>3, <2>7, CopiesFrame
<1>5. CASE SyncProfile(s)
  <2>1. CASE Managed # {}
    <3>1. \E u \in Managed : \A v \in Managed : u <= v
      <4>1. Managed \in SUBSET Nat
        BY UniverseFacts DEF Managed
      <4>2. QED
        BY <2>1, <4>1, LeastElement
    <3>2. PICK u \in Managed, entries \in EntryLists : Replace(u, unRows[u], entries)
      BY <1>5, <2>1, <3>1, SourcesYield DEF SyncProfile
    <3>3. QED
      BY <1>4, <1>5, <3>2 DEF SyncProfile
  <2>2. QED
    BY <1>3, <1>5, <2>1 DEF SyncProfile
<1>6. CASE SyncCreate(s)
  <2>1. PICK row, entries : Replace(FreshId, row, entries)
    BY <1>6 DEF SyncCreate
  <2>2. unMade' = FreshId /\ FreshId \in UniverseIds
    BY <1>6 DEF SyncCreate
  <2>3. QED
    BY <1>1, <2>1, <2>2, MadeFits
<1>7. QED
  BY <1>3, <1>5, <1>6 DEF SyncFails

LEMMA MembersFit ==
    ASSUME UniverseInv, CopyInv, CreateUniverse \/ DeleteUniverse
    PROVE  CopyInv'
<1>1. unCopy' = unCopy /\ (Orderly' => Orderly)
  BY DEF CreateUniverse, DeleteUniverse, Orderly
<1>2. CASE CreateUniverse
  <2>1. PICK row, entries : Replace(FreshId, row, entries)
    BY <1>2 DEF CreateUniverse, CreateFrom
  <2>2. QED
    BY <1>1, <1>2, <2>1, MadeFits DEF CreateUniverse
<1>3. CASE DeleteUniverse
  <2>1. PICK u \in UniverseIds : unRows' = [unRows EXCEPT ![u] = NoUniverse]
    BY <1>3 DEF DeleteUniverse
  <2>2. ~NoUniverse.exists
    BY DEF NoUniverse
  <2>3. \A v \in UniverseIds : unRows'[v] = unRows[v] \/ ~unRows'[v].exists
    BY <2>1, <2>2 DEF UniverseInv, UniverseTyped
  <2>4. unMade' \in unMade .. MaxUniverses /\ unStale' \subseteq UniverseIds
    BY <1>3, UniverseAssumption DEF DeleteUniverse, CopyInv
  <2>5. \A v \in UniverseIds : RowFits(v)
    BY <1>1, <2>3, <2>4, RowKept
  <2>6. QED
    BY <1>1, <2>4, <2>5, CopiesFrame
<1>4. QED
  BY <1>2, <1>3

\* A patch writes a row that is like whatever else is held of its universe.
LEMMA PatchFits ==
    ASSUME UniverseInv, CopyInv, NEW q \in Patchers, unCopy[q] # NoCopy,
           unMade' = unMade, unStale' \subseteq UniverseIds, Orderly' => Orderly,
           unCopy' = [unCopy EXCEPT ![q] = NoCopy],
           NEW new \in HeldUniverse, unRows' = [unRows EXCEPT ![unCopy[q].id] = new],
           Orderly' => Alike(new, unCopy[q].row)
    PROVE  CopyInv'
<1>1. unCopy \in [Patchers -> [id : Nat, row : HeldUniverse]]
  BY DEF UniverseInv, UniverseTyped
<1>2. PICK id \in UniverseIds : id = unCopy[q].id /\ id <= unMade
  BY DEF CopyInv, CopyOK
<1>3. unRows'[id] = new /\ \A v \in UniverseIds : v # id => unRows'[v] = unRows[v]
  BY <1>2 DEF UniverseInv, UniverseTyped
<1>4. unMade' \in unMade .. MaxUniverses
  BY UniverseAssumption DEF CopyInv
<1>5. ASSUME Orderly', NEW p \in Patchers, unCopy[p].id = id
      PROVE  Alike(new, unCopy[p].row)
  <2>1. Alike(unCopy[q].row, unCopy[p].row)
    BY <1>2, <1>5 DEF CopyInv, CopyOK
  <2>2. QED
    BY <1>1, <1>5, <2>1, AlikeFacts
<1>6. RowFits(id)
  BY <1>2, <1>3, <1>5 DEF RowFits
<1>7. \A v \in UniverseIds : RowFits(v)
  BY <1>3, <1>4, <1>6, RowKept
<1>8. \A p \in Patchers : unCopy'[p] = unCopy[p] \/ unCopy'[p] = NoCopy
  BY <1>1
<1>9. QED
  BY <1>4, <1>7, <1>8, CopiesFrame

LEMMA LoadFits ==
    ASSUME UniverseInv, CopyInv, NEW q \in Patchers, LoadUniverse(q)
    PROVE  CopyInv'
<1>1. PICK u \in UniverseIds : unRows[u].exists /\ unCopy' = [unCopy EXCEPT ![q] = [id |-> u, row |-> unRows[u]]]
  BY DEF LoadUniverse
<1>2. UNCHANGED <<unRows, unMade, unStale, unRaced, unSeized>>
  BY DEF LoadUniverse
<1>3. unCopy \in [Patchers -> [id : Nat, row : HeldUniverse]] /\ unRows \in [UniverseIds -> HeldUniverse]
  BY DEF UniverseInv, UniverseTyped
<1>4. /\ unCopy'[q].id = u /\ unCopy'[q].row = unRows[u]
      /\ \A p \in Patchers : p # q => unCopy'[p] = unCopy[p]
  BY <1>1, <1>3
<1>5. Orderly' = Orderly
  BY <1>2 DEF Orderly
<1>6. ASSUME Orderly, NEW p \in Patchers, p # q, unCopy[p].id = u
      PROVE  Alike(unRows[u], unCopy[p].row) /\ Alike(unCopy[p].row, unRows[u])
  <2>1. Alike(unRows[u], unCopy[p].row)
    BY <1>1, <1>6 DEF CopyInv, CopyOK
  <2>2. QED
    BY <1>3, <2>1, AlikeFacts
<1>7. Alike(unRows[u], unRows[u])
  BY <1>3, AlikeFacts
<1>8. ASSUME NEW p \in Patchers
      PROVE  CopyOK(p)'
  <2>1. unCopy'[p] = NoCopy \/ (unCopy'[p].id \in UniverseIds /\ unCopy'[p].id <= unMade')
    BY <1>1, <1>2, <1>4 DEF CopyInv, CopyOK
  <2>2. ASSUME Orderly, NEW v \in UniverseIds, v = unCopy'[p].id, unRows[v].exists
        PROVE  Alike(unRows[v], unCopy'[p].row)
    BY <1>4, <1>7, <2>2 DEF CopyInv, CopyOK
  <2>3. ASSUME Orderly, NEW r \in Patchers, unCopy'[r].id = unCopy'[p].id
        PROVE  Alike(unCopy'[r].row, unCopy'[p].row)
    <3>1. CASE p # q /\ r # q
      BY <1>4, <2>3, <3>1 DEF CopyInv, CopyOK
    <3>2. CASE p = q \/ r = q
      BY <1>4, <1>6, <1>7, <2>3, <3>2
    <3>3. QED
      BY <3>1, <3>2
  <2>4. QED
    BY <1>2, <1>5, <2>1, <2>2, <2>3 DEF CopyOK
<1>9. QED
  BY <1>2, <1>8 DEF CopyInv

LEMMA PatchersFit ==
    ASSUME UniverseInv, CopyInv, NEW q \in Patchers, PatchMetadata(q) \/ PatchSource(q)
    PROVE  CopyInv'
<1>1. PICK c \in [id : Nat, row : HeldUniverse] : c = unCopy[q]
  BY DEF UniverseInv, UniverseTyped
<1>2. /\ unCopy[q] # NoCopy /\ unMade' = unMade
      /\ unCopy' = [unCopy EXCEPT ![q] = NoCopy] /\ unRaced' = unRaced
  BY DEF PatchMetadata, PatchSource
<1>3. c.id \in UniverseIds /\ unStale \subseteq UniverseIds
  BY <1>1, <1>2 DEF CopyInv, CopyOK
<1>4. CASE PatchMetadata(q)
  <2>1. /\ unRows' = [unRows EXCEPT ![unCopy[q].id] = c.row]
        /\ unStale' \in {unStale, unStale \union {c.id}}
    BY <1>1, <1>4 DEF PatchMetadata
  <2>2. unStale' \subseteq UniverseIds
    BY <1>3, <2>1
  <2>3. unSeized' = (unSeized \/ Restores(q))
    BY <1>4 DEF PatchMetadata
  <2>4. Orderly' => Orderly
    BY <1>2, <2>3 DEF Orderly
  <2>5. Alike(c.row, unCopy[q].row)
    BY <1>1, AlikeFacts
  <2>6. QED
    BY <1>1, <1>2, <2>1, <2>2, <2>4, <2>5, PatchFits
<1>5. CASE PatchSource(q)
  <2>1. PICK source \in Sources, submitted \in BOOLEAN : \E entries \in Inputs(source) :
             Replace(c.id, [c.row EXCEPT !.source = source,
                                         !.profile = (source = "built_in" /\ submitted)], entries)
    BY <1>1, <1>5 DEF PatchSource
  <2>2. PICK row : row = [c.row EXCEPT !.source = source, !.profile = (source = "built_in" /\ submitted)]
    OBVIOUS
  <2>3. row \in HeldUniverse /\ row.system = c.row.system
    BY <2>2 DEF HeldUniverse
  <2>4. PICK entries \in EntryLists : Replace(c.id, row, entries)
    BY <2>1, <2>2, SourcesYield
  <2>5. PICK new \in HeldUniverse :
             /\ new.system = row.system /\ unRows' = [unRows EXCEPT ![c.id] = new]
             /\ unStale' = unStale \ {c.id}
    <3>1. PICK new \in HeldUniverse : Written(c.id, row, entries, new)
      BY <2>3, <2>4, Replaced
    <3>2. QED
      BY <3>1 DEF Written
  <2>6. unSeized' = (unSeized \/ c.row.system)
    BY <1>1, <1>5 DEF PatchSource
  <2>7. Orderly' => Orderly /\ Alike(new, unCopy[q].row)
    BY <1>1, <1>2, <2>3, <2>5, <2>6, AlikeFacts DEF Orderly
  <2>8. QED
    BY <1>1, <1>2, <1>3, <2>5, <2>7, PatchFits
<1>6. QED
  BY <1>4, <1>5

LEMMA UniverseHolds == UniverseSpec => [](UniverseInv /\ CopyInv)
<1>1. UniverseInit => UniverseInv /\ CopyInv
  <2> SUFFICES ASSUME UniverseInit
               PROVE  UniverseInv /\ CopyInv
    OBVIOUS
  <2>1. UniverseTyped
    BY UniverseFacts DEF UniverseInit, UniverseTyped, NoCopy
  <2>2. EntriesCounted /\ Managed = {}
    BY UniverseFacts DEF UniverseInit, EntriesCounted, Managed
  <2>3. SyncAlone
    BY DEF UniverseInit, SyncAlone
  <2>4. CopyInv
    BY UniverseAssumption, UniverseFacts, AlikeFacts DEF UniverseInit, CopyInv, CopyOK, NoUniverse, Alike
  <2>5. QED
    BY <2>1, <2>2, <2>3, <2>4 DEF UniverseInv, OneManaged
<1>2. UniverseInv /\ CopyInv /\ [UniverseNext]_universeVars => UniverseInv' /\ CopyInv'
  <2> SUFFICES ASSUME UniverseInv, CopyInv, [UniverseNext]_universeVars
               PROVE  UniverseInv' /\ CopyInv'
    OBVIOUS
  <2>1. CASE UNCHANGED universeVars
    <3>1. UniverseInv'
      BY <2>1 DEF universeVars, UniverseInv, UniverseTyped, EntriesCounted, Orderly, OneManaged, SyncAlone, Managed
    <3>2. CopyInv'
      BY <2>1 DEF universeVars, CopyInv, CopyOK, Orderly
    <3>3. QED
      BY <3>1, <3>2
  <2>2. CASE UniverseNext
    <3>1. UniverseInv'
      BY <2>2, SyncProfileKeeps, SyncEnds, MembersKeep, PatchersKeep DEF UniverseNext
    <3>2. CopyInv'
      BY <2>2, SyncsFit, MembersFit, LoadFits, PatchersFit DEF UniverseNext
    <3>3. QED
      BY <3>1, <3>2
  <2>3. QED
    BY <2>1, <2>2
<1>3. QED
  BY <1>1, <1>2, PTL DEF UniverseSpec

\* A profile has one managed universe, whoever syncs it how often, unless two first syncs
\* overlapped, a member gave the managed one another source, or a stale patch of a system
\* universe brought it back: a stale patch of any other kind, and whatever else overlaps,
\* leaves it the only one.
THEOREM OneUniverseOfProfile == UniverseSpec => []OneManagedUniverse
<1>1. UniverseInv => OneManagedUniverse
  BY DEF UniverseInv, Orderly, OneManaged, Managed, OneManagedUniverse
<1>2. QED
  BY <1>1, UniverseHolds, PTL

\* What a source yields (Candidates): every symbol once.
NamesOf == {Normalize(t) : t \in Tokens}

\* The positions are taken one by one.
LEMMA ElementsTaken ==
    ASSUME NEW s, NEW P \in SUBSET Nat, IsFiniteSet(P)
    PROVE  /\ Cardinality(P) \in Nat
           /\ \E pos \in Bijection(1 .. Cardinality(P), P) :
                  ElementsAt(s, P) = [k \in 1 .. Cardinality(P) |-> s[pos[k]]]
<1> DEFINE n == Cardinality(P)
           UpTo(p) == {q \in P : q <= p}
           place == [p \in P |-> Cardinality(UpTo(p))]
           pos == [k \in 1 .. n |-> CHOOSE p \in P : Cardinality({q \in P : q <= p}) = k]
<1>1. n \in Nat
  BY FS_CardinalityType
<1>2. ASSUME NEW p \in P
      PROVE  /\ IsFiniteSet(UpTo(p)) /\ Cardinality(UpTo(p)) \in 1 .. n
             /\ \A q \in P : q < p => Cardinality(UpTo(q)) < Cardinality(UpTo(p))
  <2>1. IsFiniteSet(UpTo(p)) /\ Cardinality(UpTo(p)) <= n
    BY FS_Subset
  <2>2. UpTo(p) # {} /\ p \in UpTo(p)
    OBVIOUS
  <2>3. Cardinality(UpTo(p)) \in Nat /\ Cardinality(UpTo(p)) # 0
    BY <2>1, <2>2, FS_CardinalityType, FS_EmptySet
  <2>4. ASSUME NEW q \in P, q < p
        PROVE  Cardinality(UpTo(q)) < Cardinality(UpTo(p))
    <3>1. UpTo(q) \subseteq UpTo(p) /\ p \notin UpTo(q)
      <4>1. p \in Nat /\ q \in Nat /\ \A r \in P : r \in Nat
        OBVIOUS
      <4>2. ASSUME NEW r \in P, r <= q
            PROVE  r <= p
        BY <2>4, <4>1, <4>2
      <4>3. ~(p <= q)
        BY <2>4, <4>1
      <4>4. QED
        BY <4>2, <4>3
    <3>2. Cardinality(UpTo(q)) <= Cardinality(UpTo(p)) /\ Cardinality(UpTo(q)) # Cardinality(UpTo(p))
      BY <2>1, <2>2, <3>1, FS_Subset
    <3>3. IsFiniteSet(UpTo(q))
      BY FS_Subset
    <3>4. Cardinality(UpTo(q)) \in Nat
      BY <3>3, FS_CardinalityType
    <3> HIDE DEF UpTo
    <3>5. QED
      BY <2>3, <3>2, <3>4
  <2> HIDE DEF UpTo
  <2>5. QED
    BY <1>1, <2>1, <2>3, <2>4
<1>3. place \in Injection(P, 1 .. n)
  <2>1. place \in [P -> 1 .. n]
    BY <1>2
  <2>2. ASSUME NEW p \in P, NEW q \in P, p # q
        PROVE  place[p] # place[q]
    <3>1. p < q \/ q < p
      BY <2>2
    <3> HIDE DEF UpTo
    <3>2. QED
      BY <1>1, <1>2, <3>1
  <2>3. QED
    BY <2>1, <2>2 DEF Injection, IsInjective
<1>4. place \in Surjection(P, 1 .. n)
  <2>1. IsFiniteSet(1 .. n) /\ Cardinality(1 .. n) = n
    BY <1>1, FS_Interval
  <2> HIDE DEF place
  <2>2. QED
    BY <1>3, <2>1, FS_Injection
<1>5. ASSUME NEW k \in 1 .. n
      PROVE  pos[k] \in P /\ place[pos[k]] = k
  <2>1. \E p \in P : Cardinality({q \in P : q <= p}) = k
    BY <1>4 DEF Surjection
  <2>2. QED
    BY <2>1
<1>6. ElementsAt(s, P) = [k \in 1 .. n |-> s[pos[k]]]
  BY DEF ElementsAt
<1>7. pos \in Bijection(1 .. n, P)
  <2>1. pos \in [1 .. n -> P]
    BY <1>5
  <2>2. \A j, k \in 1 .. n : pos[j] = pos[k] => j = k
    BY <1>5
  <2>3. \A p \in P : \E k \in 1 .. n : pos[k] = p
    <3>1. ASSUME NEW p \in P
          PROVE  place[p] \in 1 .. n /\ pos[place[p]] = p
      <4>1. place[p] \in 1 .. n
        BY <1>3 DEF Injection
      <4>2. pos[place[p]] \in P /\ place[pos[place[p]]] = place[p]
        BY <1>5, <4>1
      <4> HIDE DEF place, pos
      <4>3. QED
        BY <1>3, <4>1, <4>2 DEF Injection, IsInjective
    <3> HIDE DEF place, pos
    <3>2. QED
      BY <3>1
  <2> HIDE DEF pos
  <2>4. QED
    BY <2>1, <2>2, <2>3 DEF Bijection, Injection, IsInjective, Surjection
<1> HIDE DEF pos
<1>8. QED
  BY <1>1, <1>6, <1>7

LEMMA BoundedTyped ==
    ASSUME NEW S, NEW n, NEW s \in BoundedSeq(S, n)
    PROVE  s \in Seq(S)
<1>1. PICK m \in 0 .. n : s \in [1 .. m -> S]
  BY DEF BoundedSeq, SeqOf
<1>2. QED
  BY <1>1

LEMMA SymbolsTyped ==
    ASSUME NEW rows \in Seq(Listing) \union Seq(DirectoryLine)
    PROVE  Symbols(rows) \in Seq(Tokens)
<1>1. \A i \in 1 .. Len(rows) : rows[i].symbol \in Tokens
  <2>1. ASSUME NEW row \in Listing \union DirectoryLine
        PROVE  row.symbol \in Tokens
    BY DEF Listing, DirectoryLine
  <2>2. ASSUME NEW i \in 1 .. Len(rows)
        PROVE  rows[i] \in Listing \union DirectoryLine
    <3>1. CASE rows \in Seq(Listing)
      BY <3>1
    <3>2. CASE rows \in Seq(DirectoryLine)
      BY <3>2
    <3>3. QED
      BY <3>1, <3>2
  <2>3. QED
    BY <2>1, <2>2
<1>2. Len(rows) \in Nat
  OBVIOUS
<1>3. QED
  BY <1>1, <1>2 DEF Symbols

LEMMA ElementsTyped ==
    ASSUME NEW S, NEW s \in Seq(S), NEW P \in SUBSET (1 .. Len(s))
    PROVE  ElementsAt(s, P) \in Seq(S)
<1>0. IsFiniteSet(1 .. Len(s))
  BY FS_Interval
<1>1. IsFiniteSet(P) /\ P \subseteq Nat
  <2>1. P \subseteq 1 .. Len(s)
    OBVIOUS
  <2>2. \A i \in 1 .. Len(s) : i \in Nat
    OBVIOUS
  <2>3. IsFiniteSet(P)
    BY <1>0, <2>1, FS_Subset
  <2>4. QED
    BY <2>1, <2>2, <2>3
<1>2. PICK pos \in Bijection(1 .. Cardinality(P), P) :
           ElementsAt(s, P) = [k \in 1 .. Cardinality(P) |-> s[pos[k]]]
  BY <1>1, ElementsTaken
<1>3. Cardinality(P) \in Nat
  BY <1>1, FS_CardinalityType
<1>4. ASSUME NEW k \in 1 .. Cardinality(P)
      PROVE  s[pos[k]] \in S
  <2>1. pos[k] \in P
    BY DEF Bijection, Injection
  <2>2. pos[k] \in 1 .. Len(s)
    BY <2>1
  <2>3. QED
    BY <2>2
<1>5. QED
  BY <1>2, <1>3, <1>4

\* Unique keeps every symbol, once.
LEMMA UniqueOnce ==
    ASSUME NEW tokens \in Seq(Tokens)
    PROVE  /\ Unique(tokens) \in Seq(NamesOf) /\ IsInjective(Unique(tokens))
           /\ \A i \in 1 .. Len(tokens) : Contains(Unique(tokens), Normalize(tokens[i]))
<1> DEFINE P == FirstUses(tokens)
           n == Cardinality(P)
           used == ElementsAt(tokens, P)
<1>1. IsFiniteSet(P) /\ P \subseteq Nat /\ P \subseteq 1 .. Len(tokens)
  BY FS_Interval, FS_Subset DEF FirstUses
<1>2. PICK pos \in Bijection(1 .. n, P) : used = [k \in 1 .. n |-> tokens[pos[k]]]
  BY <1>1, ElementsTaken
<1>3. n \in Nat
  BY <1>1, FS_CardinalityType
<1>4. used \in Seq(Tokens) /\ Len(used) = n
  <2> HIDE DEF P
  <2>1. used \in Seq(Tokens)
    BY <1>1, ElementsTyped
  <2>2. QED
    BY <1>2, <1>3, <2>1
<1>5. Unique(tokens) = [k \in 1 .. n |-> Normalize(tokens[pos[k]])]
  BY <1>2, <1>4 DEF Unique
<1>6. \A k \in 1 .. n : pos[k] \in P /\ pos[k] \in 1 .. Len(tokens) /\ tokens[pos[k]] \in Tokens
  BY <1>1 DEF Bijection, Injection
<1>7. Unique(tokens) \in Seq(NamesOf) /\ Len(Unique(tokens)) = n
  <2>1. \A k \in 1 .. n : Normalize(tokens[pos[k]]) \in NamesOf
    BY <1>6 DEF NamesOf
  <2>2. QED
    BY <1>3, <1>5, <2>1
<1>8. \A p, q \in P : p # q => Normalize(tokens[p]) # Normalize(tokens[q])
  BY DEF FirstUses
<1>9. IsInjective(Unique(tokens))
  <2>1. ASSUME NEW j \in 1 .. n, NEW k \in 1 .. n, Normalize(tokens[pos[j]]) = Normalize(tokens[pos[k]])
        PROVE  j = k
    <3>1. pos[j] = pos[k]
      BY <1>6, <1>8, <2>1
    <3>2. QED
      BY <3>1 DEF Bijection, Injection, IsInjective
  <2>2. QED
    BY <1>5, <2>1 DEF IsInjective
<1>10. ASSUME NEW i \in 1 .. Len(tokens)
       PROVE  Contains(Unique(tokens), Normalize(tokens[i]))
  <2> DEFINE Same == {j \in 1 .. Len(tokens) : Normalize(tokens[j]) = Normalize(tokens[i])}
  <2>1. PICK m \in Same : \A j \in Same : m <= j
    <3>1. Same \in SUBSET Nat /\ Same # {}
      OBVIOUS
    <3> HIDE DEF Same
    <3>2. QED
      BY <3>1, LeastElement
  <2>2. m \in P
    <3>1. ASSUME NEW j \in 1 .. m - 1
          PROVE  Normalize(tokens[j]) # Normalize(tokens[m])
      <4>1. j \in 1 .. Len(tokens) /\ j < m
        OBVIOUS
      <4>2. QED
        BY <2>1, <4>1
    <3>2. QED
      BY <3>1 DEF FirstUses
  <2>3. PICK k \in 1 .. n : pos[k] = m
    BY <2>2 DEF Bijection, Surjection
  <2>4. Unique(tokens)[k] = Normalize(tokens[i])
    BY <1>5, <2>3
  <2>5. QED
    BY <1>7, <2>4 DEF Contains
<1>11. QED
  BY <1>7, <1>9, <1>10

LEMMA TakenTyped ==
    ASSUME NEW e \in Seq(NamesOf), IsInjective(e)
    PROVE  Take(e) \in Seq(NamesOf) /\ IsInjective(Take(e))
<1>1. PICK n \in Nat : n = (IF Len(e) < ProfileLimit THEN Len(e) ELSE ProfileLimit) /\ n <= Len(e)
  BY CandidateAssumption
<1>2. Take(e) = SubSeq(e, 1, n)
  BY <1>1 DEF Take
<1>3. SubSeq(e, 1, n) = [i \in 1 .. n |-> e[i]]
  BY <1>1
<1>4. QED
  BY <1>1, <1>2, <1>3 DEF IsInjective

LEMMA RankedTyped ==
    ASSUME NEW rows \in Seq(Listing)
    PROVE  RankRows(rows) \in Seq(Tokens)
<1> DEFINE WithCap(cap) == ElementsAt(rows, {i \in 1 .. Len(rows) : rows[i].stock /\ rows[i].cap = cap})
<1>1. WithCap(2) \in Seq(Listing) /\ WithCap(1) \in Seq(Listing)
  BY ElementsTyped
<1>2. RankRows(rows) = Symbols(WithCap(2) \o WithCap(1))
  BY DEF RankRows
<1> HIDE DEF WithCap
<1>3. WithCap(2) \o WithCap(1) \in Seq(Listing)
  BY <1>1
<1>4. QED
  BY <1>2, <1>3, SymbolsTyped

\* Whatever a source yields has every symbol once.
LEMMA ListsDistinct ==
    ASSUME NEW e \in EntryLists
    PROVE  e \in Seq(NamesOf) /\ IsInjective(e)
<1>1. CASE e = <<>>
  BY <1>1 DEF IsInjective
<1>2. CASE e \in ParseTickers \union ParseFile
  <2>1. PICK tokens \in BoundedSeq(Tokens, 3) : e = Unique(tokens)
    BY <1>2 DEF ParseTickers, ParseFile
  <2>2. tokens \in Seq(Tokens)
    BY BoundedTyped
  <2>3. QED
    BY <2>1, <2>2, UniqueOnce
<1>3. CASE e \in ProfileTickers
  <2>1. CASE e = Packaged
    <3>1. <<"BRK-B", "ibm">> \in Seq(Tokens)
      BY DEF Tokens
    <3>2. QED
      BY <2>1, <3>1, UniqueOnce DEF Packaged
  <2>2. ASSUME NEW rows \in ScreenerRows, e = SectorCandidates(rows)
        PROVE  e \in Seq(NamesOf) /\ IsInjective(e)
    <3>1. PICK s : s = ElementsAt(rows, {i \in 1 .. Len(rows) : rows[i].sector})
      OBVIOUS
    <3>2. rows \in Seq(Listing)
      BY BoundedTyped DEF ScreenerRows
    <3>3. s \in Seq(Listing)
      BY <3>1, <3>2, ElementsTyped
    <3>4. QED
      BY <2>2, <3>1, <3>3, RankedTyped, UniqueOnce, TakenTyped DEF SectorCandidates
  <2>3. ASSUME NEW rows \in ScreenerRows, NEW lines \in BoundedSeq(DirectoryLine, 1), e = EquityCandidates(rows, lines)
        PROVE  e \in Seq(NamesOf) /\ IsInjective(e)
    <3>1. rows \in Seq(Listing) /\ lines \in Seq(DirectoryLine)
      BY BoundedTyped DEF ScreenerRows
    <3>2. DirectoryTickers(lines) \in Seq(Tokens)
      <4>1. ElementsAt(lines, {i \in 1 .. Len(lines) : lines[i].stock}) \in Seq(DirectoryLine)
        BY <3>1, ElementsTyped
      <4>2. QED
        BY <4>1, SymbolsTyped DEF DirectoryTickers
    <3>3. RankRows(rows) \in Seq(Tokens) /\ RankRows(rows) \o DirectoryTickers(lines) \in Seq(Tokens)
      BY <3>1, <3>2, RankedTyped
    <3>4. PICK names \in Seq(NamesOf) : IsInjective(names) /\ e = Take(names)
      BY <2>3, <3>3, UniqueOnce DEF EquityCandidates
    <3>5. QED
      BY <3>4, TakenTyped
  <2>4. QED
    BY <1>3, <2>1, <2>2, <2>3 DEF ProfileTickers, Resolved
<1>4. QED
  BY <1>1, <1>2, <1>3 DEF EntryLists

\* Entries and row of a universe go together: the entries are those that one source
\* yields, each symbol once, and counted, except in a universe where a patch has saved a
\* stale copy since its entries were last replaced.
THEOREM EntriesMatch == UniverseSpec => []EntriesMatchRow
<1>1. UniverseInv => EntriesMatchRow
  BY ListsDistinct DEF UniverseInv, UniverseTyped, EntriesMatchRow, EntriesDistinct
<1>2. QED
  BY <1>1, UniverseHolds, PTL

\* The rows, their entries and what syncs and requests hold keep their types.
THEOREM UniverseTypes == UniverseSpec => []UniverseTypeOK
<1>1. UniverseInv /\ CopyInv => UniverseTypeOK
  <2> SUFFICES ASSUME UniverseInv, CopyInv
               PROVE  UniverseTypeOK
    OBVIOUS
  <2>1. EntryLists \subseteq Seq({Normalize(t) : t \in Tokens})
    BY ListsDistinct DEF NamesOf
  <2>2. HeldUniverse \subseteq UniverseRow
    <3>1. Counts \subseteq Nat
      BY <2>1 DEF Counts
    <3>2. QED
      BY <3>1 DEF HeldUniverse, UniverseRow
  <2>3. unCopy \in [Patchers -> [id : 0 .. MaxUniverses, row : UniverseRow]]
    <3>1. unCopy \in [Patchers -> [id : Nat, row : HeldUniverse]]
      BY DEF UniverseInv, UniverseTyped
    <3>2. ASSUME NEW q \in Patchers
          PROVE  unCopy[q] \in [id : 0 .. MaxUniverses, row : UniverseRow]
      <4>1. unCopy[q].id = 0 \/ unCopy[q].id \in UniverseIds
        BY DEF CopyInv, CopyOK, NoCopy
      <4>2. unCopy[q].id \in 0 .. MaxUniverses
        BY <4>1, UniverseAssumption DEF UniverseIds
      <4>3. QED
        BY <2>2, <3>1, <4>2
    <3>3. QED
      BY <3>1, <3>2
  <2>4. unSync \in [Syncs -> [creates : BOOLEAN, entries : Seq({Normalize(t) : t \in Tokens})]]
    BY <2>1 DEF UniverseInv, UniverseTyped
  <2>5. QED
    BY <2>1, <2>2, <2>3, <2>4 DEF UniverseInv, UniverseTyped, CopyInv, UniverseTypeOK
<1>2. QED
  BY <1>1, UniverseHolds, PTL

-----------------------------------------------------------------------------
(* Stored files (Artifacts).                                                *)

USE RetentionAssumption

\* Row r's table has been read by the clean-up.
WasRead(r) == \E i \in 1 .. atClean.read : Tables[i] = r

\* Keys are given out once and files are not from the future; what waits for its row is
\* young; the clean-up's cutoff is old.
AgesOK ==
    /\ \A k \in Keys : k > atUsed => atBorn[k] = 0
    /\ \A t \in StoreTasks : atTask[t].pc = "commit" =>
           /\ atTask[t].key # 0 /\ atBorn[atTask[t].key] # 0
           /\ atNow - atBorn[atTask[t].key] < Retention
    /\ atClean.pc # "idle" => atClean.cutoff <= atNow - Retention

\* What the clean-up may delete is old, and it holds the references of every row it has
\* read, unless the row has changed to a young file since.
CleanOK ==
    /\ \A k \in atClean.doomed : atBorn[k] # 0 /\ atBorn[k] <= atClean.cutoff /\ k \notin atClean.kept
    /\ atClean.pc = "unlink" => atClean.read = Len(Tables)
    /\ atClean.pc # "unlink" => atClean.doomed = {}
    /\ \A r \in Rows : atClean.pc # "idle" /\ atRef[r] # 0 /\ WasRead(r) =>
           atRef[r] \in atClean.kept \/ atBorn[atRef[r]] > atClean.cutoff

StoreInv == ArtifactTypeOK /\ AgesOK /\ CleanOK /\ NoDangling

LEMMA TablesFacts == /\ Len(Tables) = 3
                     /\ Rows = {"upload", "screen", "backtest"}
                     /\ Tables[1] = "upload" /\ Tables[2] = "screen" /\ Tables[3] = "backtest"
BY DEF Tables, Rows

LEMMA ThreeTables == Len(Tables) = 3
BY TablesFacts

LEMMA TableRows == \A n \in 0 .. 2 : Tables[n + 1] \in Rows
<1>1. ASSUME NEW n \in 0 .. 2
      PROVE  n = 0 \/ n = 1 \/ n = 2
  OBVIOUS
<1>2. QED
  BY <1>1, TablesFacts

LEMMA EachRowRead == ASSUME NEW r \in Rows, atClean.read = 3
                     PROVE  WasRead(r)
BY TablesFacts DEF WasRead

LEMMA StoreRecords ==
    /\ NotStoring \in StoreTask
    /\ \A r \in Rows : [pc |-> "write", row |-> r, key |-> 0] \in StoreTask
    /\ NotCleaning \in CleanUp
<1>1. "upload" \in Rows
  BY TablesFacts
<1>2. QED
  BY <1>1, ThreeTables DEF NotStoring, StoreTask, NotCleaning, CleanUp

\* What a successful write does.
LEMMA FreshKey ==
    ASSUME ArtifactTypeOK, NEW t \in StoreTasks, WriteFile(t), atDir
    PROVE  \E k \in Keys : /\ k = atUsed' /\ k = atUsed + 1
                           /\ atBorn' = [atBorn EXCEPT ![k] = atNow]
                           /\ atTask' = [atTask EXCEPT ![t] = [atTask[t] EXCEPT !.pc = "commit", !.key = k]]
<1>1. /\ atUsed < MaxKeys /\ atUsed' = atUsed + 1
      /\ atBorn' = [atBorn EXCEPT ![atUsed'] = atNow]
      /\ atTask' = [atTask EXCEPT ![t] = [atTask[t] EXCEPT !.pc = "commit", !.key = atUsed']]
  BY DEF WriteFile, SetStore
<1>2. atUsed' \in Keys
  BY <1>1 DEF ArtifactTypeOK, Keys
<1>3. QED
  BY <1>1, <1>2

LEMMA StoreTyped == ArtifactInit => ArtifactTypeOK
<1> SUFFICES ASSUME ArtifactInit
             PROVE  ArtifactTypeOK
  OBVIOUS
<1> USE DEF ArtifactInit
<1>1. atNow \in 1 .. LastHour /\ atUsed \in 0 .. MaxKeys
  BY RetentionAssumption
<1>b. atDir \in BOOLEAN
  OBVIOUS
<1>2. atBorn \in [Keys -> 0 .. atNow]
  OBVIOUS
<1>3. atRef \in [Rows -> 0 .. MaxKeys]
  OBVIOUS
<1>4. atTask \in [StoreTasks -> StoreTask] /\ atClean \in CleanUp
  BY StoreRecords
<1>5. QED
  BY <1>1, <1>b, <1>2, <1>3, <1>4 DEF ArtifactTypeOK

LEMMA TypeStep == ArtifactTypeOK /\ [ArtifactNext]_artifactVars => ArtifactTypeOK'
<1> SUFFICES ASSUME ArtifactTypeOK, [ArtifactNext]_artifactVars
             PROVE  ArtifactTypeOK'
  OBVIOUS
<1> USE DEF ArtifactTypeOK
<1>1. CASE UNCHANGED artifactVars
  BY <1>1 DEF artifactVars
<1>2. CASE Hourly
  <2>1. atBorn' \in [Keys -> 0 .. atNow']
    BY <1>2 DEF Hourly
  <2>2. QED
    BY <1>2, <2>1 DEF Hourly
<1>3. ASSUME NEW t \in StoreTasks, MakeDirectory(t)
      PROVE  ArtifactTypeOK'
  <2>1. PICK r \in Rows : SetStore(t, [pc |-> "write", row |-> r, key |-> 0])
    BY <1>3 DEF MakeDirectory
  <2>2. atTask' \in [StoreTasks -> StoreTask]
    BY <2>1, StoreRecords DEF SetStore
  <2>3. QED
    BY <1>3, <2>2 DEF MakeDirectory
<1>4. ASSUME NEW t \in StoreTasks, WriteFile(t)
      PROVE  ArtifactTypeOK'
  <2>1. CASE atDir
    <3>1. PICK k \in Keys : /\ k = atUsed' /\ k = atUsed + 1
                            /\ atBorn' = [atBorn EXCEPT ![k] = atNow]
                            /\ atTask' = [atTask EXCEPT ![t] = [atTask[t] EXCEPT !.pc = "commit", !.key = k]]
      BY <1>4, <2>1, FreshKey
    <3>2. [atTask[t] EXCEPT !.pc = "commit", !.key = k] \in StoreTask
      <4>1. atTask[t] \in StoreTask /\ k \in 0 .. MaxKeys
        BY DEF Keys
      <4>2. QED
        BY <4>1 DEF StoreTask
    <3>3. atTask' \in [StoreTasks -> StoreTask]
      BY <3>1, <3>2
    <3>4. atBorn' \in [Keys -> 0 .. atNow]
      BY <3>1
    <3>5. QED
      BY <1>4, <3>1, <3>3, <3>4 DEF WriteFile, Keys
  <2>2. CASE ~atDir
    BY <1>4, <2>2, StoreRecords DEF WriteFile, SetStore
  <2>3. QED
    BY <2>1, <2>2
<1>5. ASSUME NEW t \in StoreTasks, CommitReference(t)
      PROVE  ArtifactTypeOK'
  <2>1. atTask[t].key \in 0 .. MaxKeys /\ atTask[t].row \in Rows
    BY DEF StoreTask
  <2>2. atRef' \in [Rows -> 0 .. MaxKeys]
    BY <1>5, <2>1 DEF CommitReference
  <2>3. atTask' \in [StoreTasks -> StoreTask]
    BY <1>5, StoreRecords DEF CommitReference, SetStore
  <2>4. QED
    BY <1>5, <2>2, <2>3 DEF CommitReference
<1>6. ASSUME NEW t \in StoreTasks, AbandonStore(t)
      PROVE  ArtifactTypeOK'
  BY <1>6, StoreRecords DEF AbandonStore, SetStore
<1>7. CASE StartCleanup
  <2>1. atNow - Retention \in Int
    OBVIOUS
  <2>2. [NotCleaning EXCEPT !.pc = "read", !.cutoff = atNow - Retention] \in CleanUp
    BY <2>1, StoreRecords DEF CleanUp
  <2>3. QED
    BY <1>7, <2>2 DEF StartCleanup
<1>8. CASE ReadReferences
  <2>1. PICK n \in 0 .. 2 : n = atClean.read
    BY <1>8, ThreeTables DEF ReadReferences, CleanUp
  <2>2. PICK r \in Rows : r = Tables[n + 1]
    BY TableRows
  <2>3. atClean' = [atClean EXCEPT !.read = n + 1, !.kept = @ \union ({atRef[r]} \ {0})]
    BY <1>8, <2>1, <2>2 DEF ReadReferences
  <2>4. {atRef[r]} \ {0} \subseteq Keys
    BY DEF Keys
  <2>5. n + 1 \in 0 .. Len(Tables)
    BY ThreeTables
  <2>6. atClean' \in CleanUp
    BY <2>3, <2>4, <2>5 DEF CleanUp
  <2>7. QED
    BY <1>8, <2>6 DEF ReadReferences
<1>9. CASE ListFiles
  <2>1. [atClean EXCEPT !.pc = "unlink", !.doomed = Orphaned] \in CleanUp
    BY DEF CleanUp, Orphaned
  <2>2. QED
    BY <1>9, <2>1, StoreRecords DEF ListFiles
<1>10. ASSUME NEW k \in Keys, Unlink(k)
       PROVE  ArtifactTypeOK'
  <2>1. [atClean EXCEPT !.doomed = @ \ {k}] \in CleanUp
    BY DEF CleanUp
  <2>2. atBorn' \in [Keys -> 0 .. atNow]
    BY <1>10 DEF Unlink
  <2>3. QED
    BY <1>10, <2>1, <2>2 DEF Unlink
<1>11. CASE RemoveDirectory
  BY <1>11, StoreRecords DEF RemoveDirectory
<1>12. CASE AbortCleanup
  BY <1>12, StoreRecords DEF AbortCleanup
<1>13. QED
  BY <1>1, <1>2, <1>3, <1>4, <1>5, <1>6, <1>7, <1>8, <1>9, <1>10, <1>11, <1>12 DEF ArtifactNext

\* Every variable keeps its type: above all the keys, which rows refer to.
THEOREM ArtifactTypes == ArtifactSpec => []ArtifactTypeOK
BY StoreTyped, TypeStep, PTL DEF ArtifactSpec

-----------------------------------------------------------------------------
LEMMA StoreInit == ArtifactInit => StoreInv
<1> SUFFICES ASSUME ArtifactInit
             PROVE  StoreInv
  OBVIOUS
<1>1. AgesOK
  BY DEF ArtifactInit, AgesOK, NotStoring, NotCleaning
<1>2. CleanOK
  BY DEF ArtifactInit, CleanOK, NotCleaning
<1>3. NoDangling
  BY DEF ArtifactInit, NoDangling
<1>4. QED
  BY <1>1, <1>2, <1>3, StoreTyped DEF StoreInv

LEMMA AgesStep == StoreInv /\ [ArtifactNext]_artifactVars => AgesOK'
<1> SUFFICES ASSUME StoreInv, [ArtifactNext]_artifactVars
             PROVE  AgesOK'
  OBVIOUS
<1> USE DEF StoreInv, ArtifactTypeOK, AgesOK
<1>1. CASE UNCHANGED artifactVars
  BY <1>1 DEF artifactVars
<1>2. CASE Hourly
  BY <1>2 DEF Hourly, CleanUp
<1>3. ASSUME NEW t \in StoreTasks, MakeDirectory(t)
      PROVE  AgesOK'
  <2>1. PICK r \in Rows : atTask' = [atTask EXCEPT ![t] = [pc |-> "write", row |-> r, key |-> 0]]
    BY <1>3 DEF MakeDirectory, SetStore
  <2>2. QED
    BY <1>3, <2>1 DEF MakeDirectory
<1>4. ASSUME NEW t \in StoreTasks, WriteFile(t), atDir
      PROVE  AgesOK'
  <2>1. PICK k \in Keys : /\ k = atUsed' /\ k = atUsed + 1
                          /\ atBorn' = [atBorn EXCEPT ![k] = atNow]
                          /\ atTask' = [atTask EXCEPT ![t] = [atTask[t] EXCEPT !.pc = "commit", !.key = k]]
    BY <1>4, FreshKey
  <2>2. \A l \in Keys : l > atUsed' => atBorn'[l] = 0
    BY <2>1 DEF Keys
  <2>3. ASSUME NEW u \in StoreTasks, atTask'[u].pc = "commit"
        PROVE  /\ atTask'[u].key # 0 /\ atBorn'[atTask'[u].key] # 0
               /\ atNow - atBorn'[atTask'[u].key] < Retention
    <3>1. CASE u = t
      <4>1. atTask'[u].key = k
        BY <2>1, <3>1 DEF StoreTask
      <4>2. atBorn'[k] = atNow
        BY <2>1
      <4>3. QED
        BY <4>1, <4>2 DEF Keys
    <3>2. CASE u # t
      <4>1. atTask'[u] = atTask[u]
        BY <2>1, <3>2
      <4>2. PICK l \in Keys : l = atTask[u].key
        BY <2>3, <4>1 DEF StoreTask, Keys
      <4>3. atBorn[l] # 0
        BY <2>3, <4>1, <4>2
      <4>4. l # k
        BY <2>1, <4>3 DEF Keys
      <4>5. atBorn'[l] = atBorn[l]
        BY <2>1, <4>4
      <4>6. QED
        BY <2>3, <4>1, <4>2, <4>5
    <3>3. QED
      BY <3>1, <3>2
  <2>4. QED
    BY <1>4, <2>2, <2>3 DEF WriteFile
<1>5. ASSUME NEW t \in StoreTasks, WriteFile(t), ~atDir
      PROVE  AgesOK'
  BY <1>5 DEF WriteFile, SetStore, NotStoring
<1>6. ASSUME NEW t \in StoreTasks, CommitReference(t) \/ AbandonStore(t)
      PROVE  AgesOK'
  BY <1>6 DEF CommitReference, AbandonStore, SetStore, NotStoring
<1>7. CASE StartCleanup
  BY <1>7 DEF StartCleanup, NotCleaning
<1>8. CASE ReadReferences
  BY <1>8 DEF ReadReferences, CleanUp
<1>9. CASE ListFiles
  <2>1. CASE atClean' = NotCleaning
    BY <1>9, <2>1 DEF ListFiles, NotCleaning
  <2>2. CASE atClean' = [atClean EXCEPT !.pc = "unlink", !.doomed = Orphaned]
    <3>1. atClean'.cutoff = atClean.cutoff /\ atClean.pc # "idle"
      BY <1>9, <2>2 DEF ListFiles, CleanUp
    <3>2. QED
      BY <1>9, <3>1 DEF ListFiles
  <2>3. QED
    BY <1>9, <2>1, <2>2 DEF ListFiles
<1>10. ASSUME NEW k \in Keys, Unlink(k)
       PROVE  AgesOK'
  <2>1. atBorn' = [atBorn EXCEPT ![k] = 0] /\ atTask' = atTask /\ atNow' = atNow /\ atUsed' = atUsed
    BY <1>10 DEF Unlink
  <2>2. atBorn[k] <= atNow - Retention
    BY <1>10 DEF Unlink, CleanOK, CleanUp
  <2>3. atClean'.cutoff = atClean.cutoff /\ atClean'.pc = atClean.pc
    BY <1>10 DEF Unlink, CleanUp
  <2>4. ASSUME NEW u \in StoreTasks, atTask[u].pc = "commit"
        PROVE  /\ atTask[u].key # 0 /\ atBorn'[atTask[u].key] # 0
               /\ atNow - atBorn'[atTask[u].key] < Retention
    <3>1. PICK l \in Keys : l = atTask[u].key
      BY <2>4 DEF StoreTask, Keys
    <3>2. l # k
      BY <2>2, <2>4, <3>1
    <3>3. QED
      BY <2>1, <2>4, <3>1, <3>2
  <2>5. QED
    BY <2>1, <2>3, <2>4 DEF Keys
<1>11. CASE RemoveDirectory \/ AbortCleanup
  BY <1>11 DEF RemoveDirectory, AbortCleanup, NotCleaning
<1>12. QED
  BY <1>1, <1>2, <1>3, <1>4, <1>5, <1>6, <1>7, <1>8, <1>9, <1>10, <1>11 DEF ArtifactNext

\* Row r refers to a file too young for the clean-up.
Young(r) == \E k \in Keys : k = atRef[r] /\ atBorn[k] > atNow - Retention /\ atBorn[k] # 0

\* What an attempt's step leaves alone of what the clean-up relies on.
LEMMA StoresKeep ==
    ASSUME StoreInv, NEW t \in StoreTasks,
           MakeDirectory(t) \/ WriteFile(t) \/ CommitReference(t) \/ AbandonStore(t)
    PROVE  /\ atClean' = atClean /\ atNow' = atNow
           /\ \A k \in Keys : atBorn[k] # 0 => atBorn'[k] = atBorn[k]
           /\ \A r \in Rows : atRef'[r] = atRef[r] \/ Young(r)'
<1>0. ArtifactTypeOK /\ AgesOK
  BY DEF StoreInv
<1>1. atClean' = atClean /\ atNow' = atNow
  BY DEF MakeDirectory, WriteFile, CommitReference, AbandonStore
<1>2. ASSUME NEW k \in Keys, atBorn[k] # 0
      PROVE  atBorn'[k] = atBorn[k]
  <2>1. CASE ~WriteFile(t) \/ ~atDir
    BY <2>1 DEF MakeDirectory, WriteFile, CommitReference, AbandonStore
  <2>2. CASE WriteFile(t) /\ atDir
    <3>1. PICK l \in Keys : l = atUsed + 1 /\ atBorn' = [atBorn EXCEPT ![l] = atNow]
      BY <1>0, <2>2, FreshKey
    <3>2. atBorn[l] = 0
      BY <1>0, <3>1 DEF AgesOK, ArtifactTypeOK
    <3>3. QED
      BY <1>0, <1>2, <3>1, <3>2 DEF ArtifactTypeOK
  <2>3. QED
    BY <2>1, <2>2
<1>3. ASSUME NEW r \in Rows
      PROVE  atRef'[r] = atRef[r] \/ Young(r)'
  <2>1. CASE ~CommitReference(t)
    <3>1. atRef' = atRef
      BY <2>1 DEF MakeDirectory, WriteFile, AbandonStore
    <3>2. QED
      BY <3>1
  <2>2. CASE CommitReference(t)
    <3>1. PICK k \in Keys : k = atTask[t].key
      BY <1>0, <2>2 DEF CommitReference, StoreTask, AgesOK, Keys, ArtifactTypeOK
    <3>2. atBorn[k] # 0 /\ atBorn[k] > atNow - Retention
      BY <1>0, <2>2, <3>1 DEF CommitReference, AgesOK, ArtifactTypeOK
    <3>3. atRef' = [atRef EXCEPT ![atTask[t].row] = k] /\ atBorn' = atBorn
      BY <2>2, <3>1 DEF CommitReference
    <3>4. atRef'[r] = atRef[r] \/ atRef'[r] = k
      BY <1>0, <3>3 DEF ArtifactTypeOK
    <3>5. atBorn'[k] # 0 /\ atBorn'[k] > atNow' - Retention
      BY <1>1, <3>2, <3>3
    <3>6. CASE atRef'[r] = k
      BY <3>5, <3>6 DEF Young
    <3>7. QED
      BY <3>4, <3>6
  <2>3. QED
    BY <2>1, <2>2
<1>4. QED
  BY <1>1, <1>2, <1>3

LEMMA CleanStep == StoreInv /\ [ArtifactNext]_artifactVars => CleanOK' /\ NoDangling'
<1> SUFFICES ASSUME StoreInv, [ArtifactNext]_artifactVars
             PROVE  CleanOK' /\ NoDangling'
  OBVIOUS
<1> USE DEF StoreInv, CleanOK, NoDangling, WasRead
<1>0. ArtifactTypeOK
  OBVIOUS
<1>1. CASE UNCHANGED artifactVars \/ Hourly
  BY <1>1 DEF artifactVars, Hourly
<1>2. ASSUME NEW t \in StoreTasks,
             MakeDirectory(t) \/ WriteFile(t) \/ CommitReference(t) \/ AbandonStore(t)
      PROVE  CleanOK' /\ NoDangling'
  <2>1. \A r \in Rows : atRef[r] # 0 => atRef[r] \in Keys
    BY <1>0 DEF ArtifactTypeOK, Keys
  <2>2. atClean.doomed \subseteq Keys /\ atClean.cutoff \in Int
    BY <1>0 DEF ArtifactTypeOK, CleanUp
  <2>3. ASSUME NEW r \in Rows, atRef'[r] # 0
        PROVE  atBorn'[atRef'[r]] # 0
    <3>1. CASE atRef'[r] = atRef[r]
      <4>1. PICK k \in Keys : k = atRef[r]
        BY <2>1, <2>3, <3>1
      <4>2. atBorn[k] # 0
        BY <2>3, <3>1, <4>1
      <4>3. atBorn'[k] = atBorn[k]
        BY <1>2, <4>2, StoresKeep
      <4>4. QED
        BY <3>1, <4>1, <4>2, <4>3
    <3>2. CASE Young(r)'
      BY <3>2 DEF Young
    <3>3. QED
      BY <1>2, <3>1, <3>2, StoresKeep
  <2>4. \A k \in atClean.doomed : atBorn'[k] = atBorn[k]
    BY <1>2, <2>2, StoresKeep
  <2>5. \A r \in Rows : atClean.pc # "idle" /\ atRef'[r] # 0 /\ WasRead(r) =>
            atRef'[r] \in atClean.kept \/ atBorn'[atRef'[r]] > atClean.cutoff
    <3>1. SUFFICES ASSUME NEW r \in Rows, atClean.pc # "idle", atRef'[r] # 0, WasRead(r)
                   PROVE  atRef'[r] \in atClean.kept \/ atBorn'[atRef'[r]] > atClean.cutoff
      OBVIOUS
    <3>2. CASE atRef'[r] = atRef[r]
      BY <1>2, <2>1, <3>1, <3>2, StoresKeep
    <3>3. CASE atRef'[r] # atRef[r]
      <4>0. Young(r)' /\ atNow' = atNow
        BY <1>2, <3>3, StoresKeep
      <4>1. PICK k \in Keys : k = atRef'[r] /\ atBorn'[k] > atNow - Retention
        BY <4>0 DEF Young
      <4>2. atBorn' \in [Keys -> Int] /\ atNow \in Int /\ atClean.cutoff <= atNow - Retention
        BY <1>0, <3>1, TypeStep DEF AgesOK, ArtifactTypeOK
      <4>3. atBorn'[k] > atClean.cutoff
        BY <2>2, <4>1, <4>2
      <4>4. QED
        BY <4>1, <4>3
    <3>4. QED
      BY <3>2, <3>3
  <2>6. QED
    BY <1>2, <2>3, <2>4, <2>5, StoresKeep
<1>3. CASE StartCleanup
  BY <1>3 DEF StartCleanup, NotCleaning
<1>4. CASE RemoveDirectory \/ AbortCleanup
  BY <1>4 DEF RemoveDirectory, AbortCleanup, NotCleaning
<1>5. CASE ReadReferences
  <2>1. PICK n \in 0 .. 2 : n = atClean.read
    BY <1>0, <1>5, ThreeTables DEF ReadReferences, ArtifactTypeOK, CleanUp
  <2>q. PICK q \in Rows : q = Tables[n + 1]
    BY TableRows
  <2>2. /\ q = Tables[n + 1]
        /\ atClean' = [atClean EXCEPT !.read = n + 1, !.kept = @ \union ({atRef[q]} \ {0})]
    BY <1>5, <2>1, <2>q DEF ReadReferences
  <2>3. /\ atClean'.kept = atClean.kept \union ({atRef[q]} \ {0})
        /\ atClean'.read = n + 1 /\ atClean'.pc = "read" /\ atClean.pc = "read"
        /\ atClean'.cutoff = atClean.cutoff /\ atClean'.doomed = {}
    BY <1>0, <1>5, <2>2 DEF ReadReferences, ArtifactTypeOK, CleanUp
  <2>4. ASSUME NEW r \in Rows, NEW i \in 1 .. n + 1, Tables[i] = r, atRef[r] # 0
        PROVE  atRef[r] \in atClean'.kept \/ atBorn[atRef[r]] > atClean.cutoff
    <3>1. CASE i = n + 1
      BY <2>2, <2>3, <2>4, <3>1
    <3>2. CASE i # n + 1
      <4>1. i \in 1 .. atClean.read
        BY <2>1, <3>2
      <4>2. QED
        BY <2>3, <2>4, <4>1
    <3>3. QED
      BY <3>1, <3>2
  <2>5. QED
    BY <1>5, <2>3, <2>4 DEF ReadReferences
<1>6. CASE ListFiles
  <2>1. CASE atClean' = NotCleaning
    BY <1>6, <2>1 DEF ListFiles, NotCleaning
  <2>2. CASE atClean' = [atClean EXCEPT !.pc = "unlink", !.doomed = Orphaned]
    <3>1. /\ atClean'.kept = atClean.kept /\ atClean'.read = atClean.read /\ atClean'.pc = "unlink"
          /\ atClean'.cutoff = atClean.cutoff /\ atClean'.doomed = Orphaned
      BY <1>0, <2>2 DEF ArtifactTypeOK, CleanUp
    <3>2. QED
      BY <1>6, <3>1 DEF ListFiles, Orphaned
  <2>3. QED
    BY <1>6, <2>1, <2>2 DEF ListFiles
<1>7. ASSUME NEW k \in Keys, Unlink(k)
      PROVE  CleanOK' /\ NoDangling'
  <2>1. /\ atClean'.kept = atClean.kept /\ atClean'.read = atClean.read /\ atClean'.pc = "unlink"
        /\ atClean'.cutoff = atClean.cutoff /\ atClean'.doomed = atClean.doomed \ {k}
        /\ atClean.pc = "unlink" /\ atRef' = atRef /\ atBorn' = [atBorn EXCEPT ![k] = 0]
    BY <1>0, <1>7 DEF Unlink, ArtifactTypeOK, CleanUp
  <2>2. atClean.read = 3
    BY <2>1, ThreeTables
  <2>3. atBorn[k] <= atClean.cutoff /\ k \notin atClean.kept
    BY <1>7 DEF Unlink
  <2>4. atBorn \in [Keys -> Int] /\ atClean.doomed \subseteq Keys /\ atClean.cutoff \in Int
    BY <1>0 DEF ArtifactTypeOK, CleanUp
  <2>5. ASSUME NEW r \in Rows, atRef[r] # 0
        PROVE  atRef[r] \in Keys /\ atRef[r] # k
    <3>1. atRef[r] \in Keys
      BY <1>0, <2>5 DEF ArtifactTypeOK, Keys
    <3>2. atRef[r] \in atClean.kept \/ atBorn[atRef[r]] > atClean.cutoff
      BY <2>1, <2>2, <2>5, EachRowRead
    <3>3. QED
      BY <2>3, <2>4, <3>1, <3>2
  <2>6. \A r \in Rows : atRef[r] # 0 => atBorn'[atRef[r]] = atBorn[atRef[r]]
    BY <2>1, <2>4, <2>5
  <2>7. \A l \in atClean.doomed \ {k} : atBorn'[l] = atBorn[l]
    BY <2>1, <2>4
  <2>8. QED
    BY <2>1, <2>6, <2>7, ThreeTables
<1>8. QED
  BY <1>1, <1>2, <1>3, <1>4, <1>5, <1>6, <1>7 DEF ArtifactNext

\* Every committed reference has its file, whatever attempts, crashes and clean-ups
\* interleave, while a file waits for its row for less than the retention time.
THEOREM ReferencesHold == ArtifactSpec => []NoDangling
<1>1. StoreInv => NoDangling
  BY DEF StoreInv
<1>2. StoreInv /\ [ArtifactNext]_artifactVars => StoreInv'
  BY TypeStep, AgesStep, CleanStep DEF StoreInv
<1>3. QED
  BY <1>1, <1>2, StoreInit, PTL DEF ArtifactSpec

-----------------------------------------------------------------------------
(* The five parts together (MCWorkspaceData).                              *)

\* Each part of an instance behaves as its specification alone.
LEMMA DataPartsBehave ==
    DataSpec => LinkSpec /\ ReviewSpec /\ CurationSpec /\ UniverseSpec /\ ArtifactSpec
<1>1. DataInit => LinkInit /\ ReviewInit /\ CurationInit /\ UniverseInit /\ ArtifactInit
  BY DEF DataInit
<1>2. [DataNext]_<<part, linkVars, reviewVars, curationVars, universeVars, artifactVars>> =>
          /\ [LinkNext]_linkVars /\ [ReviewNext]_reviewVars /\ [CurationNext]_curationVars
          /\ [UniverseNext]_universeVars /\ [ArtifactNext]_artifactVars
  BY DEF DataNext, LinksPart, ReviewsPart, CurationPart, UniversesPart, ArtifactsPart
<1>3. QED
  BY <1>1, <1>2, PTL DEF DataSpec, LinkSpec, ReviewSpec, CurationSpec, UniverseSpec, ArtifactSpec

\* Links, reviews, collections, universes and stored files keep their types in whatever
\* order requests, syncs and tasks run, crash and save old copies.
THEOREM DataTypes == DataSpec => []DataTypeOK
<1>1. LinkTypeOK /\ ReviewTypeOK /\ CurationTypeOK /\ UniverseTypeOK /\ ArtifactTypeOK => DataTypeOK
  BY DEF DataTypeOK
<1>2. QED
  BY <1>1, DataPartsBehave, LinkTypes, ReviewTypes, CurationTypes, UniverseTypes, ArtifactTypes, PTL

=============================================================================
