------------------------------ MODULE Curation ------------------------------
(***************************************************************************)
(* A comment, a collection and its items, and the activity log              *)
(* (apps.collaboration).  What is created or changed is recorded            *)
(* afterwards, what is deleted before; a request may die in between, and    *)
(* others work on the same rows.  save() of a deleted row inserts it again. *)
(*                                                                         *)
(* One comment and one collection; ItemIds are its items' ids in the order  *)
(* of their creation.                                                       *)
(***************************************************************************)
EXTENDS Naturals, FiniteSets

CONSTANTS
    Curators,       \* requests of analysts, in flight at once
    Contents,       \* resources that can be put into the collection
    MaxItems        \* bound: items ever added

ASSUME CurationAssumption == MaxItems \in Nat \ {0} /\ Contents # {}

VARIABLES
    cuRows,     \* which of the comment and the collection exist
    cuItems,    \* the WorkspaceCollectionItem rows of the collection
    cuLog,      \* the ActivityEvent rows of deletions: the objects recorded as deleted
    cuReq,      \* the requests
    cuEver,     \* history: every object that ever existed
    cuNextId,   \* the id of the next item
    cuMoved     \* history: an item was deleted, restored or placed by hand

curationVars == <<cuRows, cuItems, cuLog, cuReq, cuEver, cuNextId, cuMoved>>

-----------------------------------------------------------------------------
ItemIds == 1 .. MaxItems
Comment == MaxItems + 1
Collection == MaxItems + 2
Singles == {Comment, Collection}
Objects == Singles \union ItemIds
Deeds == {"create", "change", "delete"}

\* before: the items that were there when its place was counted (history).
Items == [id : ItemIds, content : Contents, position : 1 .. MaxItems + 1, before : SUBSET ItemIds]
NoItem == [id |-> 1, content |-> CHOOSE c \in Contents : TRUE, position |-> 1, before |-> {}]

\* item: the copy of the item it will insert or save.
CurationRequest == [pc : {"idle", "write", "log", "remove"}, deed : Deeds, object : Objects,
                    item : Items]
Resting == [pc |-> "idle", deed |-> "create", object |-> Comment, item |-> NoItem]

Present == cuRows \union {i.id : i \in cuItems}

\* uniq_collection_item_resource and the key to the collection
CanInsert(item) == /\ Collection \in cuRows
                   /\ \A i \in cuItems : i.id # item.id => i.content # item.content

Begin(q, pc, deed, object, item) ==
    cuReq' = [cuReq EXCEPT ![q] = [pc |-> pc, deed |-> deed, object |-> object, item |-> item]]

-----------------------------------------------------------------------------
(* Plausible slips.                                                         *)

\* An item gets the field's default position.
SlipNextPosition == 1

\* An update leaves the old row beside the new one.
SlipWithout(id) == cuItems

\* A deletion deletes first and records then.
SlipBeginDeletion(q, o) ==
    /\ cuReq[q].pc = "idle" /\ o \in Present
    /\ Begin(q, "log", "delete", o, NoItem)
    /\ cuRows' = cuRows \ {o}
    /\ cuItems' = IF o = Collection THEN {} ELSE {i \in cuItems : i.id # o}
    /\ cuMoved' = (cuMoved \/ o \notin {Comment})
    /\ UNCHANGED <<cuLog, cuEver, cuNextId>>

-----------------------------------------------------------------------------
\* next_position: after all items there are.
NextPosition == Cardinality(cuItems) + 1

\* The items but the one with this id.
Without(id) == {i \in cuItems : i.id # id}

CurationInit ==
    /\ cuRows = {}
    /\ cuItems = {}
    /\ cuLog = {}
    /\ cuReq = [q \in Curators |-> Resting]
    /\ cuEver = {}
    /\ cuNextId = 1
    /\ cuMoved = FALSE

CreateSingle(q, o) ==
    /\ cuReq[q].pc = "idle" /\ o \notin cuEver
    /\ cuRows' = cuRows \union {o}
    /\ cuEver' = cuEver \union {o}
    /\ Begin(q, "log", "create", o, NoItem)
    /\ UNCHANGED <<cuItems, cuLog, cuNextId, cuMoved>>

\* CommentListCreateView.post, CollectionListCreateView.post
CreateComment(q) == CreateSingle(q, Comment)
CreateCollection(q) == CreateSingle(q, Collection)

\* CollectionItemCreateView.post: the place is submitted or counted ...
PlaceItem(q) ==
    /\ cuReq[q].pc = "idle" /\ Collection \in cuRows
    /\ \E c \in Contents, hand \in BOOLEAN, p \in 1 .. MaxItems :
           /\ Begin(q, "write", "create", 1,
                    [id |-> 1, content |-> c, position |-> IF hand THEN p ELSE NextPosition,
                     before |-> {i.id : i \in cuItems}])
           /\ cuMoved' = (cuMoved \/ hand)
    /\ UNCHANGED <<cuRows, cuItems, cuLog, cuEver, cuNextId>>

\* ... and the item inserted, if the constraints allow it.
InsertItem(q) ==
    /\ cuReq[q].pc = "write" /\ cuReq[q].deed = "create" /\ cuNextId \in ItemIds
    /\ LET new == [cuReq[q].item EXCEPT !.id = cuNextId]
       IN  IF CanInsert(new)
           THEN /\ cuItems' = cuItems \union {new}
                /\ cuEver' = cuEver \union {cuNextId}
                /\ Begin(q, "log", "create", cuNextId, NoItem)
           ELSE UNCHANGED <<cuItems, cuEver>> /\ cuReq' = [cuReq EXCEPT ![q] = Resting]
    /\ cuNextId' = cuNextId + 1
    /\ UNCHANGED <<cuRows, cuLog, cuMoved>>

\* CollectionDetailView.patch loads the collection ...
LoadCollection(q) ==
    /\ cuReq[q].pc = "idle" /\ Collection \in cuRows
    /\ Begin(q, "write", "change", Collection, NoItem)
    /\ UNCHANGED <<cuRows, cuItems, cuLog, cuEver, cuNextId, cuMoved>>

\* ... and saves every column of it, which may bring it back.
SaveCollection(q) ==
    /\ cuReq[q].pc = "write" /\ cuReq[q].deed = "change" /\ cuReq[q].object = Collection
    /\ cuRows' = cuRows \union {Collection}
    /\ cuReq' = [cuReq EXCEPT ![q].pc = "log"]
    /\ UNCHANGED <<cuItems, cuLog, cuEver, cuNextId, cuMoved>>

\* CollectionItemDetailView.patch: the same with an item, within the constraints.
LoadItem(q) ==
    /\ cuReq[q].pc = "idle"
    /\ \E i \in cuItems : Begin(q, "write", "change", i.id, i)
    /\ UNCHANGED <<cuRows, cuItems, cuLog, cuEver, cuNextId, cuMoved>>

SaveItem(q) ==
    LET r == cuReq[q]
    IN  /\ r.pc = "write" /\ r.deed = "change" /\ r.object \in ItemIds
        /\ \E p \in 1 .. MaxItems \union {r.item.position} :
               LET new == [r.item EXCEPT !.position = p]
               IN  IF CanInsert(new)
                   THEN /\ cuItems' = Without(r.object) \union {new}
                        /\ cuMoved' = (cuMoved \/ cuItems' # cuItems)
                        /\ cuReq' = [cuReq EXCEPT ![q].pc = "log"]
                   ELSE /\ UNCHANGED <<cuItems, cuMoved>>
                        /\ cuReq' = [cuReq EXCEPT ![q] = Resting]
        /\ UNCHANGED <<cuRows, cuLog, cuEver, cuNextId>>

\* A deletion records first.
BeginDeletion(q, o) ==
    /\ cuReq[q].pc = "idle" /\ o \in Present
    /\ Begin(q, "log", "delete", o, NoItem)
    /\ UNCHANGED <<cuRows, cuItems, cuLog, cuEver, cuNextId, cuMoved>>

\* The DELETE views; the comment's asks for its author or an administrator.
DeleteComment(q) == BeginDeletion(q, Comment)
DeleteCollection(q) == BeginDeletion(q, Collection)
DeleteItem(q) == \E i \in ItemIds : BeginDeletion(q, i)

\* record_activity
RecordActivity(q) ==
    /\ cuReq[q].pc = "log"
    /\ cuLog' = IF cuReq[q].deed = "delete" THEN cuLog \union {cuReq[q].object} ELSE cuLog
    /\ cuReq' = IF cuReq[q].deed = "delete" THEN [cuReq EXCEPT ![q].pc = "remove"]
                ELSE [cuReq EXCEPT ![q] = Resting]
    /\ UNCHANGED <<cuRows, cuItems, cuEver, cuNextId, cuMoved>>

\* The row is deleted, a collection with its items.
RemoveObject(q) ==
    LET o == cuReq[q].object
    IN  /\ cuReq[q].pc = "remove"
        /\ cuRows' = cuRows \ {o}
        /\ cuItems' = IF o = Collection THEN {} ELSE Without(o)
        /\ cuMoved' = (cuMoved \/ cuItems' # cuItems)
        /\ cuReq' = [cuReq EXCEPT ![q] = Resting]
        /\ UNCHANGED <<cuLog, cuEver, cuNextId>>

\* The web process dies.
CrashCurator(q) ==
    /\ cuReq[q].pc # "idle"
    /\ cuReq' = [cuReq EXCEPT ![q] = Resting]
    /\ UNCHANGED <<cuRows, cuItems, cuLog, cuEver, cuNextId, cuMoved>>

CurationNext ==
    \E q \in Curators :
        \/ CreateComment(q) \/ CreateCollection(q) \/ PlaceItem(q) \/ InsertItem(q)
        \/ LoadCollection(q) \/ SaveCollection(q) \/ LoadItem(q) \/ SaveItem(q)
        \/ DeleteComment(q) \/ DeleteCollection(q) \/ DeleteItem(q)
        \/ RecordActivity(q) \/ RemoveObject(q) \/ CrashCurator(q)

CurationSpec == CurationInit /\ [][CurationNext]_curationVars

-----------------------------------------------------------------------------
(* Properties.                                                              *)

\* The variables keep their types, and an id stands for one item.
CurationTypeOK ==
    /\ cuRows \subseteq Singles
    /\ cuItems \subseteq Items /\ \A i, j \in cuItems : i.id = j.id => i = j
    /\ cuLog \subseteq Objects /\ cuEver \subseteq Objects
    /\ cuReq \in [Curators -> CurationRequest]
    /\ cuNextId \in 1 .. MaxItems + 1
    /\ cuMoved \in BOOLEAN

\* Nothing disappears without a trace: what existed and is gone was recorded as deleted,
\* an item perhaps with its collection, whoever crashed or wrote meanwhile (the DELETE
\* views record first).
DeletionsAreLogged ==
    \A o \in cuEver \ Present :
        o \in cuLog \/ (o \in ItemIds /\ Collection \in cuLog)

\* While nobody deletes items or places them by hand, an item comes after all that were
\* there when its place was counted (collection.items.count() + 1), also when additions
\* overlap and two items share a place.
AppendedLast ==
    ~cuMoved => \A i, j \in cuItems : i.id \in j.before => i.position < j.position

=============================================================================
