----------------------------- MODULE Universes -----------------------------
(***************************************************************************)
(* The universes of a workspace that stem from one built-in profile, and    *)
(* those its members make (apps.universes).  Members patch a universe from  *)
(* the copy their request loaded; the sync of the built-in profiles, run    *)
(* when a workspace is made and when a server starts, updates the system's  *)
(* universe of the profile under a row lock, or creates it.  The entries    *)
(* are replaced in the transaction that saves the row.                      *)
(***************************************************************************)
EXTENDS Candidates

CONSTANTS
    Syncs,          \* executions of sync_builtin_universes
    Patchers,       \* requests of analysts
    MaxUniverses    \* bound: universes ever made

ASSUME UniverseAssumption == MaxUniverses \in Nat

VARIABLES
    unRows,      \* the Universe rows
    unEntries,   \* their UniverseEntry rows, in the order of their positions
    unMade,      \* how many ids the database has given out
    unSync,      \* what each sync is about to create
    unCopy,      \* the id each request patches and the row it loaded
    unRaced,     \* history: two first syncs overlapped
    unSeized,    \* history: a member changed the source of a system universe, or brought one back
    unStale      \* history: the universes whose row is that of a copy older than the entries

universeVars == <<unRows, unEntries, unMade, unSync, unCopy, unRaced, unSeized, unStale>>

-----------------------------------------------------------------------------
UniverseIds == 1 .. MaxUniverses
\* given: typed in or uploaded, which differ in where the tickers come from.
Sources == {"built_in", "given"}

\* profile: profile_key is the profile's, else it is empty.
UniverseRow == [exists : BOOLEAN, system : BOOLEAN, source : Sources, profile : BOOLEAN, count : Nat]
NoUniverse == [exists |-> FALSE, system |-> FALSE, source |-> "given", profile |-> FALSE, count |-> 0]
NoCopy == [id |-> 0, row |-> NoUniverse]

\* The entries a source may yield (_prepare_source_payload): a built-in profile may resolve
\* to none, typed and uploaded text never does.
Inputs(source) == IF source = "built_in" THEN ProfileTickers ELSE ParseTickers \union ParseFile

\* UniverseMutationSerializer.validate: a built-in source needs a key, submitted or kept.
AcceptsSource(source, submitted, row) == source = "built_in" => submitted \/ row.profile

NoSync == [creates |-> FALSE, entries |-> <<>>]

\* The system's universe of the profile.
OfProfile(row) == row.exists /\ row.system /\ row.source = "built_in" /\ row.profile

\* A plausible slip: only a universe that a member has given a new source is found.
SlipManaged == {u \in UniverseIds : unRows[u].exists /\ unRows[u].system /\ ~unRows[u].profile}

\* The rows the sync looks for.
Managed == {u \in UniverseIds : OfProfile(unRows[u])}

FreshId == unMade + 1

Replace(id, row, entries) ==
    /\ unRows' = [unRows EXCEPT ![id] = [row EXCEPT !.exists = TRUE, !.count = Len(entries)]]
    /\ unEntries' = [unEntries EXCEPT ![id] = entries]
    /\ unStale' = unStale \ {id}

\* The row a patch loaded is not the one there is.
Outdated(q) == unCopy[q].row # unRows[unCopy[q].id]

\* ... and a system universe was deleted since.
Restores(q) == unCopy[q].row.system /\ ~unRows[unCopy[q].id].exists

-----------------------------------------------------------------------------
UniverseInit ==
    /\ unRows = [u \in UniverseIds |-> NoUniverse]
    /\ unEntries = [u \in UniverseIds |-> <<>>]
    /\ unMade = 0
    /\ unSync = [s \in Syncs |-> NoSync]
    /\ unCopy = [q \in Patchers |-> NoCopy]
    /\ unRaced = FALSE /\ unSeized = FALSE /\ unStale = {}

\* _sync_profile_for_workspace: the profile resolved, the managed universe locked, its row
\* saved and its entries replaced; with none there is nothing to lock.
SyncProfile(s) ==
    /\ unSync[s] = NoSync
    /\ \E entries \in ProfileTickers :
           IF Managed # {}
           THEN LET u == CHOOSE u \in Managed : \A v \in Managed : u <= v
                IN  Replace(u, unRows[u], entries) /\ UNCHANGED <<unSync, unRaced>>
           ELSE /\ unSync' = [unSync EXCEPT ![s] = [creates |-> TRUE, entries |-> entries]]
                /\ unRaced' = (unRaced \/ \E t \in Syncs : unSync[t] # NoSync)
                /\ UNCHANGED <<unRows, unEntries, unStale>>
    /\ UNCHANGED <<unMade, unCopy, unSeized>>

\* ... it is created, with its entries.
SyncCreate(s) ==
    /\ unSync[s] # NoSync /\ FreshId \in UniverseIds
    /\ Replace(FreshId, [NoUniverse EXCEPT !.system = TRUE, !.source = "built_in", !.profile = TRUE],
               unSync[s].entries)
    /\ unMade' = FreshId
    /\ unSync' = [unSync EXCEPT ![s] = NoSync]
    /\ UNCHANGED <<unCopy, unRaced, unSeized>>

\* The sync dies or rolls back.
SyncFails(s) ==
    /\ unSync[s] # NoSync
    /\ unSync' = [unSync EXCEPT ![s] = NoSync]
    /\ UNCHANGED <<unRows, unEntries, unMade, unCopy, unRaced, unSeized, unStale>>

\* create_universe: row and entries in one transaction; a key submitted with another
\* source is kept.
CreateFrom(source, submitted, entries) ==
    Replace(FreshId, [NoUniverse EXCEPT !.source = source, !.profile = submitted], entries)

\* UniverseListCreateView.post; an input that is refused changes nothing.
CreateUniverse ==
    /\ FreshId \in UniverseIds
    /\ \E source \in Sources, submitted \in BOOLEAN : \E entries \in Inputs(source) :
           /\ AcceptsSource(source, submitted, NoUniverse)
           /\ CreateFrom(source, submitted, entries)
    /\ unMade' = FreshId
    /\ UNCHANGED <<unSync, unCopy, unRaced, unSeized>>

\* UniverseDetailView.patch loads the row.
LoadUniverse(q) ==
    /\ unCopy[q] = NoCopy
    /\ \E u \in UniverseIds : unRows[u].exists /\ unCopy' = [unCopy EXCEPT ![q] = [id |-> u, row |-> unRows[u]]]
    /\ UNCHANGED <<unRows, unEntries, unMade, unSync, unRaced, unSeized, unStale>>

\* update_universe without a new source: every column of the copy is saved.
PatchMetadata(q) ==
    /\ unCopy[q] # NoCopy
    /\ unRows' = [unRows EXCEPT ![unCopy[q].id] = unCopy[q].row]
    /\ unStale' = IF Outdated(q) THEN unStale \union {unCopy[q].id} ELSE unStale
    /\ unSeized' = (unSeized \/ Restores(q))
    /\ unCopy' = [unCopy EXCEPT ![q] = NoCopy]
    /\ UNCHANGED <<unEntries, unMade, unSync, unRaced>>

\* ... with one: the source may stay built_in without its key being submitted, and the
\* key is then lost; row and entries are written in one transaction.
PatchSource(q) ==
    LET c == unCopy[q]
    IN  /\ c # NoCopy
        /\ \E source \in Sources, submitted \in BOOLEAN : \E entries \in Inputs(source) :
               /\ AcceptsSource(source, submitted, c.row)
               /\ Replace(c.id, [c.row EXCEPT !.source = source,
                                              !.profile = (source = "built_in" /\ submitted)], entries)
        /\ unSeized' = (unSeized \/ c.row.system)
        /\ unCopy' = [unCopy EXCEPT ![q] = NoCopy]
        /\ UNCHANGED <<unMade, unSync, unRaced>>

\* UniverseDetailView.delete, with the entries.
DeleteUniverse ==
    /\ \E u \in UniverseIds :
           /\ unRows[u].exists
           /\ unRows' = [unRows EXCEPT ![u] = NoUniverse]
           /\ unEntries' = [unEntries EXCEPT ![u] = <<>>]
    /\ UNCHANGED <<unMade, unSync, unCopy, unRaced, unSeized, unStale>>

UniverseNext ==
    \/ \E s \in Syncs : SyncProfile(s) \/ SyncCreate(s) \/ SyncFails(s)
    \/ CreateUniverse \/ DeleteUniverse
    \/ \E q \in Patchers : LoadUniverse(q) \/ PatchMetadata(q) \/ PatchSource(q)

UniverseSpec == UniverseInit /\ [][UniverseNext]_universeVars

-----------------------------------------------------------------------------
(* Properties.                                                              *)

\* The variables keep their types.
UniverseTypeOK ==
    /\ unRows \in [UniverseIds -> UniverseRow]
    /\ unEntries \in [UniverseIds -> Seq({Normalize(t) : t \in Tokens})]
    /\ unMade \in 0 .. MaxUniverses
    /\ unSync \in [Syncs -> [creates : BOOLEAN, entries : Seq({Normalize(t) : t \in Tokens})]]
    /\ unCopy \in [Patchers -> [id : 0 .. MaxUniverses, row : UniverseRow]]
    /\ unRaced \in BOOLEAN /\ unSeized \in BOOLEAN /\ unStale \subseteq UniverseIds

\* Every symbol of a universe once (uniq_universe_entry_ticker never fires).
EntriesDistinct == \A u \in UniverseIds : IsInjective(unEntries[u])

\* entry_count counts the entries, unless a patch of the metadata saved a count older than
\* they are; the next replacement counts them again.
EntriesCounted == \A u \in UniverseIds \ unStale : unRows[u].count = Len(unEntries[u])

\* Whatever replaces a universe's source, its entries are those of one source, without
\* repetition and counted.
EntriesMatchRow == EntriesDistinct /\ EntriesCounted

\* A profile has one managed universe, whoever syncs it how often: a second one takes two
\* first syncs at once (select_for_update locks no row that is not there), a member who
\* takes the managed one away from its profile, or a patch that restores a deleted one.
OneManagedUniverse ==
    unRaced \/ unSeized \/ \A u, v \in UniverseIds : OfProfile(unRows[u]) /\ OfProfile(unRows[v]) => u = v

=============================================================================
