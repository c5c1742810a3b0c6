----------------------------- MODULE Snapshots -----------------------------
(***************************************************************************)
(* Snapshots of fundamentals (YahooFinanceProvider and AlphaVantageProvider *)
(* .get_snapshots): a job asks its provider for some tickers, each of which *)
(* comes from a file that all processes share, or is fetched and written to *)
(* that file.  A file is written under one temporary name per ticker and    *)
(* then renamed, so processes that save the same ticker meet.               *)
(*                                                                         *)
(* A job is one process and calls get_snapshots once.  A snapshot is the    *)
(* time of its cached_at.                                                   *)
(***************************************************************************)
EXTENDS Integers, FiniteSets

CONSTANTS
    FetchJobs,      \* processes with a provider
    FetchTickers,   \* what they ask for; numbers, in the order of the request
    Ttl,            \* cache_ttl_hours
    FetchEnd        \* bound: the last hour

NoFile == "none"

ASSUME FetchAssumption == /\ FetchTickers \subseteq Nat /\ Ttl \in Nat /\ FetchEnd \in Nat
                          /\ NoFile \notin FetchJobs

VARIABLES
    snNow,      \* the hour
    snJob,      \* each job: its provider's settings and where it is
    snFetch,    \* each job and ticker: where _fetch_snapshot is
    snInode,    \* the content of the file that a job created for a ticker
    snTemp,     \* the inode at the temporary name of a file: its creator, or NoFile
    snFile,     \* the inode at the name of a file
    snRaced     \* history: files that two jobs were writing at one time

fetchVars == <<snNow, snJob, snFetch, snInode, snTemp, snFile, snRaced>>

-----------------------------------------------------------------------------
Hours == 0 .. FetchEnd

ProviderNames == {"yahoo", "alpha_vantage"}

\* The cache directory of a provider has one file per ticker.
Files == ProviderNames \X FetchTickers

Snapshot == [kind : {"whole"}, at : Hours]
Nothing == [kind |-> "empty"]
Torn == [kind |-> "torn"]
Contents == Snapshot \union {Nothing, Torn}

Job == [provider : ProviderNames, use : BOOLEAN, refresh : BOOLEAN,
        pc : {"momentum", "fetch", "done", "raised", "crashed"}]

\* got: the snapshot; handle: the creator of the inode that is open; own: fetched by the
\* job itself; age: of the file when it was read.
Fetch == [pc : {"todo", "live", "open", "write", "rename", "served", "failed"},
          got : Contents, handle : FetchJobs \union {NoFile}, own : BOOLEAN, age : Hours]

NewFetch == [pc |-> "todo", got |-> Nothing, handle |-> NoFile, own |-> FALSE, age |-> 0]

FileOf(j, t) == <<snJob[j].provider, t>>

SetFetch(j, t, new) == snFetch' = [snFetch EXCEPT ![j][t] = new]

\* What a request to Alpha Vantage gives: a reply may be an error in words, and the last
\* attempt may fail.
Replies == {"data", "limit", "error", "failure"}
Accepted(reply) == reply = "data"

\* Yahoo fetches the tickers in threads, Alpha Vantage one after the other.
MayFetch(j, t) ==
    /\ snJob[j].pc = "fetch"
    /\ snJob[j].provider = "alpha_vantage" =>
           \A u \in FetchTickers : u < t => snFetch[j][u].pc \in {"served", "failed"}

Writing(j, t) == snJob[j].pc = "fetch" /\ snFetch[j][t].pc \in {"write", "rename"}

-----------------------------------------------------------------------------
\* A plausible slip: a file counts whatever its age.
SlipUsable(j, content) == snJob[j].use /\ ~snJob[j].refresh /\ content.kind = "whole"

\* _load_cached_snapshot: unless the job refreshes, a file that can be parsed and is not
\* older than the TTL.
Usable(j, content) ==
    /\ snJob[j].use /\ ~snJob[j].refresh
    /\ content.kind = "whole" /\ snNow - content.at <= Ttl

-----------------------------------------------------------------------------
FetchInit ==
    /\ snNow = 0
    /\ snJob \in [FetchJobs -> {job \in Job : job.pc = "momentum" /\ (job.refresh => job.use)}]
    /\ snFetch = [j \in FetchJobs |-> [t \in FetchTickers |-> NewFetch]]
    /\ snInode = [j \in FetchJobs |-> [t \in FetchTickers |-> Nothing]]
    /\ snTemp = [f \in Files |-> NoFile]
    /\ snFile = [f \in Files |-> NoFile]
    /\ snRaced = {}

\* Yahoo's _build_momentum_map: one download of the prices of all tickers, which comes or
\* fails.
YahooMomentum(j) ==
    /\ snJob[j].provider = "yahoo"
    /\ \E pc \in {"fetch", "raised"} : snJob' = [snJob EXCEPT ![j].pc = pc]

\* Alpha Vantage's: one request per ticker, any of which may fail and the call with it.
AlphaMomentum(j) ==
    /\ snJob[j].provider = "alpha_vantage"
    /\ \E replies \in [FetchTickers -> Replies] :
           snJob' = [snJob EXCEPT ![j].pc = IF \A t \in FetchTickers : Accepted(replies[t])
                                            THEN "fetch" ELSE "raised"]

Momentum(j) ==
    /\ snJob[j].pc = "momentum"
    /\ YahooMomentum(j) \/ AlphaMomentum(j)
    /\ UNCHANGED <<snNow, snFetch, snInode, snTemp, snFile, snRaced>>

\* _fetch_snapshot, first the file.
LoadFile(j, t) ==
    LET file == snFile[FileOf(j, t)]
        content == IF file = NoFile THEN Nothing ELSE snInode[file][t]
    IN  /\ MayFetch(j, t) /\ snFetch[j][t].pc = "todo"
        /\ SetFetch(j, t, IF Usable(j, content)
                          THEN [NewFetch EXCEPT !.pc = "served", !.got = content, !.age = snNow - content.at]
                          ELSE [NewFetch EXCEPT !.pc = "live"])
        /\ UNCHANGED <<snNow, snJob, snInode, snTemp, snFile, snRaced>>

\* What becomes of the ticker when its fetch has ended.
Fetched(j, t, found) ==
    SetFetch(j, t, IF found
                   THEN [snFetch[j][t] EXCEPT !.pc = IF snJob[j].use THEN "open" ELSE "served",
                                              !.own = TRUE, !.got = [kind |-> "whole", at |-> snNow]]
                   ELSE [snFetch[j][t] EXCEPT !.pc = "failed"])

\* Yahoo's _fetch_snapshot_live fails when no figure at all comes; a limit on the rate or a
\* failing request leaves out its figures only.
YahooLive(j, t) ==
    /\ snJob[j].provider = "yahoo"
    /\ \E info, financials, balance \in BOOLEAN : Fetched(j, t, info \/ financials \/ balance)

\* Alpha Vantage's needs all of its three requests.
AlphaLive(j, t) ==
    /\ snJob[j].provider = "alpha_vantage"
    /\ \E overview, income, balance \in Replies :
           Fetched(j, t, Accepted(overview) /\ Accepted(income) /\ Accepted(balance))

FetchLive(j, t) ==
    /\ MayFetch(j, t) /\ snFetch[j][t].pc = "live"
    /\ YahooLive(j, t) \/ AlphaLive(j, t)
    /\ UNCHANGED <<snNow, snJob, snInode, snTemp, snFile, snRaced>>

-----------------------------------------------------------------------------
(* _save_cached_snapshot: write_text opens and writes, then replace.        *)

\* The temporary file is created, or the one that is there is emptied.
OpenTemp(j, t) ==
    LET f == FileOf(j, t)
        inode == IF snTemp[f] = NoFile THEN j ELSE snTemp[f]
    IN  /\ snJob[j].pc = "fetch" /\ snFetch[j][t].pc = "open"
        /\ snTemp' = [snTemp EXCEPT ![f] = inode]
        /\ snInode' = [snInode EXCEPT ![inode][t] = Nothing]
        /\ SetFetch(j, t, [snFetch[j][t] EXCEPT !.pc = "write", !.handle = inode, !.got.at = snNow])
        /\ snRaced' = snRaced \union
                      {g \in {f} : \E k \in FetchJobs \ {j} : FileOf(k, t) = f /\ Writing(k, t)}
        /\ UNCHANGED <<snNow, snJob, snFile>>

\* What another process has written to the inode since is overwritten from its beginning,
\* whole or but for a tail.
WriteTemp(j, t) ==
    LET inode == snFetch[j][t].handle
    IN  /\ snJob[j].pc = "fetch" /\ snFetch[j][t].pc = "write"
        /\ \E content \in {snFetch[j][t].got} \union (IF snInode[inode][t] = Nothing THEN {} ELSE {Torn}) :
               snInode' = [snInode EXCEPT ![inode][t] = content]
        /\ SetFetch(j, t, [snFetch[j][t] EXCEPT !.pc = "rename"])
        /\ UNCHANGED <<snNow, snJob, snTemp, snFile, snRaced>>

\* The rename fails when another process has renamed the file: the ticker is lost although
\* it was fetched.
RenameTemp(j, t) ==
    LET f == FileOf(j, t)
    IN  /\ snJob[j].pc = "fetch" /\ snFetch[j][t].pc = "rename"
        /\ IF snTemp[f] = NoFile
           THEN /\ SetFetch(j, t, [snFetch[j][t] EXCEPT !.pc = "failed", !.handle = NoFile])
                /\ UNCHANGED <<snTemp, snFile>>
           ELSE /\ SetFetch(j, t, [snFetch[j][t] EXCEPT !.pc = "served", !.handle = NoFile])
                /\ snFile' = [snFile EXCEPT ![f] = snTemp[f]]
                /\ snTemp' = [snTemp EXCEPT ![f] = NoFile]
        /\ UNCHANGED <<snNow, snJob, snInode, snRaced>>

-----------------------------------------------------------------------------
Served(j) == {t \in FetchTickers : snFetch[j][t].pc = "served"}
Missing(j) == FetchTickers \ Served(j)

\* The tickers that failed are left out; if all did, the call fails.
Collect(j) ==
    /\ snJob[j].pc = "fetch"
    /\ \A t \in FetchTickers : snFetch[j][t].pc \in {"served", "failed"}
    /\ snJob' = [snJob EXCEPT ![j].pc = IF Served(j) = {} THEN "raised" ELSE "done"]
    /\ UNCHANGED <<snNow, snFetch, snInode, snTemp, snFile, snRaced>>

\* The worker process is killed; what it was writing stays.
Crash(j) ==
    /\ snJob[j].pc = "fetch"
    /\ snJob' = [snJob EXCEPT ![j].pc = "crashed"]
    /\ UNCHANGED <<snNow, snFetch, snInode, snTemp, snFile, snRaced>>

Hour ==
    /\ snNow < FetchEnd
    /\ snNow' = snNow + 1
    /\ UNCHANGED <<snJob, snFetch, snInode, snTemp, snFile, snRaced>>

FetchNext ==
    \/ Hour
    \/ \E j \in FetchJobs :
           \/ Momentum(j) \/ Collect(j) \/ Crash(j)
           \/ \E t \in FetchTickers :
                  \/ LoadFile(j, t) \/ FetchLive(j, t)
                  \/ OpenTemp(j, t) \/ WriteTemp(j, t) \/ RenameTemp(j, t)

FetchSpec == FetchInit /\ [][FetchNext]_fetchVars

-----------------------------------------------------------------------------
(* Properties.                                                              *)

FetchTypeOK ==
    /\ snNow \in Hours
    /\ snJob \in [FetchJobs -> Job]
    /\ snFetch \in [FetchJobs -> [FetchTickers -> Fetch]]
    /\ snInode \in [FetchJobs -> [FetchTickers -> Contents]]
    /\ snTemp \in [Files -> FetchJobs \union {NoFile}]
    /\ snFile \in [Files -> FetchJobs \union {NoFile}]
    /\ snRaced \subseteq Files

\* What a job returns (get_snapshots, _fetch_snapshot, _save_cached_snapshot): every
\* snapshot is complete, and the job's own or one that a file held for no longer than the
\* TTL when it was read; and a ticker that the job fetched is missing only if another
\* process was writing its file at the time.
SnapshotsAccounted ==
    \A j \in FetchJobs : snJob[j].pc = "done" =>
        /\ \A t \in Served(j) :
               LET f == snFetch[j][t]
               IN  f.got.kind = "whole" /\ (f.own \/ f.age <= Ttl)
        /\ \A t \in Missing(j) : snFetch[j][t].own => FileOf(j, t) \in snRaced

=============================================================================
