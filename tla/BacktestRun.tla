---------------------------- MODULE BacktestRun ----------------------------
(***************************************************************************)
(* The execution of a backtest (BacktestRunService): an attempt builds the  *)
(* providers, reads market data with the fallback's help, stores the export *)
(* and, in one transaction, replaces the rows and the summary of the run.   *)
(* A message delivered again starts another attempt beside the first.       *)
(*                                                                         *)
(* PostgreSQL at READ COMMITTED: a statement sees what was committed when   *)
(* it began, waits for rows that another transaction has deleted, and an    *)
(* insertion waits for the one it conflicts with.  Of the four tables,      *)
(* "points" always gets rows, and "trades" stands for those that may not.   *)
(***************************************************************************)
EXTENDS Integers, FiniteSets, Functions

CONSTANTS
    Attempts,          \* executions of the run's job
    DefaultProvider,   \* settings.MARKET_DATA_PROVIDER
    DefaultFallback,   \* settings.MARKET_DATA_PROVIDER_FALLBACK
    NoProvider         \* None

Providers == {"yahoo", "alpha_vantage"}
Unsaved == "unsaved"

ASSUME BacktestAssumption ==
    /\ Unsaved \notin Attempts
    /\ NoProvider \notin Providers
    /\ DefaultProvider \in Providers /\ DefaultFallback \in Providers \union {NoProvider}

VARIABLES
    btAsked,     \* the names of the request that launched the run, or its template's run
    btRequest,   \* the provider block of the job's metadata
    btTry,       \* what each attempt is at
    btTx,        \* the transaction of each attempt
    btRows,      \* by table: the attempts whose rows are committed
    btRun,       \* the row of the run
    btOrigins    \* history: by attempt, the providers whose data it used

backtestVars == <<btAsked, btRequest, btTry, btTx, btRows, btRun, btOrigins>>

-----------------------------------------------------------------------------
Tables == {"points", "trades"}
Methods == {"prices", "benchmark", "snapshots"}

\* Nothing but the equity curve, review targets as well, or also trades.
Results == {"nothing", "targets", "trades"}

\* A fallback is another provider.
Names == {names \in [provider : Providers, fallback : Providers \union {NoProvider}] :
              names.fallback # names.provider}

OrDefault(name, default) == IF name = NoProvider THEN default ELSE name

\* A plausible slip: the names are compared before the defaults are filled in.
SlipProviderConfig(request) ==
    [provider |-> OrDefault(request.provider, DefaultProvider),
     fallback |-> OrDefault(IF request.fallback = request.provider THEN NoProvider ELSE request.fallback,
                            DefaultFallback)]

\* provider_config_from_payload: a fallback equal to the provider is none.
ProviderConfig(request) ==
    LET provider == OrDefault(request.provider, DefaultProvider)
        fallback == OrDefault(request.fallback, DefaultFallback)
    IN  [provider |-> provider, fallback |-> IF fallback = provider THEN NoProvider ELSE fallback]

\* serialize_provider_config, for the job's metadata: names that are parsed already.
Serialized(config) ==
    [config EXCEPT !.fallback = IF config.fallback = config.provider THEN NoProvider ELSE config.fallback]

\* launch_backtest records what the names of a request come to.
Recorded(request) == Serialized(ProviderConfig(request))

\* backtest_config_from_run: a template made from a run holds the names that the run's job
\* has, and no fallback where it has none.
ConfigFromRun(recorded) == Restrict(recorded, {key \in DOMAIN recorded : recorded[key] # NoProvider})

\* launch_template: a new request with the names the template has.
LaunchedFrom(template) ==
    Recorded([key \in {"provider", "fallback"} |->
                  IF key \in DOMAIN template THEN template[key] ELSE NoProvider])

Requests == [provider : Providers \union {NoProvider}, fallback : Providers \union {NoProvider}]

\* resolved, fallbackUsed: of the FailoverProvider; result: what the simulation wrote
\* beside the equity curve.
Try == [pc : {"load", "build", "prices", "benchmark", "snapshots", "store", "delete", "lock",
              "insert", "save", "finish", "done", "failed"},
        config : Names, resolved : Providers, fallbackUsed : BOOLEAN, result : Results]

NewTry == [pc |-> "load", config |-> ProviderConfig([provider |-> NoProvider, fallback |-> NoProvider]),
           resolved |-> DefaultProvider, fallbackUsed |-> FALSE, result |-> "nothing"]

\* table: of the statement it is at; seen: the rows that statement found; deleted,
\* inserted: what it has done, by table.
Tx == [table : Tables, seen : SUBSET Attempts, deleted : [Tables -> SUBSET Attempts], inserted : SUBSET Tables]

NoTx == [table |-> "points", seen |-> {}, deleted |-> [n \in Tables |-> {}], inserted |-> {}]

\* The warnings of the summary that a reader of the run relies on.
Warnings(a) ==
    (IF btTry[a].fallbackUsed THEN {"fallback_provider_used"} ELSE {}) \union
    (IF btTry[a].result = "nothing" THEN {"no_portfolio_turnover"} ELSE {})

\* provider_result_payload
ProviderInfo(a) ==
    [provider |-> btTry[a].config.provider, fallback |-> btTry[a].config.fallback,
     resolved |-> btTry[a].resolved, fallbackUsed |-> btTry[a].fallbackUsed]

\* The columns of the run that execute_backtest_run writes.
Summary(a) ==
    [by |-> a, trades |-> btTry[a].result = "trades", info |-> ProviderInfo(a), warnings |-> Warnings(a)]

NoSummary ==
    [by |-> Unsaved, trades |-> FALSE, warnings |-> {},
     info |-> [provider |-> DefaultProvider, fallback |-> NoProvider, resolved |-> DefaultProvider,
               fallbackUsed |-> FALSE]]

At(a, pc) == btTry[a].pc = pc

Goto(a, pc) == btTry' = [btTry EXCEPT ![a].pc = pc]

\* The tables that get rows.
RowsOf(a) == {"points"} \union (IF btTry[a].result = "trades" THEN {"trades"} ELSE {})

\* Rows of a table that another open transaction has deleted, or would add.
DeletedByOthers(a, n) == UNION {btTx[b].deleted[n] : b \in Attempts \ {a}}
InsertedByOthers(a, n) == \E b \in Attempts \ {a} : n \in btTx[b].inserted

-----------------------------------------------------------------------------
BacktestInit ==
    /\ btAsked \in Requests
    /\ \/ btRequest = Recorded(btAsked)
       \/ btRequest = LaunchedFrom(ConfigFromRun(Recorded(btAsked)))
    /\ btTry = [a \in Attempts |-> NewTry]
    /\ btTx = [a \in Attempts |-> NoTx]
    /\ btRows = [n \in Tables |-> {}]
    /\ btRun = NoSummary
    /\ btOrigins = [a \in Attempts |-> {}]

\* The run, its universe and its providers are read; without tickers it fails.  What the
\* launch recorded goes through the defaults once more.
ReadRun(a) ==
    /\ At(a, "load")
    /\ LET config == ProviderConfig(btRequest)
       IN  btTry' = [btTry EXCEPT ![a].pc = "build", ![a].config = config, ![a].resolved = config.provider]
    /\ UNCHANGED <<btAsked, btRequest, btTx, btRows, btRun, btOrigins>>

\* build_provider: the primary and the fallback, each of which may be misconfigured.
Build(a) ==
    /\ At(a, "build")
    /\ \E pc \in {"prices", "failed"} : Goto(a, pc)
    /\ UNCHANGED <<btAsked, btRequest, btTx, btRows, btRun, btOrigins>>

\* The calls of MagicFormulaBacktester.run, in order; the benchmark is optional, and the
\* snapshots are read once for the whole period.
After(method) ==
    CASE method = "prices" -> {"benchmark", "snapshots"}
      [] method = "benchmark" -> {"snapshots"}
      [] method = "snapshots" -> {"store"}

\* A call answered by the primary.  Once the fallback was used it stays the resolved one.
Answered(a, method) ==
    /\ At(a, method)
    /\ \E pc \in After(method) :
           btTry' = [btTry EXCEPT ![a].pc = pc,
                                  ![a].resolved = IF btTry[a].fallbackUsed THEN @ ELSE btTry[a].config.provider]
    /\ btOrigins' = [btOrigins EXCEPT ![a] = @ \union {btTry[a].config.provider}]
    /\ UNCHANGED <<btAsked, btRequest, btTx, btRows, btRun>>

\* The primary raises a provider's error and the fallback answers.
FailedOver(a, method) ==
    /\ At(a, method) /\ btTry[a].config.fallback # NoProvider
    /\ \E pc \in After(method) :
           btTry' = [btTry EXCEPT ![a].pc = pc, ![a].fallbackUsed = TRUE,
                                  ![a].resolved = btTry[a].config.fallback]
    /\ btOrigins' = [btOrigins EXCEPT ![a] = @ \union {btTry[a].config.fallback}]
    /\ UNCHANGED <<btAsked, btRequest, btTx, btRows, btRun>>

\* The export is stored, before the transaction; the rows are built in memory.
Store(a) ==
    /\ At(a, "store")
    /\ \E result \in Results :
           btTry' = [btTry EXCEPT ![a].pc = "delete", ![a].result = result]
    /\ UNCHANGED <<btAsked, btRequest, btTx, btRows, btRun, btOrigins>>

-----------------------------------------------------------------------------
(* The transaction.                                                         *)

\* A deletion finds the committed rows ...
FindRows(a) ==
    /\ At(a, "delete")
    /\ btTx' = [btTx EXCEPT ![a].seen = btRows[btTx[a].table]]
    /\ Goto(a, "lock")
    /\ UNCHANGED <<btAsked, btRequest, btRows, btRun, btOrigins>>

\* ... and waits for those another transaction is deleting; if it did, they are gone.
DeleteRows(a) ==
    LET n == btTx[a].table
    IN  /\ At(a, "lock")
        /\ btTx[a].seen \intersect DeletedByOthers(a, n) = {}
        /\ btTx' = [btTx EXCEPT ![a].seen = {}, ![a].deleted[n] = btTx[a].seen \intersect btRows[n],
                                ![a].table = IF n = "points" THEN "trades" ELSE "points"]
        /\ Goto(a, IF n = "points" THEN "delete" ELSE "insert")
        /\ UNCHANGED <<btAsked, btRequest, btRows, btRun, btOrigins>>

Proceed(a, n) == Goto(a, IF n = "points" THEN "insert" ELSE "save")

\* A plausible slip: the rows are inserted outside of the transaction.
SlipInsertRows(a) ==
    LET n == btTx[a].table
    IN  /\ At(a, "insert") /\ n \in RowsOf(a)
        /\ btRows' = [btRows EXCEPT ![n] = (@ \ btTx[a].deleted[n]) \union {a}]
        /\ btTx' = [btTx EXCEPT ![a].table = "trades"]
        /\ Proceed(a, n)
        /\ UNCHANGED <<btAsked, btRequest, btRun, btOrigins>>

\* bulk_create, when no row with these positions is there or about to be.
InsertRows(a) ==
    LET n == btTx[a].table
    IN  /\ At(a, "insert") /\ n \in RowsOf(a)
        /\ ~InsertedByOthers(a, n)
        /\ btRows[n] \subseteq btTx[a].deleted[n]
        /\ btTx' = [btTx EXCEPT ![a].table = "trades", ![a].inserted = @ \union {n}]
        /\ Proceed(a, n)
        /\ UNCHANGED <<btAsked, btRequest, btRows, btRun, btOrigins>>

\* There are no rows to insert.
InsertNothing(a) ==
    /\ At(a, "insert") /\ btTx[a].table \notin RowsOf(a)
    /\ Goto(a, "save")
    /\ UNCHANGED <<btAsked, btRequest, btTx, btRows, btRun, btOrigins>>

\* The unique positions are taken by rows this transaction has not deleted: the attempt
\* fails and its transaction is rolled back.
Conflict(a) ==
    LET n == btTx[a].table
    IN  /\ At(a, "insert") /\ n \in RowsOf(a)
        /\ ~InsertedByOthers(a, n)
        /\ btRows[n] \intersect DeletedByOthers(a, n) = {}
        /\ ~(btRows[n] \subseteq btTx[a].deleted[n])
        /\ btTx' = [btTx EXCEPT ![a] = NoTx]
        /\ Goto(a, "failed")
        /\ UNCHANGED <<btAsked, btRequest, btRows, btRun, btOrigins>>

\* The run is saved and the transaction commits.
SaveRun(a) ==
    /\ At(a, "save")
    /\ btRows' = [n \in Tables |-> (btRows[n] \ btTx[a].deleted[n]) \union
                                   (IF n \in btTx[a].inserted THEN {a} ELSE {})]
    /\ btRun' = Summary(a)
    /\ btTx' = [btTx EXCEPT ![a] = NoTx]
    /\ Goto(a, "finish")
    /\ UNCHANGED <<btAsked, btRequest, btOrigins>>

Finish(a) ==
    /\ At(a, "finish")
    /\ Goto(a, "done")
    /\ UNCHANGED <<btAsked, btRequest, btTx, btRows, btRun, btOrigins>>

\* An error, a cancellation or the death of the worker, at any step; an open transaction
\* is rolled back.
Abandon(a) ==
    /\ btTry[a].pc \notin {"done", "failed"}
    /\ btTx' = [btTx EXCEPT ![a] = NoTx]
    /\ Goto(a, "failed")
    /\ UNCHANGED <<btAsked, btRequest, btRows, btRun, btOrigins>>

BacktestNext ==
    \E a \in Attempts :
        \/ ReadRun(a) \/ Build(a) \/ \E method \in Methods : Answered(a, method) \/ FailedOver(a, method)
        \/ Store(a) \/ FindRows(a) \/ DeleteRows(a) \/ InsertRows(a) \/ InsertNothing(a) \/ Conflict(a)
        \/ SaveRun(a) \/ Finish(a) \/ Abandon(a)

BacktestSpec == BacktestInit /\ [][BacktestNext]_backtestVars

-----------------------------------------------------------------------------
(* Properties.                                                              *)

BacktestTypeOK ==
    /\ btAsked \in Requests /\ btRequest \in Names
    /\ btTry \in [Attempts -> Try]
    /\ btTx \in [Attempts -> Tx]
    /\ btRows \in [Tables -> SUBSET Attempts]
    /\ btRun.by \in Attempts \union {Unsaved}
    /\ btOrigins \in [Attempts -> SUBSET Providers]

\* Whatever attempts run beside each other (execute_backtest_run: delete, bulk_create and
\* save in one transaction): all rows of the run are of the attempt whose summary it shows,
\* there are trades exactly if that summary counts some, and it admits to the fallback
\* exactly if that attempt used data from it; and a run launched from a template (and
\* redelivered however often) has the providers of the run that the template was made from.
RunIsOneAttempts ==
    /\ \A n \in Tables : btRows[n] \subseteq {btRun.by}
    /\ btRun.by # Unsaved =>
           /\ btRows["points"] # {}
           /\ btRun.trades <=> btRows["trades"] # {}
           /\ btRun.info.fallbackUsed <=> btRun.info.fallback \in btOrigins[btRun.by]
           /\ ~btRun.info.fallbackUsed => btOrigins[btRun.by] = {btRun.info.resolved}
           /\ btRun.info.fallbackUsed <=> "fallback_provider_used" \in btRun.warnings
           /\ "no_portfolio_turnover" \in btRun.warnings => btRows["trades"] = {}
           /\ LET same == ProviderConfig(Recorded(btAsked))
              IN  btRun.info.provider = same.provider /\ btRun.info.fallback = same.fallback

=============================================================================
