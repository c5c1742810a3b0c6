----------------------------- MODULE Rebalance -----------------------------
(***************************************************************************)
(* The simulation of a backtest (MagicFormulaBacktester): over the trading  *)
(* days, prices come in, and on review days the positions that are old      *)
(* enough are sold and the free slots filled from the ranking of the day.   *)
(*                                                                         *)
(* Money and shares are integers where the code has fractions: only reviews *)
(* whose divisions leave no remainder are modelled (book.even), which in the *)
(* instance all do.  The ranking is any order of some of the tickers    *)
(* (MagicFormula says which).                                               *)
(***************************************************************************)
EXTENDS Integers, Sequences, FiniteSets, FiniteSetsExt, SequencesExt

CONSTANTS
    Tickers,
    PortfolioSize,    \* config.portfolio_size
    InitialCapital,   \* config.initial_capital
    Prices,           \* prices of a share
    TradingDays,      \* days of the price index within the requested dates
    RawReviews,       \* days that the review frequency names (pd.date_range)
    LoserAge,         \* days after which a loser is sold; 51 weeks in the code
    WinnerAge         \* days after which a winner is sold; 53 weeks in the code

ASSUME RebalanceAssumption ==
    /\ IsFiniteSet(Tickers) /\ PortfolioSize \in Nat \ {0} /\ InitialCapital \in Nat \ {0} /\ Prices \subseteq Nat
    /\ TradingDays \subseteq Nat /\ TradingDays # {} /\ RawReviews \subseteq Nat
    /\ LoserAge \in Nat /\ WinnerAge \in Nat /\ LoserAge <= WinnerAge

VARIABLES
    rbDay,        \* current_date; before the first day, the day before it
    rbPhase,      \* "review": the day's review is due; "closed": its row is written
    rbPrice,      \* the last price of each ticker up to now, or NoPrice
    rbCash,
    rbHoldings,   \* a holding by ticker
    rbTargets,    \* the review_target_rows of the day
    rbTrades,     \* of trade_summary: the numbers of purchases and of sales by ticker
    rbWorth,      \* history: the equity when the review began
    rbSoldNow     \* history: the tickers sold in the review of the day

rebalanceVars == <<rbDay, rbPhase, rbPrice, rbCash, rbHoldings, rbTargets, rbTrades, rbWorth, rbSoldNow>>

-----------------------------------------------------------------------------
NoPrice == -1

FirstDay == Min(TradingDays)

\* Of no trading day at or after it, the earliest before it: the code's valid[0].
ClosestAvailable(day) ==
    IF \E d \in TradingDays : d >= day THEN Min({d \in TradingDays : d >= day})
    ELSE Min({d \in TradingDays : d <= day})

\* _resolve_review_dates: the first day is always one.
ReviewDays ==
    {FirstDay} \union {ClosestAvailable(d) : d \in {r \in RawReviews : FirstDay <= r /\ r <= Max(TradingDays)}}

\* _portfolio_market_value, of the holdings that have a price.
MarketValue(holdings, prices) ==
    MapThenSumSet(LAMBDA t : holdings[t].shares * prices[t],
                  {t \in DOMAIN holdings : prices[t] # NoPrice})

\* The holdings of both.
Together(some, others) ==
    [t \in DOMAIN some \union DOMAIN others |-> IF t \in DOMAIN some THEN some[t] ELSE others[t]]

Equity == rbCash + MarketValue(rbHoldings, rbPrice)

Age(t) == rbDay - rbHoldings[t].entry

\* Losers go before, winners after a year.
MustSell(t) ==
    /\ rbPrice[t] # NoPrice
    /\ \/ Age(t) >= LoserAge /\ rbPrice[t] < rbHoldings[t].price
       \/ Age(t) >= WinnerAge /\ rbPrice[t] >= rbHoldings[t].price

\* A plausible slip: every position gets its part of a whole portfolio.
SlipShares(book, price) == book.cash \div (PortfolioSize * price)

\* An equal part of the cash for each slot still open.
SharesFor(book, price) == book.cash \div (book.slots * price)

\* One candidate; the one without a price is passed over, and nothing more is bought
\* without slots or cash.  What divides evenly is never nothing.
Buy(book, t) ==
    LET shares == SharesFor(book, rbPrice[t])
        new == [shares |-> shares, entry |-> rbDay, price |-> rbPrice[t]]
    IN  IF book.slots <= 0 \/ book.cash <= 0 \/ rbPrice[t] <= 0 THEN book
        ELSE [cash |-> book.cash - shares * rbPrice[t], slots |-> book.slots - 1,
              bought |-> Together([u \in {t} |-> new], book.bought),
              even |-> book.even /\ book.cash % (book.slots * rbPrice[t]) = 0]

\* _build_trade_summary, by ticker.
TradeSummary(bought, sold) ==
    [t \in Tickers |-> [buys |-> rbTrades[t].buys + (IF t \in bought THEN 1 ELSE 0),
                       sells |-> rbTrades[t].sells + (IF t \in sold THEN 1 ELSE 0)]]

\* _build_review_target_rows: the first of the ranking, whatever is then bought.
TargetRows(ranked) == SubSeq(ranked, 1, IF Len(ranked) < PortfolioSize THEN Len(ranked) ELSE PortfolioSize)

\* The candidates in the order of the ranking.
Fill(book, ranked, excluded) ==
    LET after[n \in 0 .. Len(ranked)] ==
            IF n = 0 THEN book
            ELSE IF ranked[n] \in excluded THEN after[n - 1] ELSE Buy(after[n - 1], ranked[n])
    IN  after[Len(ranked)]

-----------------------------------------------------------------------------
RebalanceInit ==
    /\ rbDay = FirstDay - 1
    /\ rbPhase = "closed"
    /\ rbPrice = [t \in Tickers |-> NoPrice]
    /\ rbCash = InitialCapital
    /\ rbHoldings = <<>>
    /\ rbTargets = <<>>
    /\ rbTrades = [t \in Tickers |-> [buys |-> 0, sells |-> 0]]
    /\ rbWorth = InitialCapital
    /\ rbSoldNow = {}

\* The next day of the index; a ticker without a price that day keeps its last one
\* (previous_available_price).
OpenDay ==
    /\ rbPhase = "closed"
    /\ \E d \in TradingDays : d > rbDay
    /\ rbDay' = Min({d \in TradingDays : d > rbDay})
    /\ rbPhase' = IF rbDay' \in ReviewDays THEN "review" ELSE "closed"
    /\ \E prices \in [Tickers -> Prices \union {NoPrice}] :
           rbPrice' = [t \in Tickers |-> IF prices[t] = NoPrice THEN rbPrice[t] ELSE prices[t]]
    /\ rbWorth' = rbCash + MarketValue(rbHoldings, rbPrice')
    /\ rbSoldNow' = {} /\ rbTargets' = <<>>
    /\ UNCHANGED <<rbCash, rbHoldings, rbTrades>>

\* _rebalance, with the ranking that _screen_for_date returns.
Review(ranked) ==
    LET sold == {t \in DOMAIN rbHoldings : MustSell(t)}
        kept == Restrict(rbHoldings, DOMAIN rbHoldings \ sold)
        cash == rbCash + MarketValue(Restrict(rbHoldings, sold), rbPrice)
        start == [cash |-> cash, slots |-> PortfolioSize - Cardinality(DOMAIN kept), bought |-> <<>>,
                  even |-> TRUE]
        book == Fill(start, ranked, sold \union DOMAIN kept)
    IN  /\ rbPhase = "review"
        /\ book.even
        /\ rbPhase' = "closed"
        /\ rbCash' = book.cash
        /\ rbHoldings' = Together(book.bought, kept)
        /\ rbTargets' = TargetRows(ranked)
        /\ rbTrades' = TradeSummary(DOMAIN book.bought, sold)
        /\ rbSoldNow' = sold
        /\ UNCHANGED <<rbDay, rbPrice, rbWorth>>

Rankings == UNION {SetToSeqs(S) : S \in SUBSET Tickers}

RebalanceNext == OpenDay \/ \E ranked \in Rankings : Review(ranked)

RebalanceSpec == RebalanceInit /\ [][RebalanceNext]_rebalanceVars

-----------------------------------------------------------------------------
(* Properties.                                                              *)

RebalanceTypeOK ==
    /\ rbDay \in TradingDays \union {FirstDay - 1}
    /\ rbPhase \in {"review", "closed"}
    /\ rbPrice \in [Tickers -> Prices \union {NoPrice}]
    /\ rbCash \in Nat
    /\ DOMAIN rbHoldings \subseteq Tickers
    /\ \A t \in DOMAIN rbHoldings : rbHoldings[t] \in [shares : Nat \ {0}, entry : TradingDays, price : Prices]
    /\ rbTargets \in Seq(Tickers)
    /\ rbTrades \in [Tickers -> [buys : Nat, sells : Nat]]

\* Over any sequence of reviews (_rebalance, _build_trade_summary): a review changes no
\* equity, the portfolio never outgrows its size, what is sold is not bought back in the
\* same review, and a ticker is held exactly when its purchases outnumber its sales by one.
BooksKept ==
    /\ rbPhase = "closed" => Equity = rbWorth
    /\ Cardinality(DOMAIN rbHoldings) <= PortfolioSize
    /\ rbSoldNow \intersect DOMAIN rbHoldings = {}
    /\ \A t \in Tickers :
           rbTrades[t].buys - rbTrades[t].sells = IF t \in DOMAIN rbHoldings THEN 1 ELSE 0

\* A full portfolio leaves no cash idle, and after a review a target that is not held was
\* sold in it, has no price, or found no cash left, and then no name from below the targets
\* was bought in its place.
FullyInvested ==
    /\ Cardinality(DOMAIN rbHoldings) = PortfolioSize => rbCash = 0
    /\ rbPhase = "closed" /\ rbDay \in ReviewDays =>
           \A u \in ToSet(rbTargets) \ (DOMAIN rbHoldings \union rbSoldNow) :
               \/ rbPrice[u] <= 0
               \/ rbCash = 0 /\ \A t \in DOMAIN rbHoldings : rbHoldings[t].entry = rbDay => t \in ToSet(rbTargets)

\* The books balance, and what there is to invest is invested by rank.
BooksBalance == BooksKept /\ FullyInvested

=============================================================================
