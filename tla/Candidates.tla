----------------------------- MODULE Candidates -----------------------------
(***************************************************************************)
(* The names a source of a universe yields (greenblatt.universe, the        *)
(* candidate lists of greenblatt.providers.yahoo, apps.universes.services): *)
(* text a member types or uploads, a list packaged with the program, or the *)
(* live listings of Nasdaq.                                                 *)
(***************************************************************************)
EXTENDS Naturals, SequencesExt

CONSTANTS
    MaxTickers,     \* MAX_TICKER_COUNT
    ProfileLimit    \* the most names a live profile holds: 3000 or SECTOR_PROFILE_LIMIT

ASSUME CandidateAssumption == MaxTickers \in Nat /\ ProfileLimit \in Nat

\* Tokens as they are typed or listed, and _normalize_ticker: upper case, "." to "-";
\* "a_b" has a character that no ticker has.
Tokens == {"BRK-B", "brk.b", "ibm", "a_b"}
Normalize(token) == CASE token \in {"BRK-B", "brk.b"} -> "BRK-B"
                      [] token = "ibm" -> "IBM"
                      [] token = "a_b" -> "invalid"

\* A plausible slip: repeated symbols are kept.
SlipUnique(tokens) == [i \in 1 .. Len(tokens) |-> Normalize(tokens[i])]

\* The elements of s at these positions, in their order.
ElementsAt(s, positions) ==
    [k \in 1 .. Cardinality(positions) |->
        s[CHOOSE p \in positions : Cardinality({q \in positions : q <= p}) = k]]

\* Every symbol once, where it first occurs.
FirstUses(tokens) ==
    {i \in 1 .. Len(tokens) : \A j \in 1 .. i - 1 : Normalize(tokens[j]) # Normalize(tokens[i])}
Unique(tokens) ==
    LET used == ElementsAt(tokens, FirstUses(tokens))
    IN  [k \in 1 .. Len(used) |-> Normalize(used[k])]

Valid(entries) == ~Contains(entries, "invalid")

-----------------------------------------------------------------------------
(* Text: refused for an invalid ticker, for too many tickers or for none.   *)

ParseTickers == {e \in {Unique(tokens) : tokens \in BoundedSeq(Tokens, 3)} :
                     Valid(e) /\ Len(e) \in 1 .. MaxTickers}

\* A file is text too, when it is short enough and decodes.
ParseFile == ParseTickers

-----------------------------------------------------------------------------
(* Live listings.  stock: symbol and security name are those of a common    *)
(* stock (in the directory: no ETF and no test issue either); cap: the      *)
(* market capitalisation, 0 when it is missing; sector: the profile's.      *)

Listing == [symbol : Tokens, stock : BOOLEAN, cap : 0 .. 2, sector : BOOLEAN]
DirectoryLine == [symbol : Tokens, stock : BOOLEAN]

Symbols(rows) == [i \in 1 .. Len(rows) |-> rows[i].symbol]
Take(entries) == SubSeq(entries, 1, IF Len(entries) < ProfileLimit THEN Len(entries) ELSE ProfileLimit)

\* The largest first, equal ones as they are listed; a symbol listed twice counts once.
RankRows(rows) ==
    LET WithCap(cap) == ElementsAt(rows, {i \in 1 .. Len(rows) : rows[i].stock /\ rows[i].cap = cap})
    IN  Symbols(WithCap(2) \o WithCap(1))

\* The screener's rows: none when it answers something else than a list.
ScreenerRows == BoundedSeq(Listing, 2)

DirectoryTickers(lines) == Symbols(ElementsAt(lines, {i \in 1 .. Len(lines) : lines[i].stock}))

\* get_us_equity_candidates: the ranked rows, filled up from the directories; the rows may
\* be none (RetryError is caught), and the directories are read only when they are needed.
EquityCandidates(rows, lines) ==
    LET ranked == Unique(RankRows(rows))
    IN  Take(IF Len(ranked) >= ProfileLimit THEN ranked ELSE Unique(RankRows(rows) \o DirectoryTickers(lines)))

\* get_us_sector_candidates: the ranked rows of the sector, possibly none.
SectorCandidates(rows) == 
    Take(Unique(RankRows(ElementsAt(rows, {i \in 1 .. Len(rows) : rows[i].sector}))))

\* The lists of the packaged profiles do not change.
Packaged == Unique(<<"BRK-B", "ibm">>)

\* resolve_profile: packaged, or live as one of the two kinds.
Resolved ==
    {Packaged} \union {SectorCandidates(rows) : rows \in ScreenerRows}
        \union {EquityCandidates(rows, lines) : rows \in ScreenerRows, lines \in BoundedSeq(DirectoryLine, 1)}

\* resolve_builtin_profile_tickers: a provider that raises, or an invalid symbol, refuses a
\* profile whole; an empty list does not.
ProfileTickers == {e \in Resolved : Valid(e)}

=============================================================================
