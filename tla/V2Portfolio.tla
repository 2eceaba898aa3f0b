----------------------------- MODULE V2Portfolio -----------------------------
(***************************************************************************)
(* The portfolio summary of a V2 session: a read model that reduces the    *)
(* whole event log at every request, next to the runtime that appends to   *)
(* that log and takes the snapshots from which the summary borrows its     *)
(* version.  Pricing totals and limit checks are not modelled.             *)
(***************************************************************************)
EXTENDS V2Runtime

CONSTANT Command   \* what an event of each body asks of the portfolio

NoCurrency == "no currency"

\* kind is one of created, upserted, removed, malformed and other; malformed is an
\* upsert whose position has no id or no legs, which the router lets through.
ASSUME CommandAssumption ==
  /\ DOMAIN Command = Bodies
  /\ \A b \in Bodies :
       /\ Command[b].kind \in {"created", "upserted", "removed", "malformed", "other"}
       /\ Command[b].kind = "created" => "currency" \in DOMAIN Command[b]
       /\ Command[b].kind \in {"upserted", "removed"} => "position" \in DOMAIN Command[b]
       /\ Command[b].kind = "upserted" => "legs" \in DOMAIN Command[b]

VARIABLE summary   \* the last answer of GET /portfolio/summary

portfolioVars == <<vars, summary>>

-----------------------------------------------------------------------------
(* The reducer *)

CommandOf(e) == Command[e.body]
OfKind(S, kinds) == {e \in S : CommandOf(e).kind \in kinds}

NoPortfolio == [currency |-> NoCurrency, held |-> {}]

Without(held, p) == {h \in held : h.position # p}
With(held, c) == Without(held, c.position) \cup {[position |-> c.position, legs |-> c.legs]}

\* Mutant: creating the portfolio again keeps the positions of the old one.
ApplyKeepsPositions(s, c) ==
  CASE c.kind = "created"  -> [s EXCEPT !.currency = c.currency]
    [] c.kind = "upserted" -> [s EXCEPT !.held = With(@, c)]
    [] c.kind = "removed"  -> [s EXCEPT !.held = Without(@, c.position)]
    [] OTHER -> s

\* The body of the reducer's loop; malformed never gets here, it raises.
Apply(s, c) ==
  CASE c.kind = "created"  -> [currency |-> c.currency, held |-> {}]
    [] c.kind = "upserted" -> [s EXCEPT !.held = With(@, c)]
    [] c.kind = "removed"  -> [s EXCEPT !.held = Without(@, c.position)]
    [] OTHER -> s

\* reduce_portfolio_state on a log with one event per id: the portfolio after each
\* of the sorted events, and after the last.
EventAt(S, n) == Sorted(S)[n]
Portfolios(S) ==
  LET after[n \in 0..Cardinality(S)] ==
        IF n = 0 THEN NoPortfolio ELSE Apply(after[n - 1], CommandOf(EventAt(S, n)))
  IN  after
Reduced(S) == Portfolios(S)[Cardinality(S)]

\* Mutant: only what is left after the last removal can be malformed.
MalformedUnlessRemoved(S) ==
  \E e \in OfKind(S, {"malformed"}) : \A f \in OfKind(S, {"removed"}) : Before(f, e)

\* The reducer raises ValueError, even when a later event replaces the position.
Malformed(S) == OfKind(S, {"malformed"}) # {}

-----------------------------------------------------------------------------
(* The endpoint *)

\* The version of the latest snapshot, or the number of events.
SummaryVersion == IF snaps = {} THEN LogVersion ELSE Latest.version

\* get_portfolio_summary: 404 without events or portfolio, 400 when the reducer
\* raises ValueError, 500 when the log cannot be sorted.
Summary ==
  IF events = {} THEN [op |-> "not found"]
  ELSE IF ~Sortable(events) THEN [op |-> "failed"]
  ELSE IF Malformed(events) THEN [op |-> "invalid"]
  ELSE IF Reduced(events).currency = NoCurrency THEN [op |-> "not found"]
  ELSE [op |-> "summary", version |-> SummaryVersion, portfolio |-> Reduced(events)]

GetSummary ==
  /\ Idle
  /\ session
  /\ summary' = Summary
  /\ UNCHANGED vars

PortfolioInit == Init /\ summary = [op |-> "none"]

PortfolioNext == (Next /\ UNCHANGED summary) \/ GetSummary

PortfolioSpec == PortfolioInit /\ [][PortfolioNext]_portfolioVars

-----------------------------------------------------------------------------
(* Properties *)

\* What a portfolio should be, without a loop: the currency of the last creation,
\* and every position whose last event after that creation put it there.
Creations == OfKind(events, {"created"})
LastCreation == CHOOSE c \in Creations : \A d \in Creations : d = c \/ Before(d, c)
Changes == {e \in OfKind(events, {"upserted", "removed"}) : Before(LastCreation, e)}
LastChanges ==
  {e \in Changes : \A f \in Changes :
     CommandOf(f).position = CommandOf(e).position => f = e \/ Before(f, e)}

\* The reducer is last-write-wins in (ts, event_id) order, whatever the order of
\* arrival: a late event never undoes a later one, and creation starts afresh.
LastWriteWins ==
  Sortable(events) /\ ~Malformed(events) /\ Creations # {} =>
    /\ Reduced(events).currency = CommandOf(LastCreation).currency
    /\ Reduced(events).held =
         {[position |-> CommandOf(e).position, legs |-> CommandOf(e).legs] :
            e \in OfKind(LastChanges, {"upserted"})}

\* The version of the summary never goes back, although it is the number of events
\* until the first snapshot and the version of the latest snapshot from then on.
SummaryVersionMonotone ==
  [][summary.op = "summary" /\ summary'.op = "summary"
       => summary.version <= summary'.version]_portfolioVars

\* One accepted event the reducer cannot read takes the summary away for good: no
\* later event, removal, snapshot or restart brings it back.
PoisonIsForever ==
  [][summary.op = "invalid" => summary'.op \in {"invalid", "failed"}]_portfolioVars
=============================================================================
