----------------------------- MODULE MarketData -----------------------------
(***************************************************************************)
(* Questions the code asks of a market snapshot payload.  A currency is a  *)
(* number in alphabetical order, a quote key the tuple of its currencies:  *)
(* <<1>> for "EUR", <<1, 2>> for "EUR/ILS", so tuples order as the strings *)
(* do.  A snapshot is a record                                             *)
(*   [base, quotes, loose, prices, ccy, curves, vols]                      *)
(* of the base currency, the rates by quote key, the keys not spelled in   *)
(* upper case, the priced symbols, the currency by symbol, the tenors by   *)
(* currency and, in a sequence of at most one, the vol surfaces by name.   *)
(***************************************************************************)
EXTENDS Common

Missing == 1000000
-----------------------------------------------------------------------------
(* What a compute request needs: its symbols, the base currency they are   *)
(* converted to, its curves, and currencies with the tenors asked of them. *)
NoBase == 0
(* Mutant: of the currencies with tenors only the first is looked at.      *)
RequirementsFirstTenors(need, snap) ==
  LET Symbol(s) == IF s \notin snap.prices \/ s \notin DOMAIN snap.ccy THEN "symbol" ELSE "ok"
      Tenors(c, ts) == IF c \notin DOMAIN snap.curves THEN "MISSING_CURVE"
                       ELSE IF ts \ snap.curves[c] # {} THEN "MISSING_TENOR" ELSE "ok"
  IN  FirstNamed([i \in DOMAIN need.symbols |-> Symbol(need.symbols[i])]
                 \o [i \in DOMAIN need.tenors \cap {1} |-> Tenors(need.tenors[i][1], need.tenors[i][2])])
Requirements(need, snap) ==
  LET Symbol(s) == FirstFault(<< <<"UNKNOWN_SYMBOL_IN_SNAPSHOT", s \notin snap.prices>>,
                                 <<"MISSING_SPOT_CURRENCY", s \notin DOMAIN snap.ccy>> >>)
      Fx(s) == IF /\ need.base # NoBase /\ s \in DOMAIN snap.ccy /\ snap.ccy[s] # need.base
                  /\ <<snap.ccy[s], need.base>> \notin DOMAIN snap.quotes
               THEN "MISSING_FX_PAIR" ELSE "ok"
      Curve(c) == IF c \notin DOMAIN snap.curves THEN "MISSING_CURVE" ELSE "ok"
      Tenors(c, ts) == IF Curve(c) # "ok" THEN Curve(c)
                       ELSE IF ts \ snap.curves[c] # {} THEN "MISSING_TENOR" ELSE "ok"
  IN  FirstNamed([i \in DOMAIN need.symbols |-> Symbol(need.symbols[i])]
                 \o [i \in DOMAIN need.symbols |-> Fx(need.symbols[i])]
                 \o [i \in DOMAIN need.curves |-> Curve(need.curves[i])]
                 \o [i \in DOMAIN need.tenors |-> Tenors(need.tenors[i][1], need.tenors[i][2])])
-----------------------------------------------------------------------------
(* Discount factors of a pair, at a time counted in halves of a day: only  *)
(* whole days have a tenor.  Rates are positive, so factors are too.       *)
TenorOf(halfDays) == halfDays \div 2
PairDfs(snap, domestic, foreign, halfDays) ==
  LET tenor == TenorOf(halfDays)
      Lacks(k) == k \notin {<<c>> : c \in DOMAIN snap.curves}
      Misses(k) == ~ Lacks(k) /\ tenor \notin snap.curves[k[1]]
  IN  IF halfDays = 0 THEN "ok" ELSE FirstFault(<<
    <<"ttm_years must be >= 0", halfDays < 0>>,
    <<"no interpolation", halfDays % 2 # 0>>,
    <<"missing domestic rates", Lacks(domestic)>>,
    <<"missing foreign rates", Lacks(foreign)>>,
    <<"missing domestic tenor", Misses(domestic)>>,
    <<"missing foreign tenor", Misses(foreign)>> >>)

(* A payload as the FX snapshot of one pair: the domestic currency is the  *)
(* first quote key in order, read as a currency.                           *)
FirstKey(snap) ==
  CHOOSE k \in DOMAIN snap.quotes : \A j \in DOMAIN snap.quotes : j = k \/ LexLess(k, j)
OneYear == 2 * 365
FxSnapshot(snap) ==
  IF DOMAIN snap.quotes = {} THEN "missing quotes"
  ELSE IF FirstKey(snap) \in snap.loose THEN "missing spot quote"
  ELSE PairDfs(snap, FirstKey(snap), <<snap.base>>, OneYear)
-----------------------------------------------------------------------------
(* The validation of a whole payload.  Rates are a to b with a * b = 1, as *)
(* numbers of the form 2^n: n and -n are reciprocal, 0 is one.             *)
Reciprocal(k) == IF Len(k) = 2 THEN <<k[2], k[1]>> ELSE k
ValidSnapshot(snap) ==
  LET q == snap.quotes
      base == <<snap.base, snap.base>>
  IN  FirstFault(<<
    <<"fx_missing_base_pair", base \notin DOMAIN q>>,
    <<"fx_base_not_one", base \in DOMAIN q /\ q[base] # 0>>,
    <<"fx_invalid_pair", \E k \in DOMAIN q :
        \/ Len(k) # 2 \/ Reciprocal(k) \notin DOMAIN q \/ q[k] + q[Reciprocal(k)] # 0>>,
    <<"spot_missing_currency", snap.prices \ DOMAIN snap.ccy # {}>>,
    <<"curve_invalid_tenor", \E c \in DOMAIN snap.curves : \E t \in snap.curves[c] : t <= 0>>,
    <<"volsurface_invalid", \E i \in DOMAIN snap.vols : \E n \in DOMAIN snap.vols[i] :
        LET surface == snap.vols[i][n]
        IN  \/ surface.flat = {} /\ surface.quotes = <<>>
            \/ \E k \in DOMAIN surface.quotes : surface.quotes[k] < 0>> >>)

(* The vol of a key: the quotes of every surface by name, then the flat    *)
(* vol of the surface named after the underlying.                          *)
Vol(snap, key) ==
  IF snap.vols = <<>> THEN "vols missing"
  ELSE LET v == snap.vols[1]
           u == key[1]
           quoted == {n \in DOMAIN v : key \in DOMAIN v[n].quotes}
           found == IF quoted # {} THEN v[CHOOSE n \in quoted : \A m \in quoted : n <= m].quotes[key]
                    ELSE IF u \in DOMAIN v /\ v[u].flat # {} THEN CHOOSE x \in v[u].flat : TRUE
                    ELSE Missing
       IN  FirstFault(<< <<"vol not found", found = Missing>>, <<"vol must be >= 0", found < 0>> >>)
=============================================================================
