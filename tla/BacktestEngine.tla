----------------------------- MODULE BacktestEngine -----------------------------
(***************************************************************************)
(* BacktestEngine.run over the point-in-time readers of BacktestDataAccess: *)
(* what a backtest of a given specification answers, as an operator on the *)
(* membership rows, bars, indicator rows and dated signals stored so far,  *)
(* while sessions pass, the index is reconciled, indicators are computed   *)
(* on time, late or again, and signals about earlier sessions come in.     *)
(*                                                                         *)
(* Numbers: a basket of n equally weighted stocks gives each W \div n of a *)
(* whole W, a return is in units of 1 / (W * P), where P is a multiple of  *)
(* every price.  Costs and the compounding of returns into equity are left *)
(* out: both are functions of what is computed here.                       *)
(***************************************************************************)
EXTENDS IndexMembership, Functions

CONSTANTS
    Prices,      \* adjusted closes, positive
    W, P,        \* the units above
    NoPrice,     \* no row for this stock and session
    MarketDays,  \* bars a session can bring: [Stocks -> Prices \cup {NoPrice}]
    Specs,       \* [type, topN, symbols, every]: every = sessions per rebalance bucket
    Impacts,     \* what a signal can say
    MaxSignals   \* bound: signals that come in

ASSUME EngineAssumption ==
    /\ Prices \subseteq Nat \ {0} /\ W \in Nat \ {0} /\ P \in Nat \ {0}
    /\ \A n \in 1..Cardinality(Stocks) : W % n = 0
    /\ \A p \in Prices : P % p = 0
    /\ \A s \in Specs : /\ s.type \in {"factor_strategy", "custom_basket"}
                       /\ s.topN >= 1 /\ s.symbols \subseteq Stocks
    /\ IsFiniteSet(Stocks)

VARIABLES
    panel,       \* daily_prices: stock, session -> adjusted close or NoPrice
    indicators,  \* technical_indicators: stock, session -> a row or NoPrice
    signals,     \* news ratings and filings: [stock, dated, known, impact], dated by
                 \* published_at, known since created_at or knowledge_from
    saved        \* the stored result of one backtest, with the last session of it
                 \* that no later write is about
engineVars == <<membershipVars, panel, indicators, signals, saved>>
evidence == <<rows, indicators, signals>>

NoResult == [end |-> 0]

EngineInit ==
    /\ MembershipInit
    /\ saved = NoResult /\ signals = {}
    /\ indicators = [s \in Stocks |-> [d \in Sessions |-> NoPrice]]
    /\ \E day \in MarketDays :
           panel = [s \in Stocks |-> [d \in Sessions |-> IF d = session THEN day[s] ELSE NoPrice]]

(* A session completes: its bars arrive.  A delisted stock has none.  No      *)
(* open reconciliation looks at the date or at a bar again, so sessions      *)
(* complete between them.                                                    *)
NewSession(day) ==
    /\ session + 1 \in Sessions /\ \A w \in Syncers : tx[w].pc = "idle"
    /\ session' = session + 1
    /\ panel' = [s \in Stocks |-> [panel[s] EXCEPT ![session + 1] = day[s]]]
    /\ UNCHANGED <<master, rows, report, synced, tx, reports, syncs, loads, indicators, signals, saved>>

(* The compute job of session d, that night or in a later backfill: a row    *)
(* for every member of now that has a bar of d.  The row is a function of    *)
(* the bars up to d; the close stands for it.                                *)
ComputeIndicators(d) ==
    /\ d <= session /\ \A w \in Syncers : tx[w].pc = "idle"
    /\ LET found == {s \in active_universe : panel[s][d] # NoPrice}
       IN  indicators' = [s \in Stocks |->
               IF s \in found THEN [indicators[s] EXCEPT ![d] = panel[s][d]] ELSE indicators[s]]
    /\ UNCHANGED <<membershipVars, signals>>

(* An article of an earlier session is rated, or a filing of it recorded.    *)
LearnSignal(s, dated, impact) ==
    /\ dated <= session /\ Cardinality(signals) < MaxSignals
    /\ \A w \in Syncers : tx[w].pc = "idle"
    /\ signals' = signals \cup {[stock |-> s, dated |-> dated, known |-> session, impact |-> impact]}
    /\ UNCHANGED <<membershipVars, indicators>>

-----------------------------------------------------------------------------
(* Reading as of a session: what the engine sees is its data access alone *)

Data == [panel |-> panel, universe |-> [d \in Sessions |-> historical_universe(d)],
         indicators |-> indicators, signals |-> signals]

HasBar(data, s, d) == data.panel[s][d] # NoPrice

(* ScoringContext: the last indicator row of d or before ... *)
IndicatorRows(data, s, d) == {e \in 1..d : data.indicators[s][e] # NoPrice}
indicator_as_of(data, s, d) ==
    LET had == IndicatorRows(data, s, d)
    IN  IF had = {} THEN 0 ELSE data.indicators[s][Max(had)]
(* ... and the signals that were published and, unlike what a reader without *)
(* the guard on created_at would show, recorded by the end of d.             *)
SignalsByDate(data, s, d) == {x \in data.signals : x.stock = s /\ x.dated <= d}
SignalsKnown(data, s, d) == {x \in data.signals : x.stock = s /\ x.dated <= d /\ x.known <= d}

(* compute_universe as of d: a sum stands for the composite, which is some   *)
(* function of what the context shows.  Nothing shown, no score.             *)
HasScore(data, s, d) == IndicatorRows(data, s, d) # {} \/ SignalsKnown(data, s, d) # {}
Score(data, s, d) ==
    LET seen == SignalsKnown(data, s, d)
    IN  indicator_as_of(data, s, d) + SumFunctionOnSet([x \in seen |-> x.impact], seen)

(* ranked_universe: the best scores first, ties by stock. *)
Before(data, d, a, b) ==
    \/ Score(data, a, d) > Score(data, b, d)
    \/ Score(data, a, d) = Score(data, b, d) /\ a < b
ranked_universe(data, d, universe, topN) ==
    LET scored == {s \in universe : HasScore(data, s, d)}
    IN  {s \in scored : Cardinality({t \in scored : Before(data, d, t, s)}) < topN}

Picks(data, spec, d) ==
    IF spec.type = "custom_basket" THEN spec.symbols
    ELSE ranked_universe(data, d, data.universe[d], spec.topN)

(* _rebalance_dates: the first session of each bucket within [start, end]. *)
Bucket(d, every) == (d - 1) \div every
rebalance_dates(start, end, every) ==
    {d \in start..end : d = start \/ Bucket(d - 1, every) # Bucket(d, every)}

-----------------------------------------------------------------------------
(* _simulate.  Between rebalances the loop only ever sells: what it holds    *)
(* after session d is what the last rebalance bought and what has had a bar  *)
(* on every session since.  A name without a bar on the session before or on *)
(* this one is sold at its last price: no return, and cash from here on.     *)

Priced(data, names, d) == {s \in names : HasBar(data, s, d)}
EqualWeight(names) == [names |-> names, each |-> IF names = {} THEN 0 ELSE W \div Cardinality(names)]
WeightOf(held, s) == IF s \in held.names THEN held.each ELSE 0
Exposure(held) == Cardinality(held.names) * held.each

Target(data, names, d) == EqualWeight(Priced(data, names, d))

KeptUntil(data, held, from, d) ==
    [held EXCEPT !.names = {s \in @ : \A c \in from..d : HasBar(data, s, c)}]
Held(data, d, picks) ==
    LET from == Max({r \in DOMAIN picks : r <= d})
    IN  KeptUntil(data, Target(data, picks[from], from), from, d)

(* The return of session d, of what was held into it. *)
Step(data, held, d) ==
    LET traded == {s \in held.names : HasBar(data, s, d - 1) /\ HasBar(data, s, d)}
    IN  SumFunctionOnSet(
            [s \in traded |-> held.each * ((data.panel[s][d] - data.panel[s][d-1])
                                               * (P \div data.panel[s][d-1]))], traded)

(* Half the sum of the weight changes, in units of 1 / (2 W). *)
Turnover(target, held) ==
    LET either == target.names \cup held.names
        Change(s) == WeightOf(target, s) - WeightOf(held, s)
    IN  SumFunctionOnSet([s \in either |-> IF Change(s) < 0 THEN -Change(s) ELSE Change(s)], either)

(* picks: rebalance session -> the names chosen on it.                        *)
Simulate(data, start, end, picks) ==
    [d \in start..end |->
        LET held == Held(data, d, picks)
            into == IF d = start THEN EqualWeight({}) ELSE Held(data, d - 1, picks)
        IN  [held |-> held,
             step |-> IF d = start THEN 0 ELSE Step(data, into, d),
             turnover |-> IF d \in DOMAIN picks
                          THEN Turnover(held, KeptUntil(data, into, d, d)) ELSE 0]]

Strategy(data, spec, start, end) ==
    Simulate(data, start, end,
             [d \in rebalance_dates(start, end, spec.every) |-> Picks(data, spec, d)])
Benchmark(data, start, end) == Simulate(data, start, end, [d \in {start} |-> data.universe[d]])

-----------------------------------------------------------------------------
(* run, by the backtest task: the answer is stored with the row. *)
RunBacktest(spec, start) ==
    /\ saved = NoResult /\ start < session /\ \A w \in Syncers : tx[w].pc = "idle"
    /\ saved' = [spec |-> spec, start |-> start, end |-> session, undoubted |-> session,
                 strategy |-> Strategy(Data, spec, start, session),
                 benchmark |-> Benchmark(Data, start, session)]
    /\ UNCHANGED <<membershipVars, panel, indicators, signals>>

(* A write about session d and later ones. *)
WriteFrom(d) ==
    /\ saved' = IF saved = NoResult \/ evidence' = evidence THEN saved
                ELSE [saved EXCEPT !.undoubted = Min({@, d - 1})]
    /\ UNCHANGED panel

EngineNext ==
    \/ \E day \in MarketDays : NewSession(day)
    \/ \E spec \in Specs, start \in Sessions : RunBacktest(spec, start)
    \/ \E d \in Sessions : ComputeIndicators(d) /\ WriteFrom(d)
    \/ \E s \in Stocks, d \in Sessions, i \in Impacts : LearnSignal(s, d, i) /\ WriteFrom(session)
    \/ \E w \in Syncers, recorded \in BOOLEAN :
          Reconcile(w, recorded) /\ UNCHANGED <<indicators, signals>> /\ WriteFrom(tx[w].asOf)
    \/ LoadUniverse /\ UNCHANGED <<indicators, signals>> /\ WriteFrom(LoadFrom)
    \/ QuietStep /\ UNCHANGED <<panel, indicators, signals, saved>>

EngineSpec == EngineInit /\ [][EngineNext]_engineVars

-----------------------------------------------------------------------------
(* Properties *)

(* What a stored result says of a session is what every later and longer     *)
(* backtest of the same specification says of it: it depends on nothing that *)
(* comes after the session, not on where the backtest ends, not on the bars   *)
(* of later sessions, not on who joins or leaves the index later, not on     *)
(* what is learnt later of its own day.  Only a write about the session      *)
(* itself, a back-dated sync or indicator rows computed after the backtest,  *)
(* changes it.                                                               *)
KnowsNothingOfTheFuture ==
    saved # NoResult =>
        \A d \in saved.start..Min({saved.end, saved.undoubted}) :
            /\ Strategy(Data, saved.spec, saved.start, session)[d] = saved.strategy[d]
            /\ Benchmark(Data, saved.start, session)[d] = saved.benchmark[d]

(* Nothing is held without a price of the session, so that every return is   *)
(* between two bars; a rebalance invests everything or nothing; in between   *)
(* the invested share only loses the weights of the names that stopped       *)
(* trading, whatever the membership does meanwhile.                          *)
AccountsBalance ==
    \A spec \in Specs, start, end \in Sessions : start < end /\ end <= session =>
        LET walk == Strategy(Data, spec, start, end)
            rebalances == rebalance_dates(start, end, spec.every)
        IN  \A d \in start..end :
                /\ \A s \in walk[d].held.names : HasBar(Data, s, d)
                /\ IF d \in rebalances THEN Exposure(walk[d].held) \in {0, W}
                   ELSE LET sold == {s \in walk[d-1].held.names : ~HasBar(Data, s, d)}
                        IN  Exposure(walk[d].held) =
                                Exposure(walk[d-1].held) - Cardinality(sold) * walk[d-1].held.each

(* A run decides on what was known and its money adds up (BacktestEngine.run).*)
BacktestIsHonest == KnowsNothingOfTheFuture /\ AccountsBalance
=============================================================================
