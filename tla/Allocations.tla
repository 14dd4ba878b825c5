------------------------------ MODULE Allocations ------------------------------
(***************************************************************************)
(* The pure half of the portfolio tools: the constraints engine            *)
(* (portfolio/constraints.py), the Decimal boundary of the optimizers      *)
(* (portfolio/optimization), and the drift of a book from its targets      *)
(* (portfolio/rebalance.py).                                               *)
(*                                                                         *)
(* A weight is an integer, One of them to the whole book: the quantum of   *)
(* numeric(9,6).  A float of the solver is counted in 1/Fine of a quantum. *)
(* A slack is a fraction <<n, d>>, d > 0.                                  *)
(***************************************************************************)
EXTENDS Integers, Sequences, FiniteSets, SequencesExt

CONSTANTS
    Names,        \* stocks, as naturals: the order of the columns
    SectorOf,     \* name -> its sector; names without one are not in the domain
    One,          \* the weight 1
    Eps,          \* WEIGHT_SUM_EPSILON
    Fine,         \* float steps of one quantum
    Tol,          \* float steps by which a solver may miss a constraint
    MaxShort,     \* float steps of the largest short position of a run
    None          \* an absent field

ASSUME AllocationAssumption ==
    /\ One \in Nat \ {0} /\ Fine \in Nat \ {0} /\ Eps \in Nat /\ Tol \in Nat /\ MaxShort \in Nat
    /\ Names \subseteq Nat /\ IsFiniteSet(Names) /\ DOMAIN SectorOf \subseteq Names
    \* ROUND_HALF_UP moves each weight by half a quantum at most.  What the
    \* rounding of the others and the misses of a solver can put on one weight
    \* is within the tolerance, and less than a weight of an even book.
    /\ (Cardinality(Names) - 1) * Fine + 4 * Tol <= 2 * (Fine * Eps) /\ Fine + 2 * Tol <= 2 * (Fine * Eps)
    /\ (Cardinality(Names) * Cardinality(Names)) * (Fine + 2 * Tol) <= 2 * (One * Fine)

Magnitude(n) == IF n < 0 THEN -n ELSE n
Smallest(S) == CHOOSE x \in S : \A y \in S : x <= y
Largest(S) == CHOOSE x \in S : \A y \in S : x >= y
Total(w) == SumFunctionOnSet(w, DOMAIN w)

KindOrder == <<"max_weight", "min_weight", "long_only", "sector_cap", "cardinality",
               "target_volatility", "target_return", "turnover", "full_investment">>
Rank(kind) == CHOOSE i \in DOMAIN KindOrder : KindOrder[i] = kind

Status(kind, satisfied, slack) == [kind |-> kind, satisfied |-> satisfied, slack |-> slack]
Base(limit) == IF limit = 0 THEN One ELSE Magnitude(limit)
Under(actual, limit) == <<limit - actual, Base(limit)>>
Over(actual, limit) == <<actual - limit, Base(limit)>>
LessSlack(p, q) == p[1] * q[2] < q[1] * p[2]

(* The most violated status; among equals the kind declared first. *)
Binding(statuses) ==
    LET violated == {s \in statuses : ~s.satisfied}
    IN  IF violated = {} THEN None
        ELSE CHOOSE s \in violated : \A t \in violated \ {s} :
                 \/ LessSlack(s.slack, t.slack)
                 \/ ~LessSlack(t.slack, s.slack) /\ Rank(s.kind) < Rank(t.kind)

-----------------------------------------------------------------------------
(* check: one status per active constraint.  c is a Constraints record, its  *)
(* caps a function; a is an Allocation: weights, and the volatility, return  *)
(* and prior weights that the caller knows, or None.                         *)

Held(w) == {n \in DOMAIN w : w[n] > Eps}

MaxWeightStatus(c, w) ==
    IF c.max = None THEN {}
    ELSE LET top == Largest({w[n] : n \in DOMAIN w})
         IN  {Status("max_weight", top <= c.max + Eps, Under(top, c.max))}

MinWeightStatus(c, w) ==
    IF c.min = 0 THEN {}
    ELSE LET least == IF Held(w) = {} THEN c.min ELSE Smallest({w[n] : n \in Held(w)})
         IN  {Status("min_weight", least >= c.min - Eps, Under(c.min, least))}

LongOnlyStatus(c, w) ==
    LET lowest == Smallest({w[n] : n \in DOMAIN w})
    IN  IF c.longOnly THEN {Status("long_only", lowest >= -Eps, <<lowest, One>>)} ELSE {}

Exposed(w, sector) ==
    SumFunctionOnSet(w, {n \in DOMAIN w \cap DOMAIN SectorOf : SectorOf[n] = sector})

(* The worst sector is looked for below a slack of 1.  A sector that holds   *)
(* nothing has exactly that slack: when all of them do, no sector is found,  *)
(* and looking up the cap of none raises KeyError.                           *)
CheckRaises(c, w) == DOMAIN c.caps # {} /\ \A s \in DOMAIN c.caps : Exposed(w, s) <= 0
SectorStatus(c, w) ==
    IF DOMAIN c.caps = {} THEN {}
    ELSE LET worst == CHOOSE s \in DOMAIN c.caps : \A t \in DOMAIN c.caps :
                 ~LessSlack(Under(Exposed(w, t), c.caps[t]), Under(Exposed(w, s), c.caps[s]))
         IN  {Status("sector_cap", Exposed(w, worst) <= c.caps[worst],
                     Under(Exposed(w, worst), c.caps[worst]))}

CardinalityStatus(c, w) ==
    LET count == Cardinality(Held(w))
        short == c.cmin # None /\ count < c.cmin
        long == c.cmax # None /\ count > c.cmax
    IN  IF c.cmin = None /\ c.cmax = None THEN {}
        ELSE {Status("cardinality", ~short /\ ~long,
                     IF short THEN <<count - c.cmin, IF count = 0 THEN 1 ELSE count>>
                     ELSE IF long THEN <<c.cmax - count, c.cmax>> ELSE <<1, 1>>)}

TargetStatuses(c, a) ==
    (IF c.vol = None \/ a.vol = None THEN {}
     ELSE {Status("target_volatility", a.vol <= c.vol + Eps, Under(a.vol, c.vol))}) \cup
    (IF c.ret = None \/ a.ret = None THEN {}
     ELSE {Status("target_return", a.ret >= c.ret - Eps, Over(a.ret, c.ret))})

(* One way: half of what moved. *)
TurnoverStatus(c, a) ==
    IF c.turnover = None \/ a.prior = None THEN {}
    ELSE LET names == DOMAIN a.w \cup DOMAIN a.prior
             At(w, n) == IF n \in DOMAIN w THEN w[n] ELSE 0
             gross == Total([n \in names |-> Magnitude(At(a.w, n) - At(a.prior, n))])
         IN  {Status("turnover", gross <= 2 * (c.turnover + Eps),
                     <<2 * c.turnover - gross, 2 * Base(c.turnover)>>)}

FullInvestmentStatus(w) ==
    LET deviation == Magnitude(Total(w) - One)
    IN  {Status("full_investment", deviation <= Eps, <<Eps - deviation, One>>)}

Check(c, a) ==
    MaxWeightStatus(c, a.w) \cup MinWeightStatus(c, a.w) \cup LongOnlyStatus(c, a.w) \cup
    SectorStatus(c, a.w) \cup CardinalityStatus(c, a.w) \cup TargetStatuses(c, a) \cup
    TurnoverStatus(c, a) \cup FullInvestmentStatus(a.w)

(* feasibility: what can be refused without looking at returns. *)
NamesHeldAtMost(c, names) ==
    IF c.cmax = None THEN Cardinality(names) ELSE Smallest({c.cmax, Cardinality(names)})
Forced(c, names) == c.min * c.cmin
Feasibility(c, names) ==
    LET sectors == {SectorOf[n] : n \in names \cap DOMAIN SectorOf}
        size == Cardinality(names)
        reach == NamesHeldAtMost(c, names)
    IN  (IF c.cmin = None THEN {}
         ELSE {Status("cardinality", c.cmin <= size, Under(c.cmin, size))}) \cup
        (IF c.max = None THEN {}
         ELSE {Status("max_weight", c.max * reach >= One - Eps, Under(One, c.max * reach))}) \cup
        (IF c.min = 0 \/ c.cmin = None THEN {}
         ELSE {Status("min_weight", Forced(c, names) <= One + Eps, Under(Forced(c, names), One))})
        \cup
        (IF DOMAIN c.caps = {} \/ sectors = {} \/ ~(sectors \subseteq DOMAIN c.caps) THEN {}
         ELSE LET sum == SumFunctionOnSet(c.caps, sectors)
              IN  {Status("sector_cap", sum >= One - Eps, Under(One, sum))})

-----------------------------------------------------------------------------
(* The solvers are external: a solution is any book of floats that meets, up *)
(* to the solver's tolerance, the linear constraints which the formulation   *)
(* was given - full investment, the box and the sector caps, never the floor *)
(* or the cardinality.  Without long_only nothing bounds a weight from       *)
(* below; MaxShort bounds it for the enumeration.                            *)
Within(c, x) ==
    /\ c.max # None => \A n \in DOMAIN x : x[n] <= c.max * Fine + Tol
    /\ \A s \in DOMAIN c.caps : Exposed(x, s) <= c.caps[s] * Fine + Tol
Solutions(c, names) ==
    LET least == IF c.longOnly THEN -Tol ELSE -MaxShort
        most == One * Fine + Tol - (Cardinality(names) - 1) * least
        last == Largest(names)
        books == {[n \in names |-> IF n = last THEN One * Fine + miss - Total(x) ELSE x[n]] :
                     x \in [names \ {last} -> least..most], miss \in -Tol..Tol}
    IN  {x \in books : x[last] >= least /\ Within(c, x)}
(* Risk parity: positive weights, whatever long_only says, scaled to sum to  *)
(* one; some are below a float step of the model.                            *)
ParitySolutions(c, names) ==
    {x \in Solutions([c EXCEPT !.longOnly = TRUE], names) :
        Total(x) = One * Fine /\ \A n \in names : x[n] >= 0}

(* Half a quantum goes away from zero. *)
Quantized(x) ==
    IF x >= 0 THEN (2 * x + Fine) \div (2 * Fine) ELSE -((2 * (-x) + Fine) \div (2 * Fine))

(* What a solver leaves below zero is not a short position. *)
Cleaned(longOnly, x) == [n \in DOMAIN x |-> IF longOnly /\ x[n] < 0 THEN 0 ELSE x[n]]
(* Rounding without giving the dust to anyone. *)
DecimalWeightsUnbalanced(longOnly, x) == [n \in DOMAIN x |-> Quantized(Cleaned(longOnly, x)[n])]
(* The residue of the rounding goes to the first of the largest weights. *)
DecimalWeights(longOnly, x) ==
    LET clean == Cleaned(longOnly, x)
        q == [n \in DOMAIN x |-> Quantized(clean[n])]
        top == Smallest({n \in DOMAIN q : \A m \in DOMAIN q : q[n] >= q[m]})
    IN  [q EXCEPT ![top] = @ + One - Total(q)]

-----------------------------------------------------------------------------
(* compute_portfolio_weights: market value, else targets, else equal.  The   *)
(* weights are given as a function of numerators and their common base.      *)
(* p is a set of positions' names with their shares and targets.             *)
MarketValue(shares, closes) ==
    [n \in DOMAIN shares |-> IF shares[n] = None \/ n \notin DOMAIN closes THEN 0
                             ELSE shares[n] * closes[n]]
OrZero(f) == [n \in DOMAIN f |-> IF f[n] = None THEN 0 ELSE f[n]]
PortfolioWeights(shares, targets, closes) ==
    LET mv == MarketValue(shares, closes)
        tw == OrZero(targets)
    IN  IF Total(mv) > 0 THEN mv
        ELSE IF Total(tw) > 0 THEN tw
        ELSE [n \in DOMAIN shares |-> 1]

(* RebalanceEngine.suggest.  Deltas are numerators over the product of the   *)
(* two bases; a name without a target is not in the plan.                    *)
Targeted(targets) == {n \in DOMAIN targets : targets[n] # None}
(* Drift from targets as entered, not as shares of their sum. *)
DeltasRaw(shares, targets, closes) ==
    LET w == PortfolioWeights(shares, targets, closes)
    IN  [n \in Targeted(targets) |-> targets[n] * Total(w) - w[n] * One]
Deltas(shares, targets, closes) ==
    LET w == PortfolioWeights(shares, targets, closes)
    IN  [n \in Targeted(targets) |->
            targets[n] * Total(w) - w[n] * Total(OrZero(targets))]
DeltaBase(shares, targets, closes) ==
    Total(PortfolioWeights(shares, targets, closes)) * Total(OrZero(targets))
(* Twice the total drift, over the same base. *)
DriftTwice(d) == Total([n \in DOMAIN d |-> Magnitude(d[n])])
(* The fraction a / b, rounded half up to quanta. *)
Quanta(a, b) == (2 * (a * One) + b) \div (2 * b)
(* Only the names off by more than the threshold, which is in quanta, are    *)
(* traded; they are listed with the largest rounded delta first.  The need   *)
(* to rebalance is told from the rounded drift.                              *)
Plan(shares, targets, closes, threshold) ==
    LET d == Deltas(shares, targets, closes)
        base == DeltaBase(shares, targets, closes)
        drift == Quanta(DriftTwice(d), 2 * base)
        breach == {n \in DOMAIN d : Magnitude(d[n]) * One > threshold * base}
        size == [n \in breach |-> Quanta(Magnitude(d[n]), base)]
    IN  IF Total(OrZero(targets)) = 0 THEN None
        ELSE [base |-> base, threshold |-> threshold, targeted |-> DOMAIN d,
              drift |-> drift, needed |-> drift > threshold,
              trades |-> [n \in breach |-> d[n]],
              listed |-> SetToSortSeq(breach, LAMBDA m, n :
                  \/ size[m] > size[n]
                  \/ size[m] = size[n] /\ m < n)]

(* RiskEngine.metrics without its time series: concentration, exposure per   *)
(* sector, and the beta of the held names that have one, each a fraction.    *)
Beta(w, betas) ==
    LET covered == {n \in DOMAIN w : w[n] > 0 /\ betas[n] # None}
    IN  IF covered = {} THEN None
        ELSE <<Total([n \in covered |-> w[n] * betas[n]]), SumFunctionOnSet(w, covered)>>
Metrics(w, betas) ==
    [hhi |-> <<Total([n \in DOMAIN w |-> w[n] * w[n]]), Total(w) * Total(w)>>,
     exposure |-> [s \in {SectorOf[n] : n \in DOMAIN w \cap DOMAIN SectorOf} |->
                      <<Exposed(w, s), Total(w)>>],
     beta |-> Beta(w, betas)]
=============================================================================
