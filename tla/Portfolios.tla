------------------------------ MODULE Portfolios ------------------------------
(***************************************************************************)
(* One portfolio, its positions and the tools that read them               *)
(* (api/routes_portfolios.py, portfolio/repositories.py).                  *)
(*                                                                         *)
(* A request runs in a transaction of its own at READ COMMITTED: what it   *)
(* read may have changed by the time it writes.  Requests that only read   *)
(* take one step; Begin... and Commit... are the two halves of the others. *)
(***************************************************************************)
EXTENDS Allocations

CONSTANTS
    Clients,      \* callers of the API, of the tenant that owns the portfolio
    Bodies,       \* PUT bodies: [target, shares], None where absent
    Requests,     \* optimize bodies: [method, objective, constraints]
    Markets,      \* [close, beta] by name at the latest price date
    Thresholds,   \* drift thresholds of a rebalance request
    Days          \* latest price dates

OptionalWeight == (0..One) \cup {None}
Positions == [target : OptionalWeight, shares : Nat \cup {None}]

(* What the wire models and the columns admit (UpsertPositionRequest,        *)
(* RebalanceRequest, OptimizeConstraints, daily_prices.close,                *)
(* technical_indicators.beta_1y).                                            *)
Statuses == [kind : Range(KindOrder), satisfied : BOOLEAN, slack : Int \X Int]
OptionalInt == Int \cup {None}
OptionalCount == (Nat \ {0}) \cup {None}
IsConstraints(c) ==
    /\ c \in [max : OptionalInt, min : 0..One, longOnly : BOOLEAN, caps : {c.caps},
              cmin : OptionalCount, cmax : OptionalCount,
              vol : OptionalInt, ret : OptionalInt, turnover : OptionalInt]
    /\ c.caps \in [DOMAIN c.caps -> Int] /\ IsFiniteSet(DOMAIN c.caps)
ASSUME PortfolioAssumption ==
    /\ None \notin Int /\ None \notin Statuses
    /\ Bodies \subseteq Positions /\ Thresholds \subseteq 0..One
    /\ Markets \subseteq [Names -> [close : Nat \cup {None}, beta : OptionalInt]]
    /\ \A r \in Requests : IsConstraints(r.constraints)

VARIABLES
    exists,       \* the row of the portfolio
    positions,    \* name -> [target, shares]
    open,         \* client -> the request between its halves, or None
    raced,        \* a PUT wrote on top of positions that it had not read
    snapshots,    \* days that have a risk snapshot
    answer        \* the last computed answer, until it is taken

portfolioVars == <<exists, positions, open, raced, snapshots, answer>>

Targets(book) == [n \in DOMAIN book |-> book[n].target]
SharesOf(book) == [n \in DOMAIN book |-> book[n].shares]
Closes(market) == [n \in {m \in DOMAIN market : market[m].close # None} |-> market[n].close]
Betas(market) == [n \in DOMAIN market |-> market[n].beta]

PortfolioInit ==
    /\ exists = TRUE
    /\ positions = [n \in {} |-> None]
    /\ open = [c \in Clients |-> None]
    /\ raced = FALSE
    /\ snapshots = {}
    /\ answer = None

-----------------------------------------------------------------------------
(* Positions. *)

(* Only what is stored: the incoming target is not part of the sum. *)
ProjectedStored(book, name, body) == Total(OrZero(Targets(book)))
(* The targets of the other positions, and the incoming one. *)
Projected(book, name, body) ==
    Total(OrZero([n \in (DOMAIN book \cup {name}) |->
                     IF n = name THEN body.target ELSE book[n].target]))

(* validate_position_weights, on what list_positions returned. *)
BeginPut(c) ==
    /\ open[c] = None
    /\ exists
    /\ \E name \in Names, body \in Bodies :
          /\ Projected(positions, name, body) <= One + Eps
          /\ open' = [open EXCEPT ![c] =
                         [op |-> "put", name |-> name, body |-> body, read |-> positions]]
    /\ UNCHANGED <<exists, positions, raced, snapshots, answer>>

(* A field that the body leaves out keeps its value. *)
Upserted(book, name, body) ==
    LET old == IF name \in DOMAIN book THEN book[name] ELSE [target |-> None, shares |-> None]
        Coalesce(new, stored) == IF new = None THEN stored ELSE new
    IN  [n \in DOMAIN book \cup {name} |->
            IF n # name THEN book[n]
            ELSE [target |-> Coalesce(body.target, old.target),
                  shares |-> Coalesce(body.shares, old.shares)]]

(* The foreign key refuses the row of a portfolio deleted meanwhile. *)
CommitPut(c) ==
    /\ open[c] # None /\ open[c].op = "put"
    /\ open' = [open EXCEPT ![c] = None]
    /\ IF exists
       THEN /\ positions' = Upserted(positions, open[c].name, open[c].body)
            /\ raced' = (raced \/ open[c].read # positions)
       ELSE UNCHANGED <<positions, raced>>
    /\ UNCHANGED <<exists, snapshots, answer>>

DeletePosition(n) ==
    /\ n \in DOMAIN positions
    /\ positions' = [m \in DOMAIN positions \ {n} |-> positions[m]]
    /\ UNCHANGED <<exists, open, raced, snapshots, answer>>

(* Positions and risk snapshots cascade. *)
DeletePortfolio ==
    /\ exists
    /\ exists' = FALSE
    /\ positions' = [n \in {} |-> None]
    /\ snapshots' = {}
    /\ UNCHANGED <<open, raced, answer>>

-----------------------------------------------------------------------------
(* Risk: the metrics of the positions that were read, then an upsert of the  *)
(* snapshot of the day.                                                      *)
BeginRisk(c) ==
    /\ open[c] = None
    /\ exists /\ DOMAIN positions # {}
    /\ \E day \in Days, market \in Markets :
          open' = [open EXCEPT ![c] =
                      [op |-> "risk", day |-> day, market |-> market, read |-> positions]]
    /\ UNCHANGED <<exists, positions, raced, snapshots, answer>>

CommitRisk(c) ==
    /\ open[c] # None /\ open[c].op = "risk" /\ answer = None
    /\ open' = [open EXCEPT ![c] = None]
    /\ IF exists
       THEN /\ snapshots' = snapshots \cup {open[c].day}
            /\ answer' =
                  LET book == open[c].read
                      betas == Betas(open[c].market)
                      w == PortfolioWeights(SharesOf(book), Targets(book), Closes(open[c].market))
                  IN  [kind |-> "risk", weights |-> w, betas |-> betas,
                       metrics |-> Metrics(w, betas)]
       ELSE UNCHANGED <<snapshots, answer>>
    /\ UNCHANGED <<exists, positions, raced>>

-----------------------------------------------------------------------------
(* Optimize. *)
Refused(r, names, stage, kind) ==
    [kind |-> "infeasible", request |-> r, names |-> names, stage |-> stage, binding |-> kind]

(* The rounded book, validated by check without volatility, return or prior. *)
Validated(r, w) ==
    LET c == r.constraints
        failed == Binding(Check(c, [w |-> w, vol |-> None, ret |-> None, prior |-> None]))
    IN  IF CheckRaises(c, w) THEN [kind |-> "error", request |-> r]
        ELSE IF failed # None THEN Refused(r, DOMAIN w, "check", failed.kind)
        ELSE [kind |-> "optimized", request |-> r, weights |-> w]

(* Without a solution the probe for the highest return is empty too. *)
Diagnoses(r, unsolvable) ==
    LET c == r.constraints
        other == IF c.vol # None THEN "target_volatility" ELSE "full_investment"
    IN  IF c.ret = None THEN {other}
        ELSE IF unsolvable THEN {"target_return"} ELSE {"target_return", other}

(* The outcomes of _solve, the raw books among them.  Whether a target that  *)
(* depends on the returns can be met is not known here, and any status but   *)
(* OPTIMAL - inaccurate, out of iterations - counts as without a solution.   *)
MeanVariance(r, names) ==
    LET c == r.constraints
        solutions == Solutions(c, names)
    IN  IF r.objective = "target_return" /\ c.ret = None
        THEN [books |-> {}, refusals |-> {"target_return"}]
        ELSE [books |-> solutions, refusals |-> Diagnoses(r, solutions = {})]
RiskParity(r, names) ==
    [books |-> ParitySolutions(r.constraints, names), refusals |-> {"full_investment"}]

(* The answers there can be for names, the columns of the returns matrix.    *)
(* Nobody catches the SolverError of a solver that gives up.                 *)
Optimized(r, names) ==
    LET structural == Binding(Feasibility(r.constraints, names))
        solved == IF r.method = "risk_parity" THEN RiskParity(r, names)
                  ELSE MeanVariance(r, names)
    IN  IF names = {} THEN {Refused(r, names, "matrix", "cardinality")}
        ELSE IF structural # None THEN {Refused(r, names, "structure", structural.kind)}
        ELSE {Validated(r, DecimalWeights(r.constraints.longOnly, x)) : x \in solved.books} \cup
             {Refused(r, names, "solve", k) : k \in solved.refusals} \cup
             {[kind |-> "solver_error"]}

(* Names with too little history are not among the columns; a matrix with    *)
(* fewer than two rows is refused as if it had none.                         *)
Columns(book) == SUBSET DOMAIN book

(* The wire model of the constraints. *)
Accepted(c) ==
    /\ c.max # None => c.max \in 1..One /\ c.min <= c.max
    /\ \A s \in DOMAIN c.caps : c.caps[s] \in 1..One
    /\ c.cmin # None /\ c.cmax # None => c.cmin <= c.cmax

(* Ownership comes before the plan, the plan before the method. *)
Implemented == {"mean_variance", "risk_parity"}
Optimize ==
    /\ answer = None
    /\ \E r \in Requests :
          \/ ~Accepted(r.constraints) /\ answer' = [kind |-> "validation_error"]
          \/ Accepted(r.constraints) /\ ~exists /\ answer' = [kind |-> "not_found"]
          \/ Accepted(r.constraints) /\ exists /\ answer' = [kind |-> "entitlement_exceeded"]
          \/ /\ Accepted(r.constraints) /\ exists
             /\ r.method \notin Implemented \/ DOMAIN positions = {}
             /\ answer' = [kind |-> "validation_error"]
          \/ /\ Accepted(r.constraints) /\ exists
             /\ r.method \in Implemented /\ DOMAIN positions # {}
             /\ \E names \in Columns(positions) : answer' \in Optimized(r, names)
    /\ UNCHANGED <<exists, positions, open, raced, snapshots>>

Rebalance ==
    /\ answer = None
    /\ exists /\ DOMAIN positions # {}
    /\ \E market \in Markets, threshold \in Thresholds :
          LET plan == Plan(SharesOf(positions), Targets(positions), Closes(market), threshold)
          IN  answer' = IF plan = None THEN [kind |-> "validation_error"]
                        ELSE [kind |-> "plan", names |-> DOMAIN positions, plan |-> plan]
    /\ UNCHANGED <<exists, positions, open, raced, snapshots>>

(* The caller has its answer. *)
Answered == answer # None /\ answer' = None
            /\ UNCHANGED <<exists, positions, open, raced, snapshots>>

PortfolioNext ==
    \/ \E c \in Clients : BeginPut(c) \/ CommitPut(c) \/ BeginRisk(c) \/ CommitRisk(c)
    \/ \E n \in Names : DeletePosition(n)
    \/ DeletePortfolio \/ Optimize \/ Rebalance \/ Answered

PortfolioSpec == PortfolioInit /\ [][PortfolioNext]_portfolioVars

-----------------------------------------------------------------------------
PortfolioTypeOK ==
    /\ exists \in BOOLEAN /\ raced \in BOOLEAN
    /\ DOMAIN positions \subseteq Names /\ positions \in [DOMAIN positions -> Positions]
    /\ DOMAIN open = Clients /\ snapshots \subseteq Days

(* The targets of a portfolio add up to one at most, within the tolerance,   *)
(* whatever the order of edits that leave fields out and deletions; only two *)
(* overlapping PUTs can break that.  And nothing of a deleted portfolio is   *)
(* left, though requests that had found it were still under way.             *)
BookIsSound ==
    /\ ~raced => Total(OrZero(Targets(positions))) <= One + Eps
    /\ ~exists => DOMAIN positions = {} /\ snapshots = {}

(* What the constraints ask of a long-only book that is fully invested,      *)
(* stated without slacks: a name is held when its weight is not zero.        *)
Meets(c, w) ==
    LET held == {n \in DOMAIN w : w[n] > 0}
        InSector(s) == {n \in DOMAIN w \cap DOMAIN SectorOf : SectorOf[n] = s}
    IN  /\ Total(w) = One
        /\ c.max # None => \A n \in held : w[n] <= c.max
        /\ \A n \in held : w[n] >= c.min
        /\ c.cmin # None => Cardinality(held) >= c.cmin
        /\ c.cmax # None => Cardinality(held) <= c.cmax
        /\ \A s \in DOMAIN c.caps : SumFunctionOnSet(w, InSector(s)) <= c.caps[s]

(* An optimized book is fully invested to the last quantum and within the    *)
(* tolerance of every limit, whatever the solver missed and the rounding     *)
(* moved.  Long-only constraints that the structural check refuses really    *)
(* have no book - but for sector caps refused with a name that has no        *)
(* sector: the check counts the sectors of the others, no cap limits that    *)
(* name, and a book that holds it may exist.  And rounding a solution breaks *)
(* nothing that the solver was given but a sector cap, which is compared     *)
(* exactly.                                                                  *)
OptimizerAnswersAreTrue ==
    LET c == answer.request.constraints
        w == answer.weights
        count == Cardinality({n \in DOMAIN w : w[n] > Eps})
    IN  answer # None =>
        /\ answer.kind = "optimized" =>
              /\ Total(w) = One
              /\ \A n \in DOMAIN w : /\ c.longOnly => w[n] >= 0
                                     /\ c.max # None => w[n] <= c.max + Eps
                                     /\ w[n] > Eps => w[n] >= c.min - Eps
              /\ c.cmin # None => count >= c.cmin
              /\ c.cmax # None => count <= c.cmax
              /\ \A s \in DOMAIN c.caps : Exposed(w, s) <= c.caps[s]
        /\ answer.kind = "infeasible" =>
              /\ answer.stage = "check" => answer.binding \in
                    {"min_weight", "cardinality", "sector_cap"}
              /\ /\ answer.stage = "structure" /\ c.longOnly
                 /\ answer.binding = "sector_cap" => answer.names \subseteq DOMAIN SectorOf
                 => \A book \in [answer.names -> 0..One] : ~Meets(c, book)

(* The trades of a plan leave out the names off by no more than the          *)
(* threshold.  In a book with a target for every name, following the trades  *)
(* then needs or frees cash of at most one threshold for each name left out, *)
(* and there are trades only when the total drift has reached the threshold. *)
(* The drift stays in [0, 1]; concentration stays between an even book and a *)
(* single name; the beta of a portfolio lies between the betas it is made    *)
(* of, whatever names lack one.                                              *)
AnalysesAddUp ==
    LET p == answer.plan
        out == p.targeted \ DOMAIN p.trades
        w == answer.weights
        m == answer.metrics
        known == {answer.betas[n] : n \in {k \in DOMAIN w : w[k] > 0}} \ {None}
    IN  answer # None =>
        /\ answer.kind = "plan" =>
              /\ 0 <= p.drift /\ p.drift <= One
              /\ p.targeted = answer.names =>
                    /\ Magnitude(Total(p.trades)) * One <= (p.threshold * p.base) * Cardinality(out)
                    /\ DOMAIN p.trades # {} => p.drift >= p.threshold
        /\ answer.kind = "risk" =>
              /\ m.hhi[1] <= m.hhi[2] /\ m.hhi[2] <= Cardinality(DOMAIN w) * m.hhi[1]
              /\ m.beta # None => /\ Smallest(known) * m.beta[2] <= m.beta[1]
                                  /\ m.beta[1] <= Largest(known) * m.beta[2]

(* constraints.py promises of check and feasibility that they return a       *)
(* report, and that raising is left to raise_if_infeasible: no answer of the *)
(* solver makes check raise.                                                 *)
CheckReturnsAReport == answer # None => answer.kind # "error"
=============================================================================
