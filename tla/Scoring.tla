------------------------------- MODULE Scoring -------------------------------
(* From raw factors to scores, for one market and date: FactorEngine reads   *)
(* each factor of the universe and normalizes it against the stock's sector, *)
(* the factor job upserts that snapshot, the score job reads it back and     *)
(* projects it into category scores and a composite, and decompose explains  *)
(* a composite from the factors of its date.  Percentiles count Full units   *)
(* to 100 and are exact, the four decimals of their columns being enough for *)
(* every property here; a fraction is a pair <<n, d>> with d > 0; a score    *)
(* keeps two decimals.                                                       *)
EXTENDS Integers, Sequences, FiniteSets, Functions

CONSTANTS
    Stocks,        \* the active universe
    PeerGroup,     \* stocks.sector
    Factors,       \* keys of the engines' factors, in their order
    Raws,          \* raw values
    Missing,       \* no value
    FirstInputs,   \* what the context can say of the date at first
    Winsor,        \* 1 / Winsor is _WINSOR_LO, 1 - 1 / Winsor is _WINSOR_HI
    Full,          \* the percentile 100
    MaxRevisions   \* bound: raw values that change

(* ALL_FACTORS: category and direction. *)
Fundamental == {"pe", "pb"}
Quality == {"roe", "roce", "debt_equity"}
Momentum == {"ret_3m", "ret_6m", "ret_12m"}
Risk == {"beta", "vol_30d"}
Sentiment == {"sentiment"}
Categories == {Fundamental, Momentum, Quality, Sentiment, Risk}
CategoryOf(f) == CHOOSE c \in Categories : f \in c
Direction(f) == IF f \in Fundamental \cup Risk \cup {"debt_equity"} THEN -1 ELSE 1

(* DEFAULT_WEIGHTS, in tenths. *)
WeightOf(c) == IF c = Fundamental THEN 4 ELSE IF c \in {Momentum, Quality} THEN 2 ELSE 1
Weights == [c \in Categories |-> WeightOf(c)]

FactorKeys == {Factors[i] : i \in DOMAIN Factors}
Values == [raw : Raws, sector : Int, universe : Int]

(* A universe of any size; Full is a unit in which its ranks are whole.      *)
ASSUME ScoringAssumption ==
    /\ Raws \subseteq Int /\ Missing \notin Raws /\ Missing \notin Values
    /\ IsFiniteSet(Stocks) /\ Winsor \in Nat \ {0}
    /\ Full \in Nat \ {0} /\ Full % 2 = 0
    /\ \A n \in 1..Cardinality(Stocks) : n > 1 => Full % (2 * (n - 1)) = 0
    /\ Factors \in Seq(UNION Categories)
    /\ FirstInputs \subseteq [FactorKeys -> [Stocks -> Raws \cup {Missing}]]

VARIABLES
    inputs,       \* inputs[f][s]: what the point-in-time reads would answer now
    revisions,    \* changes of it
    factorJob,    \* raw values read so far by the factor job, factor by factor
    rows,         \* factor_values: rows[s][f], Missing or a normalized value
    scoreJob,     \* the snapshot the score job has read
    scores,       \* scores[s], Missing or a score and what it was made from
    lastRead      \* raw values behind the last committed snapshot

scoringVars == <<inputs, revisions, factorJob, rows, scoreJob, scores, lastRead>>

NoFactors == [f \in FactorKeys |-> Missing]
NothingRead == <<>>

-----------------------------------------------------------------------------
(* Normalizer.normalize.  raw is a column of raw values; missing ones are    *)
(* excluded.                                                                 *)
Available(raw) == {s \in DOMAIN raw : raw[s] # Missing}
PeersOf(raw, s) == {t \in Available(raw) : PeerGroup[t] = PeerGroup[s]}

Rounded(n, d) == (2 * n + d) \div (2 * d)

(* The value at the quantile parts / Winsor of a group: the one of the       *)
(* nearest rank, counted from 0.                                             *)
Quantile(adj, group, parts) ==
    LET rank == Rounded(parts * (Cardinality(group) - 1), Winsor)
        upTo == {t \in group : Cardinality({u \in group : adj[u] < adj[t]}) <= rank}
    IN  adj[CHOOSE t \in upTo : \A u \in upTo : adj[u] <= adj[t]]

(* Outliers are clipped to the group's first and last percentile. *)
Winsorized(adj, group, s) ==
    LET low == Quantile(adj, group, 1)
        high == Quantile(adj, group, Winsor - 1)
        lifted == IF adj[s] < low THEN low ELSE adj[s]
    IN  IF lifted > high THEN high ELSE lifted

(* The square of the sector z-score (sample deviation) with its sign; a      *)
(* group of one, or without deviation, is neutral.                           *)
SignedSquare(w, group, s) ==
    LET n == Cardinality(group)
        sum == SumFunctionOnSet(w, group)
        squares == SumFunctionOnSet([t \in group |-> w[t] * w[t]], group)
        d == n * w[s] - sum
        v == n * squares - sum * sum
    IN  IF v = 0 THEN <<0, 1>> ELSE <<(IF d < 0 THEN -1 ELSE 1) * d * d * (n - 1), n * v>>

Less(p, q) == p[1] * q[2] < q[1] * p[2]
Same(p, q) == p[1] * q[2] = q[1] * p[2]

(* _percent_rank: (rank - 1) / (n - 1), ties at their average; alone, 50. *)
PercentRank(value, group, s) ==
    LET n == Cardinality(group)
        own == value[s]
        below == Cardinality({t \in group : Less(value[t], own)})
        equal == Cardinality({t \in group : Same(value[t], own)})
    IN  IF n > 1 THEN (Full * (2 * below + equal - 1)) \div (2 * (n - 1)) ELSE Full \div 2

Normalize(raw, direction) ==
    LET adj == [s \in Available(raw) |-> direction * raw[s]]
        w == [s \in Available(raw) |-> Winsorized(adj, PeersOf(raw, s), s)]
        whole == [s \in Available(raw) |-> <<w[s], 1>>]
        z == [s \in Available(raw) |-> SignedSquare(w, PeersOf(raw, s), s)]
    IN  [s \in Available(raw) |->
            [raw |-> raw[s],
             sector |-> PercentRank(whole, PeersOf(raw, s), s),
             universe |-> PercentRank(z, Available(raw), s)]]

(* compute_factor_values: only available factors. *)
Snapshot(raws) ==
    LET column == [f \in FactorKeys |-> Normalize(raws[f], Direction(f))]
    IN  [s \in Stocks |-> [f \in FactorKeys |->
            IF s \in DOMAIN column[f] THEN column[f][s] ELSE Missing]]

-----------------------------------------------------------------------------
(* ScoreEngine.compute_scores: the mean of each category, blended with the   *)
(* weights of the categories that are scored.  A category has one to three   *)
(* factors, so 6 / their number is whole.                                    *)
Scored(values) == {f \in FactorKeys : values[f] # Missing}
ScoredIn(values, c) == Scored(values) \cap c
Blended(values) == {c \in Categories : ScoredIn(values, c) # {}}
Percentiles(values) == [f \in Scored(values) |-> values[f].universe]
SixMeans(values, c) ==
    (6 \div Cardinality(ScoredIn(values, c)))
        * SumFunctionOnSet(Percentiles(values), ScoredIn(values, c))

(* Weights that are not renormalized: a missing category counts as zero. *)
TotalWeightFixed(values) == 10
TotalWeight(values) == SumFunctionOnSet(Weights, Blended(values))

Composite(values) ==
    LET weighted == [c \in Blended(values) |-> WeightOf(c) * SixMeans(values, c)]
    IN  <<SumFunctionOnSet(weighted, Blended(values)), 6 * TotalWeight(values)>>

(* numeric(_, 2): what a column of scores keeps, in hundredths.              *)
Hundredths(p) == Rounded(10000 * p[1], Full * p[2])
Coverage(values) == Rounded(10000 * Cardinality(Scored(values)), Len(Factors))

(* decompose: each factor's share of its category's renormalized weight. *)
Contribution(values, f) ==
    LET c == CategoryOf(f) IN
    WeightOf(c) * (6 \div Cardinality(ScoredIn(values, c))) * values[f].universe
SumOfContributions(values) ==
    LET categories == {CategoryOf(f) : f \in Scored(values)}
        total == SumFunctionOnSet(Weights, categories)
        contributions == [f \in Scored(values) |-> Contribution(values, f)]
    IN  <<SumFunctionOnSet(contributions, Scored(values)), 6 * (IF total = 0 THEN 1 ELSE total)>>

-----------------------------------------------------------------------------
ScoringInit ==
    /\ inputs \in FirstInputs /\ revisions = 0
    /\ factorJob = NothingRead /\ scoreJob = NothingRead
    /\ rows = [s \in Stocks |-> NoFactors]
    /\ scores = [s \in Stocks |-> Missing]
    /\ lastRead = [f \in FactorKeys |-> [s \in Stocks |-> Missing]]

(* A filing, an indicator row or an article changes what a factor reads.     *)
Revise(f, s, v) ==
    /\ revisions < MaxRevisions /\ v # inputs[f][s]
    /\ inputs' = [inputs EXCEPT ![f][s] = v]
    /\ revisions' = revisions + 1
    /\ UNCHANGED <<factorJob, rows, scoreJob, scores, lastRead>>

(* The transaction of compute_factors: one factor after the other, each of   *)
(* them for the whole universe, then the upsert of what was found.           *)
ComputeFactor ==
    /\ Len(factorJob) < Len(Factors)
    /\ factorJob' = Append(factorJob, inputs[Factors[Len(factorJob) + 1]])
    /\ UNCHANGED <<inputs, revisions, rows, scoreJob, scores, lastRead>>

WithFound(found) ==
    [s \in Stocks |-> [f \in FactorKeys |->
        LET new == found[s][f] IN IF new # Missing THEN new ELSE rows[s][f]]]

UpsertFactorValues ==
    /\ Len(factorJob) = Len(Factors)
    /\ LET raws == [f \in FactorKeys |->
                       factorJob[CHOOSE i \in DOMAIN Factors : Factors[i] = f]]
       IN  rows' = WithFound(Snapshot(raws)) /\ lastRead' = raws
    /\ factorJob' = NothingRead
    /\ UNCHANGED <<inputs, revisions, scoreJob, scores>>

(* compute_scores: factor_values_for in one query, then the upsert; a stock  *)
(* without factors is left as it is.                                         *)
FactorValuesFor ==
    /\ scoreJob = NothingRead /\ \E s \in Stocks : Scored(rows[s]) # {}
    /\ scoreJob' = rows
    /\ UNCHANGED <<inputs, revisions, factorJob, rows, scores, lastRead>>

UpsertScores ==
    /\ scoreJob # NothingRead
    /\ scores' = [s \in Stocks |->
          IF Scored(scoreJob[s]) = {} THEN scores[s]
          ELSE [composite |-> Hundredths(Composite(scoreJob[s])), coverage |-> Coverage(scoreJob[s]),
                from |-> scoreJob[s]]]
    /\ scoreJob' = NothingRead
    /\ UNCHANGED <<inputs, revisions, factorJob, rows, lastRead>>

ScoringNext ==
    \/ \E f \in FactorKeys, s \in Stocks, v \in Raws \cup {Missing} : Revise(f, s, v)
    \/ ComputeFactor \/ UpsertFactorValues \/ FactorValuesFor \/ UpsertScores

ScoringSpec == ScoringInit /\ [][ScoringNext]_scoringVars

-----------------------------------------------------------------------------
(* The snapshot a run commits is balanced: over the stocks that have the     *)
(* factor the percentiles average 50, and a better raw value than a peer's   *)
(* never gets a lower percentile, in the sector or in the universe.          *)
SnapshotIsBalanced ==
    \A f \in FactorKeys :
        LET had == Available(lastRead[f]) IN
        /\ 2 * SumFunctionOnSet([s \in had |-> rows[s][f].universe], had) = Full * Cardinality(had)
        /\ \A s \in had : \A t \in PeersOf(lastRead[f], s) :
              Direction(f) * rows[s][f].raw >= Direction(f) * rows[t][f].raw =>
                  /\ rows[s][f].sector >= rows[t][f].sector
                  /\ rows[s][f].universe >= rows[t][f].universe

(* US-02 (services.py:3): as long as the factors of its date are those it    *)
(* was made from, a composite is, to the decimals it keeps, the sum of the   *)
(* contributions decompose gives, and lies between the lowest and the        *)
(* highest of their percentiles; a missing factor pulls it neither way.      *)
CompositeIsExplained ==
    \A s \in Stocks : scores[s] # Missing =>
        LET score == scores[s]
            had == Scored(score.from)
        IN  /\ had # {}
            /\ rows[s] = score.from => score.composite = Hundredths(SumOfContributions(rows[s]))
            /\ \E f \in had : score.composite >= Hundredths(<<score.from[f].universe, 1>>)
            /\ \E f \in had : score.composite <= Hundredths(<<score.from[f].universe, 1>>)

(* Of two peers with the same factors, one at least as good in each of them  *)
(* scores at least as high, as long as the data did not change under a run.  *)
BetterPeersScoreHigher ==
    \A s, t \in {x \in Stocks : scores[x] # Missing} :
        LET of == scores[s].from
            other == scores[t].from IN
        (revisions = 0 /\ PeerGroup[s] = PeerGroup[t] /\ Scored(of) = Scored(other)
            /\ \A f \in Scored(of) : Direction(f) * of[f].raw >= Direction(f) * other[f].raw)
        => scores[s].composite >= scores[t].composite

(* What a run stores and a score blends and decompose explains agree         *)
(* (Normalizer.normalize, ScoreEngine.compute_scores, decompose).            *)
ScoresExplainThemselves ==
    SnapshotIsBalanced /\ CompositeIsExplained /\ BetterPeersScoreHigher
=============================================================================
