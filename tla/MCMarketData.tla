------------------------------ MODULE MCMarketData ------------------------------
(* The market data components that share no state, each on its own: the      *)
(* initial state picks the part a behaviour exercises, and the variables of  *)
(* the others keep their initial values.  The state spaces add up instead of *)
(* multiplying.                                                              *)
(*   "prices"      AdjustedPrices                                            *)
(*   "resync"      Resync                                                    *)
(*   "membership"  IndexMembership, two workers; no bar is ever stored       *)
(*   "engine"      BacktestEngine; the index changes once                    *)
(*   "partitions"  Partitions                                                *)
EXTENDS AdjustedPrices, Resync, BacktestEngine, Partitions, TLC

CONSTANTS w1, w2

VARIABLE part
allVars == <<part, priceVars, resyncVars, engineVars, partitionVars>>

MCInit ==
    /\ part \in {"prices", "resync", "membership", "engine", "partitions"}
    /\ PricesInit /\ ResyncInit /\ EngineInit /\ PartitionsInit
    /\ part # "engine" => \A s \in Stocks : panel[s][session] = NoPrice

NoPanel == \A s \in Stocks, d \in Sessions : panel[s][d] = NoPrice

(* Only the first session's indicators may be late.  A signal about an       *)
(* earlier session comes in after the backtest, or the index changes.        *)
Computed(d) == \A s \in active_universe : panel[s][d] # NoPrice => indicators[s][d] # NoPrice
EnginePart ==
    /\ EngineNext
    /\ reports' <= 1 /\ syncs' <= 1 /\ loads' = 0 /\ tx'[w2] = NoTx
    /\ session' # session => session = 1 \/ Computed(session)
    /\ indicators' # indicators => \A d \in 2..session - 1 : Computed(d)
    /\ signals' = {} \/ reports' = 0
    /\ signals' # signals =>
           saved # NoResult /\ \A x \in signals' : x.stock = 1 /\ x.dated < x.known

MCNext ==
    /\ UNCHANGED part
    /\ \/ part = "prices" /\ PricesNext /\ UNCHANGED <<resyncVars, engineVars, partitionVars>>
       \/ part = "resync" /\ ResyncNext /\ UNCHANGED <<priceVars, engineVars, partitionVars>>
       \/ /\ part = "membership" /\ EngineNext /\ UNCHANGED <<priceVars, resyncVars, partitionVars>>
          /\ saved' = NoResult /\ signals' = {} /\ NoPanel'
       \/ part = "engine" /\ EnginePart /\ UNCHANGED <<priceVars, resyncVars, partitionVars>>
       \/ /\ part = "partitions" /\ PartitionsNext
          /\ UNCHANGED <<priceVars, resyncVars, engineVars>>

MCSpec == MCInit /\ [][MCNext]_allVars

-----------------------------------------------------------------------------
(* Two splits and a dividend, two of the ex-dates in one run's window. *)
MCEvents == {[kind |-> "split", ex |-> 2], [kind |-> "split", ex |-> 3],
             [kind |-> "dividend", ex |-> 2]}

Plain == [only |-> {}, skip |-> {}, from |-> "", force |-> FALSE, tolerant |-> FALSE,
          lastDay |-> FALSE, carryOn |-> FALSE]
MCRequests ==
    {Plain,
     [Plain EXCEPT !.force = TRUE, !.tolerant = TRUE],
     [Plain EXCEPT !.force = TRUE, !.lastDay = TRUE],
     [Plain EXCEPT !.only = {"prices", "indicators", "factors_scores"}, !.carryOn = TRUE],
     [Plain EXCEPT !.from = "fundamentals", !.skip = {"macro"}, !.carryOn = TRUE],
     [Plain EXCEPT !.only = {"corpactions", "parquet"}]}

BarsOf(a, b) == [s \in Stocks |-> IF s = 1 THEN a ELSE b]
MCMarketDays == {BarsOf(1, 2), BarsOf(2, 1), BarsOf(NoPrice, 1), BarsOf(NoPrice, NoPrice)}
MCSpecs == {[type |-> "factor_strategy", topN |-> 1, symbols |-> {}, every |-> 2],
            [type |-> "custom_basket", topN |-> 1, symbols |-> {1, 2}, every |-> 1]}

TwoRuns == Permutations(Runs)

(* One type invariant for the parts. *)
WellFormed == PricesTypeOK /\ MembershipTypeOK /\ PartitionsTypeOK
=============================================================================
