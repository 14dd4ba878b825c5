------------------------- MODULE MCFundamentalVersions -------------------------
(* FundamentalVersions with a stock of two filings and one the provider has  *)
(* nothing for.  Of the two values one has more digits than the columns      *)
(* keep.                                                                     *)
EXTENDS FundamentalVersions

CONSTANTS newer, older, long, rounded, exact

MCFilings == {newer, older}
MCFilingsOf == <<<<newer, older>>, <<>>>>
MCValues == {long, exact}
MCStored == [v \in Values |-> IF v = long THEN rounded ELSE v]
=============================================================================
