----------------------------- MODULE MCWorkspace -----------------------------
(* The components around the nightly pipeline that share no state with one   *)
(* another: news, the event bus, scoring, a portfolio and its tools, and     *)
(* sessions.  The initial state picks the part a behaviour exercises, and    *)
(* the variables of the others keep their initial values.                    *)
(*   "ingest"   News over three hours; nothing is tagged or scored           *)
(*   "tag"      News over the first hour, two taggers, companies listed late *)
(*   "rate"     News over the first hour: fetched, tagged, then rated        *)
(*   "bus"      EventBus                                                     *)
(*   "score"    Scoring                                                      *)
(*   "edit"     Portfolios: two callers, two names, one of two bodies        *)
(*   "tools"    Portfolios: one caller, a body by name, every analysis       *)
(*   "session"  Sessions                                                     *)
EXTENDS News, EventBus, Scoring, Portfolios, Sessions, TLC

CONSTANT Parts
VARIABLE part
allVars == <<part, newsVars, busVars, scoringVars, portfolioVars, sessionVars>>

MCInit == /\ part \in Parts
          /\ NewsInit /\ BusInit /\ PortfolioInit /\ SessionsInit /\ ScoringInit
          /\ part # "bus" => backend = "in_process"
          /\ part # "score" => inputs = CHOOSE i \in FirstInputs : TRUE

(* Tagging and rating only need the news to be there. *)
Calm == misses' <= 1 /\ hours' \subseteq {0} /\ clock' <= 2
NewsPart ==
    /\ NewsNext
    /\ \/ part = "ingest" /\ UNCHANGED <<tagVars, scoreVars>>
       \/ part = "tag" /\ UNCHANGED scoreVars /\ Calm
       \/ /\ part = "rate" /\ UNCHANGED catalogue /\ Calm
          /\ fetch' # Idle => clock = 1 /\ misses' = 0
          /\ hours = {} => UNCHANGED tagVars
          /\ hours = {} \/ news # MarkedRows => UNCHANGED scoreVars

(* One revision, of two cells. *)
ScoringPart ==
    /\ ScoringNext
    /\ inputs' # inputs => \/ inputs'["pe"] # inputs["pe"] /\ inputs'["pe"]["a"] = Missing
                           \/ inputs'["roe"] # inputs["roe"] /\ inputs'["roe"]["d"] = 7

Body(t, s) == [target |-> t, shares |-> s]
EditBodies == {Body(7, None), Body(None, 1)}
ToolBodies == {<<1, Body(4, 2)>>, <<2, Body(3, 1)>>, <<3, Body(None, 1)>>, <<3, Body(3, None)>>}
Quiet == \A c \in Clients : open[c] = None
EditPart ==
    /\ \/ \E c \in Clients : BeginPut(c) \/ CommitPut(c) \/ BeginRisk(c) \/ CommitRisk(c)
       \/ \E n \in Names : DeletePosition(n)
       \/ DeletePortfolio
    /\ \A c \in Clients : open'[c] # None /\ open'[c] # open[c] =>
          IF open'[c].op = "risk" THEN open'[c].market[1].close = None
          ELSE open'[c].name # 3 /\ open'[c].body \in EditBodies
ToolsPart ==
    /\ ((snapshots = {} /\ PortfolioNext) \/ Answered \/ DeletePortfolio)
    /\ DOMAIN positions' \in {{}, {2}, {3}, {2, 3}, {1, 2, 3}}
    /\ (Quiet \/ \E c \in Clients : CommitPut(c) \/ CommitRisk(c))
    /\ \A c \in Clients : open'[c] # None /\ open'[c] # open[c] =>
          (open'[c].op = "put" => <<open'[c].name, open'[c].body>> \in ToolBodies)

(* Time passes between requests, and one signs in when signed out. *)
SessionPart ==
    /\ SessionsNext
    /\ instant' # instant => \A t \in Tabs : request[t] = Free
    /\ \A t \in Tabs : request[t] = Free /\ jar # 0 => ~Stage(t, "issue")'

MCNext ==
    /\ UNCHANGED part
    /\ \/ NewsPart /\ UNCHANGED <<busVars, scoringVars, portfolioVars, sessionVars>>
       \/ part = "bus" /\ BusNext
          /\ UNCHANGED <<newsVars, scoringVars, portfolioVars, sessionVars>>
       \/ part = "score" /\ ScoringPart
          /\ UNCHANGED <<newsVars, busVars, portfolioVars, sessionVars>>
       \/ /\ (part = "edit" /\ EditPart) \/ (part = "tools" /\ ToolsPart)
          /\ UNCHANGED <<newsVars, busVars, scoringVars, sessionVars>>
       \/ part = "session" /\ SessionPart
          /\ UNCHANGED <<newsVars, busVars, scoringVars, portfolioVars>>

MCSpec == MCInit /\ [][MCNext]_allVars

-----------------------------------------------------------------------------
Company(s, symbol, name) == [stock |-> s, symbol |-> symbol, isin |-> "", name |-> name]
MCCompanies ==
    {Company("k", "KJ", <<"kalyan", "jewellers", "india", "ltd">>),
     Company("b", "BOI", <<"bank", "of", "india">>),
     Company("j", "KALYAN", <<"kalyan", "jewellers", "ltd">>)}
MCListed == {c \in MCCompanies : c.stock # "j"}

MCFeeds == << <<"gnews", 1>>, <<"finnhub", 1>> >>
Piece == [url |-> "u1", pub |-> 0, feeds |-> ToSet(MCFeeds), words |-> <<"kalyan", "jewellers">>,
          marks |-> {}, cues |-> {"upgrade"}, pos |-> 2, neg |-> 0]
MCArticles ==
    {Piece,
     [Piece EXCEPT !.url = NoUrl, !.pub = 1, !.feeds = {MCFeeds[2]},
                   !.words = <<"bank", "of", "india", "beats">>, !.marks = {"KALYAN"},
                   !.cues = {"earnings_beat", "earnings_miss"}, !.pos = 1, !.neg = 2],
     [Piece EXCEPT !.url = "u3", !.pub = 2, !.words = <<"bank", "holiday">>],
     [Piece EXCEPT !.url = "u3", !.pub = 2, !.feeds = {MCFeeds[1]}, !.words = <<"bank", "shut">>]}

MCHandlers == "prices" :> <<"validate">> @@ "scored" :> <<"alerts", "audit">> @@ "free" :> <<>>

-----------------------------------------------------------------------------
(* Three peers and a stock alone in its sector; two fundamental factors and  *)
(* one of quality, with ties, gaps, and a factor nobody has.  With Winsor 4  *)
(* the lowest of three peers is clipped to the second.                       *)
MCFactors == <<"pe", "pb", "roe">>
MCGroups == "a" :> "it" @@ "b" :> "it" @@ "c" :> "it" @@ "d" :> "bank"
Peers(a, b, c, d) == "a" :> a @@ "b" :> b @@ "c" :> c @@ "d" :> d
Said(x, z) == "pe" :> x @@ "pb" :> Peers(7, 1, Missing, 1) @@ "roe" :> z
Nobody == Peers(Missing, Missing, Missing, Missing)
MCInputs ==
    {Said(Peers(1, 3, 7, 3), z) : z \in {Peers(1, 7, 7, Missing), Nobody}} \cup
    {Said(Peers(Missing, 1, 1, 7), z) : z \in {Peers(1, 7, 7, Missing), Peers(7, 3, 1, 3)}} \cup
    {Said(Peers(3, 3, 3, Missing), z) : z \in {Peers(7, 3, 1, 3), Nobody}}

-----------------------------------------------------------------------------
MCBodies == EditBodies \cup {b[2] : b \in ToolBodies}
MCSectors == 1 :> "energy" @@ 2 :> "energy" @@ 3 :> "banks"
NoCaps == [s \in {} |-> 0]
Unlimited == [max |-> None, min |-> 0, longOnly |-> TRUE, caps |-> NoCaps, cmin |-> None,
              cmax |-> None, vol |-> None, ret |-> None, turnover |-> None]
Sets == {Unlimited,
         [Unlimited EXCEPT !.max = 4, !.min = 4],
         [Unlimited EXCEPT !.max = 6, !.cmax = 2, !.longOnly = FALSE],
         [Unlimited EXCEPT !.cmin = 2, !.min = 5],
         [Unlimited EXCEPT !.cmin = 3, !.min = 5],
         [Unlimited EXCEPT !.caps = "energy" :> 4],
         [Unlimited EXCEPT !.caps = "energy" :> 4 @@ "banks" :> 5],
         [Unlimited EXCEPT !.caps = "energy" :> 5 @@ "banks" :> 5, !.min = 3]}
Asked(m, o, c) == [method |-> m, objective |-> o, constraints |-> c]
MCRequests ==
    {Asked("mean_variance", "min_vol", c) : c \in Sets} \cup
    {Asked("risk_parity", "min_vol", c) : c \in Sets} \cup
    {Asked("hrp", "min_vol", Unlimited),
     Asked("risk_parity", "min_vol", [Unlimited EXCEPT !.max = 4, !.min = 6]),
     Asked("mean_variance", "target_return", Unlimited),
     Asked("mean_variance", "max_sharpe", [Unlimited EXCEPT !.ret = 1]),
     Asked("mean_variance", "target_return", [Unlimited EXCEPT !.ret = 1, !.vol = 1])}
Quote(c, b) == [close |-> c, beta |-> b]
MCMarkets == {1 :> Quote(1, 2) @@ 2 :> Quote(3, None) @@ 3 :> Quote(None, 1),
              1 :> Quote(1, 1) @@ 2 :> Quote(1, None) @@ 3 :> Quote(None, None),
              1 :> Quote(None, None) @@ 2 :> Quote(None, None) @@ 3 :> Quote(1, 3)}

-----------------------------------------------------------------------------
MCLower == "a@x" :> "a@x" @@ "A@x" :> "a@x"

(* Every process has one twin; exchanging all the twins at once changes      *)
(* nothing.                                                                  *)
Swap(S) == [x \in S |-> CHOOSE y \in S : y # x]
Twins == {Swap(Taggers) @@ Swap(Scorers) @@ Swap(Readers) @@ Swap(Clients) @@ Swap(Tabs)}

(* One row per article with a URL, one link per row and stock, one rating    *)
(* per row and model; entries in hand or pending are published and not yet   *)
(* acknowledged; only known names are held (the unique keys of news,         *)
(* news_stocks and sentiment, the consumer group, the positions table).      *)
WellFormed == NewsTypeOK /\ BusTypeOK /\ PortfolioTypeOK
=============================================================================
