--------------------------------- MODULE News ---------------------------------
(***************************************************************************)
(* The news pipeline: ingest_news (hourly), tag_news, score_news, and the  *)
(* point-in-time sentiment signal that the factor job reads.               *)
(*                                                                         *)
(* Time is counted in ticks, TicksPerHour to an hour.  An article is a     *)
(* record of what the pipeline can tell apart: its link (or NoUrl), the    *)
(* tick it was published, the <<provider, query>> feeds that return it,    *)
(* its normalised words, the tickers and ISINs printed in it, its event    *)
(* cues and its positive and negative cue words.  A row of news is         *)
(* <<article, n>>: a link is stored once, an article without one once per  *)
(* fetch.                                                                  *)
(***************************************************************************)
EXTENDS Integers, Sequences, FiniteSets, FiniteSetsExt

CONSTANTS
    Articles,      \* [url, pub, feeds, words, marks, cues, pos, neg]
    NoUrl,
    Feeds,         \* the <<provider, query>> pairs, in the order of the fan-out
    Companies,     \* [stock, symbol, isin, name]; the catalogue is a set of these
    Listed,        \* the catalogue at the start
    Tickers,       \* the symbols of at least _MIN_SYMBOL_LEN characters
    SUFFIXES, Descriptors,
    Models,        \* model versions of ISentimentService
    Taggers, Scorers,
    TicksPerHour,
    Limit,         \* rows of one work list (5000)
    BatchSize,     \* rows of one sentiment transaction (32)
    LastTick,      \* bound: the clock
    MaxMisses,     \* bound: failed fetches and lost processes
    Idle

ASSUME NewsAssumption ==
    /\ TicksPerHour \in Nat \ {0} /\ Limit \in Nat \ {0} /\ BatchSize \in Nat \ {0}
    /\ LastTick \in Nat /\ MaxMisses \in Nat
    /\ \A a \in Articles : a.pub \in Nat /\ a.pos \in Nat /\ a.neg \in Nat
    /\ Feeds \in Seq({Feeds[i] : i \in DOMAIN Feeds})
    /\ \A a \in Articles : a.feeds \subseteq {Feeds[i] : i \in DOMAIN Feeds}
    /\ \A c \in Companies : c.name \in Seq(STRING)
    /\ Listed \subseteq Companies

VARIABLES
    clock,
    news,        \* rows of news
    fetch,       \* the ingest run, or Idle
    hours,       \* hours whose ingest key succeeded
    misses,      \* failed fetches and lost processes
    catalogue,   \* active stocks
    tagged,      \* <<row, catalogue read by the run that marked it>>
    links,       \* rows of news_stocks
    tagrun,      \* tagger -> its run, or Idle
    ratings,     \* rows of sentiment: [row, model, impact, at]
    scorerun     \* scorer -> its run, or Idle

newsVars == <<clock, news, fetch, hours, misses, catalogue, tagged, links, tagrun,
              ratings, scorerun>>
ingestVars == <<news, fetch, hours>>
tagVars == <<catalogue, tagged, links, tagrun>>
scoreVars == <<ratings, scorerun>>

-----------------------------------------------------------------------------
(* Matching: pure text, precision first. *)

(* Hourly runs with an hourly window. *)
WindowAnHour == TicksPerHour
FetchWindow == 2 * TicksPerHour
HourOf(t) == t \div TicksPerHour

(* The longest prefix whose last word is not in tail. *)
DropTail(name, tail) ==
    SubSeq(name, 1, Max({0} \cup {i \in DOMAIN name : name[i] \notin tail}))

CoreName(name) == DropTail(name, SUFFIXES)
(* Without the floor of two words of the short alias. *)
NameAliasesOneWord(name) ==
    LET core == CoreName(name)
        short == DropTail(core, SUFFIXES \cup Descriptors)
    IN  {core, short} \ {<<>>}
NameAliases(name) ==
    LET core == CoreName(name)
        short == DropTail(core, SUFFIXES \cup Descriptors)
    IN  IF core = <<>> THEN {}
        ELSE {core} \cup (IF Len(short) >= 2 THEN {short} ELSE {})

(* A name alias that two stocks share is in no index. *)
ByCore(cat) ==
    UNION {{<<alias, c.stock>> : alias \in
               {x \in NameAliases(c.name) : \A d \in cat \ {c} : x \notin NameAliases(d.name)}}
           : c \in cat}
BySymbol(cat) == {<<c.symbol, c.stock>> : c \in {c \in cat : c.symbol \in Tickers}}
ByIsin(cat) == {<<c.isin, c.stock>> : c \in {c \in cat : c.isin # ""}}

Phrases(words) == {SubSeq(words, i, j) : i, j \in DOMAIN words}

MatchAll(a, cat) ==
    {p[2] : p \in {p \in ByCore(cat) : p[1] \in Phrases(a.words)}} \cup
    {p[2] : p \in {p \in BySymbol(cat) \cup ByIsin(cat) : p[1] \in a.marks}}

-----------------------------------------------------------------------------
(* Impact: the dominant event's base, moved by the tone.  Scaled by 60, so   *)
(* that a tone of up to six cue words is exact.                              *)

EventOrder == <<"contract_win", "earnings_beat", "earnings_miss", "upgrade", "downgrade",
                "merger_acquisition", "capital_action", "management_change", "regulatory",
                "fraud_litigation", "distress">>
ImpactWeight(e) ==
    CASE e = "earnings_beat" -> 30 [] e = "contract_win" -> 25
      [] e = "merger_acquisition" -> 20 [] e = "upgrade" -> 20
      [] e = "capital_action" -> 15 [] e = "management_change" -> -10
      [] e = "downgrade" -> -25 [] e = "earnings_miss" -> -30
      [] e = "regulatory" -> -40 [] e = "fraud_litigation" -> -45
      [] e = "distress" -> -50 [] e = "none" -> 0

Abs(n) == IF n < 0 THEN -n ELSE n
(* The largest magnitude; among equals the first of the pattern table. *)
ClassifyEvent(cues) ==
    IF cues = {} THEN "none"
    ELSE LET strongest == {i \in DOMAIN EventOrder :
                              /\ EventOrder[i] \in cues
                              /\ \A e \in cues : Abs(ImpactWeight(e)) <=
                                                 Abs(ImpactWeight(EventOrder[i]))}
         IN  EventOrder[Min(strongest)]

ASSUME CuesAssumption ==
    \A a \in Articles : a.cues \subseteq {EventOrder[i] : i \in DOMAIN EventOrder}

Tone(a) == IF a.pos + a.neg = 0 THEN 0 ELSE (60 * (a.pos - a.neg)) \div (a.pos + a.neg)
Impact(a) ==
    Max({-6000, Min({6000, 60 * ImpactWeight(ClassifyEvent(a.cues)) + 25 * Tone(a)})})

-----------------------------------------------------------------------------
NewsInit ==
    /\ clock = 0 /\ news = {} /\ fetch = Idle /\ hours = {} /\ misses = 0
    /\ catalogue = Listed /\ tagged = {} /\ links = {}
    /\ tagrun = [w \in Taggers |-> Idle]
    /\ ratings = {} /\ scorerun = [w \in Scorers |-> Idle]

Tick ==
    /\ clock < LastTick
    /\ clock' = clock + 1
    /\ UNCHANGED <<misses, ingestVars, tagVars, scoreVars>>

Miss == misses < MaxMisses /\ misses' = misses + 1

(* ingest_news: the hour key and the window are both taken from the start. *)
StartFetch ==
    /\ fetch = Idle
    /\ HourOf(clock) \notin hours
    /\ fetch' = [until |-> clock, key |-> HourOf(clock), left |-> Feeds]
    /\ UNCHANGED <<clock, news, hours, misses, tagVars, scoreVars>>

Offers(feed, since, until) ==
    {a \in Articles : feed \in a.feeds /\ since <= a.pub /\ a.pub <= until}

(* Of an answer's articles with the same link the first is kept, whichever   *)
(* comes first.                                                              *)
Firsts(as) ==
    {q \in SUBSET as :
        /\ \A a \in as : \E b \in q : b.url = a.url /\ (a.url = NoUrl => b = a)
        /\ \A a, b \in q : a.url = b.url /\ a.url # NoUrl => a = b}

(* ON CONFLICT (source_url) DO NOTHING; a NULL link conflicts with nothing. *)
Stored(a) == {r \in news : r[1] = a}
(* Without the conflict clause. *)
UpsertNewsBlind(as) == news \cup {<<a, 1 + Cardinality(Stored(a))>> : a \in as}
UpsertNews(as) ==
    news \cup {<<a, 1 + Cardinality(Stored(a))>> :
                  a \in {a \in as : a.url = NoUrl \/ \A r \in news : r[1].url # a.url}}

FetchFeed ==
    /\ fetch # Idle /\ fetch.left # <<>>
    /\ \E as \in Firsts(Offers(Head(fetch.left), fetch.until - FetchWindow, fetch.until)) :
          news' = UpsertNews(as)
    /\ fetch' = [fetch EXCEPT !.left = Tail(@)]
    /\ UNCHANGED <<clock, hours, misses, tagVars, scoreVars>>

(* A provider that fails is counted and passed over; the run goes on. *)
FetchFails ==
    /\ fetch # Idle /\ fetch.left # <<>>
    /\ Miss
    /\ fetch' = [fetch EXCEPT !.left = Tail(@)]
    /\ UNCHANGED <<clock, news, hours, tagVars, scoreVars>>

EndFetch ==
    /\ fetch # Idle /\ fetch.left = <<>>
    /\ hours' = hours \cup {fetch.key}
    /\ fetch' = Idle
    /\ UNCHANGED <<clock, news, misses, tagVars, scoreVars>>

CrashFetch ==
    /\ fetch # Idle /\ Miss /\ fetch' = Idle
    /\ UNCHANGED <<clock, news, hours, tagVars, scoreVars>>

(* A stock becomes active (the universe sync). *)
ListStock ==
    /\ \E c \in Companies \ catalogue : catalogue' = catalogue \cup {c}
    /\ UNCHANGED <<clock, misses, ingestVars, tagged, links, tagrun, scoreVars>>

-----------------------------------------------------------------------------
(* The newest Limit rows of a work list. *)
WorkLists(rows) ==
    {q \in kSubset(Min({Limit, Cardinality(rows)}), rows) :
        \A r \in q, x \in rows \ q : r[1].pub >= x[1].pub}

MarkedRows == {t[1] : t \in tagged}

StartTag(w) ==
    /\ tagrun[w] = Idle
    /\ \E q \in WorkLists(news \ MarkedRows) :
          /\ q # {}
          /\ tagrun' = [tagrun EXCEPT ![w] = [cat |-> catalogue, rows |-> q]]
    /\ UNCHANGED <<clock, misses, ingestVars, catalogue, tagged, links, scoreVars>>

(* One transaction: the links of every row, and every row marked, matched or not. *)
CommitTag(w) ==
    /\ tagrun[w] # Idle
    /\ LET run == tagrun[w]
       IN  /\ links' = links \cup UNION {{r} \X MatchAll(r[1], run.cat) : r \in run.rows}
           /\ tagged' = tagged \cup (run.rows \X {run.cat})
    /\ tagrun' = [tagrun EXCEPT ![w] = Idle]
    /\ UNCHANGED <<clock, misses, ingestVars, catalogue, scoreVars>>

CrashTag(w) ==
    /\ tagrun[w] # Idle /\ Miss
    /\ tagrun' = [tagrun EXCEPT ![w] = Idle]
    /\ UNCHANGED <<clock, ingestVars, catalogue, tagged, links, scoreVars>>

-----------------------------------------------------------------------------
Unscored(m) == {r \in news : ~\E x \in ratings : x.row = r /\ x.model = m}

(* alone: no other run of the same model has overlapped this one. *)
StartScore(w, m) ==
    /\ scorerun[w] = Idle
    /\ \E q \in WorkLists(Unscored(m)) :
        /\ q # {}
        /\ LET same == {x \in Scorers : scorerun[x] # Idle /\ scorerun[x].model = m}
           IN  scorerun' = [x \in Scorers |->
                    IF x = w THEN [model |-> m, rows |-> q, alone |-> same = {}]
                    ELSE IF x \in same THEN [scorerun[x] EXCEPT !.alone = FALSE]
                    ELSE scorerun[x]]
    /\ UNCHANGED <<clock, misses, ingestVars, tagVars, ratings>>

(* One batch, one transaction; a row that exists is refreshed with its time. *)
ScoreBatch(w) ==
    /\ scorerun[w] # Idle /\ scorerun[w].rows # {}
    /\ LET m == scorerun[w].model
           rows == scorerun[w].rows
       IN  \E chunk \in kSubset(Min({BatchSize, Cardinality(rows)}), rows) :
             /\ \A r \in chunk, x \in rows \ chunk : r[1].pub >= x[1].pub
             /\ ratings' = {x \in ratings : ~(x.row \in chunk /\ x.model = m)} \cup
                           {[row |-> r, model |-> m, impact |-> Impact(r[1]), at |-> clock]
                               : r \in chunk}
             /\ scorerun' = [scorerun EXCEPT ![w].rows = @ \ chunk]
    /\ UNCHANGED <<clock, misses, ingestVars, tagVars>>

(* NewsScored is published, after every batch is durable. *)
EndScore(w) ==
    /\ scorerun[w] # Idle /\ scorerun[w].rows = {}
    /\ scorerun' = [scorerun EXCEPT ![w] = Idle]
    /\ UNCHANGED <<clock, misses, ingestVars, tagVars, ratings>>

CrashScore(w) ==
    /\ scorerun[w] # Idle /\ Miss
    /\ scorerun' = [scorerun EXCEPT ![w] = Idle]
    /\ UNCHANGED <<clock, ingestVars, tagVars, ratings>>

(* sentiment_signal_for_stock: of each linked article published by then the  *)
(* latest rating written by then, whichever model wrote it.                  *)
SignalUnbounded(stock, knownBy) ==
    {x \in ratings :
        /\ <<x.row, stock>> \in links /\ x.row[1].pub <= knownBy
        /\ \A y \in ratings : y.row = x.row => y.at <= x.at}
Signal(stock, knownBy) ==
    {x \in ratings :
        /\ <<x.row, stock>> \in links /\ x.row[1].pub <= knownBy /\ x.at <= knownBy
        /\ \A y \in ratings : y.row = x.row /\ y.at <= knownBy => y.at <= x.at}

NewsNext ==
    \/ Tick \/ StartFetch \/ FetchFeed \/ FetchFails \/ EndFetch \/ CrashFetch \/ ListStock
    \/ \E w \in Taggers : StartTag(w) \/ CommitTag(w) \/ CrashTag(w)
    \/ \E w \in Scorers : \/ \E m \in Models : StartScore(w, m)
                          \/ ScoreBatch(w) \/ EndScore(w) \/ CrashScore(w)

NewsSpec == NewsInit /\ [][NewsNext]_newsVars

-----------------------------------------------------------------------------
StockIds == {c.stock : c \in Companies}
Impacts == -6000..6000

(* The tables are keyed as the migrations key them: a link is one row, and a *)
(* row has one rating per model.  An impact stays within the band that the   *)
(* clamp allows.                                                             *)
NewsTypeOK ==
    /\ clock \in 0..LastTick /\ hours \subseteq 0..HourOf(LastTick)
    /\ \A r, x \in news : r[1].url = x[1].url /\ r[1].url # NoUrl => r = x
    /\ tagged \subseteq news \X SUBSET Companies
    /\ links \subseteq news \X StockIds
    /\ \A x \in ratings : x.row \in news /\ x.impact \in Impacts
    /\ \A x, y \in ratings : x.row = y.row /\ x.model = y.model => x = y

(* "A window slightly wider than the hourly cadence so a delayed run never   *)
(* leaves a gap": when every hour so far had a run without a failed fetch,   *)
(* however late in its hour, every article a provider offered since the      *)
(* first is stored.                                                          *)
LateRunsLeaveNoGap ==
    misses = 0 /\ hours # {} /\ hours = 0..Max(hours) =>
        \A a \in Articles : a.feeds # {} /\ a.pub < TicksPerHour * Max(hours) =>
            \E r \in news : r[1] = a \/ (a.url # NoUrl /\ r[1].url = a.url)

(* A link was earned: the article prints the stock's ticker or ISIN, or a    *)
(* phrase of at least two words, or its whole core name, that no other       *)
(* company of the catalogue goes by; and a stock whose core name - if it has *)
(* words left - it prints, and no other company shares, is linked, however   *)
(* many the article names (match_all: "every distinct stock the text         *)
(* confidently names").                                                      *)
LinksAreNamed ==
    /\ \A l \in links : \E t \in tagged : \E c \in t[2] :
          /\ t[1] = l[1] /\ c.stock = l[2]
          /\ \/ {c.symbol, c.isin} \cap l[1][1].marks # {}
             \/ \E p \in Phrases(l[1][1].words) :
                   /\ p = CoreName(c.name) \/ Len(p) >= 2
                   /\ \E n \in 1..Len(c.name) : p = SubSeq(c.name, 1, n)
                   /\ \A d \in t[2] \ {c} : CoreName(d.name) # p
    /\ \A t \in tagged : \A c \in t[2] :
          /\ CoreName(c.name) # <<>> /\ CoreName(c.name) \in Phrases(t[1][1].words)
          /\ \A d \in t[2] \ {c} : CoreName(c.name) \notin NameAliases(d.name)
          => <<t[1], c.stock>> \in links

(* What the factor job knew at a past instant about an article it had linked *)
(* does not change afterwards: a model that scores later adds knowledge from *)
(* then on, and never rewrites the past.  The one exception is a run that    *)
(* another run of its model overlapped: it refreshes rows the other wrote.   *)
PastSignalChanges ==
    \E s \in StockIds, t \in 0..(clock - 1) :
        Signal(s, t) # {x \in Signal(s, t)' : <<x.row, s>> \in links}
SignalIsStable ==
    [][PastSignalChanges =>
          \E w \in Scorers : scorerun[w] # Idle /\ ~scorerun[w].alone]_ratings
=============================================================================
