------------------------------- MODULE Charts -------------------------------
(***************************************************************************)
(* What the terminal UI draws over time: the exchange's candles that a     *)
(* thread of its own polls for the market on the page (cex.rs,             *)
(* markets.rs), and the recorded series under the shared timeline with its *)
(* cursor (series.rs, timeline.rs).                                        *)
(***************************************************************************)
EXTENDS Integers, Sequences, FiniteSets, SequencesExt

CONSTANTS Pairs,      \* instruments of the exchange
          Bars,       \* lengths of a candle
          BotStream,  \* the selected bot's pair and bar
          HISTORY,    \* candles kept (300)
          Few,        \* candles asked for once the history is there (5)
          MaxBar,     \* bound: candles begun
          MaxMoves,   \* bound: keys that change the market
          Frames,     \* Timeframe::ALL: spans, 0 for the whole session
          Cap,        \* points a series keeps (50000)
          MaxNow,     \* bound of the session's time
          Delays,     \* how late a point may be recorded
          Passes      \* how much time may pass to the next point

ASSUME ChartsAssumption ==
    /\ {HISTORY, Few, Cap} \subseteq Nat \ {0} /\ Few < HISTORY
    /\ {MaxBar, MaxMoves, MaxNow} \cup Delays \cup Passes \subseteq Nat
    /\ BotStream \in Pairs \X Bars

VARIABLES
    begun,    \* external: candles begun on the exchange so far
    market,   \* App.mk_pair, mk_bar
    onBots,   \* the Bots page is on the screen
    chosen,   \* Cex.pair, Cex.bar
    toStore,  \* the bar `select` still has to store
    fetch,    \* the candles task: [at, key, full, body]
    loaded,   \* its `loaded`: the selection whose history it has
    okx,      \* CexState: [candles, candlesFor]
    span,     \* App.kline_span
    pick,     \* Timeline.cursor on the Markets page: the candle, and its market
    moves     \* counter for the bound

marketVars == <<begun, market, onBots, chosen, toStore, fetch, loaded, okx, span, pick, moves>>

VARIABLES
    now,      \* the session's latest time
    line,     \* TimeSeries.points: times, the value of a point its time modulo 3
    tl,       \* Timeline: [frame, follow, right, cursor]
    stepped   \* history: the last key moved the cursor along the series

lineVars == <<now, line, tl, stepped>>
chartVars == <<marketVars, lineVars>>

----------------------------------------------------------------------------
(* The poller *)

Streams == Pairs \X Bars
Resting == [at |-> "rest", key |-> BotStream, full |-> FALSE, body |-> <<>>]

MarketInit ==
    /\ begun = 1 /\ market \in Streams /\ onBots = FALSE /\ chosen = market /\ toStore = {}
    /\ fetch = Resting /\ loaded = {}
    /\ okx = [candles |-> <<>>, candlesFor |-> {}]
    /\ span = {} /\ pick = {} /\ moves = 0

\* The exchange's answer, newest first.
Body(key, limit) ==
    [i \in 1..(IF limit < begun THEN limit ELSE begun) |-> [of |-> key, start |-> begun + 1 - i]]

\* parse_candles: oldest first.
ParseCandles(body) == Reverse(body)

\* Mutant of Connects: an answer that leaves a gap is joined on.
ConnectsAlways(into, newer) == TRUE

\* merge_candles: the newer ones touch what is there.
Connects(into, newer) == Head(newer).start <= Last(into).start + 1

Put(into, c) ==
    IF \E i \in DOMAIN into : into[i].start = c.start
    THEN [i \in DOMAIN into |-> IF into[i].start = c.start THEN c ELSE into[i]]
    ELSE IF c.start > Last(into).start THEN Append(into, c) ELSE into
Newest(s, n) == IF Len(s) <= n THEN s ELSE SubSeq(s, Len(s) - n + 1, Len(s))

\* merge_candles: whether it could be merged, and the candles then.
MergeCandles(into, newer) ==
    IF into = <<>> \/ newer = <<>> THEN [merged |-> newer = <<>>, candles |-> into]
    ELSE IF ~Connects(into, newer) THEN [merged |-> FALSE, candles |-> into]
    ELSE [merged |-> TRUE, candles |-> Newest(FoldLeft(Put, into, newer), HISTORY)]

\* `every` finds it due: after a second, or because the selection changed.
CandlesDue ==
    /\ fetch.at = "rest"
    /\ fetch' = [at |-> "asked", key |-> chosen, full |-> chosen \notin loaded, body |-> <<>>]
    /\ UNCHANGED <<begun, market, onBots, chosen, toStore, loaded, okx, span, pick, moves>>
CandlesServed ==
    /\ fetch.at = "asked"
    /\ fetch' = [fetch EXCEPT !.at = "answered",
                              !.body = Body(fetch.key, IF fetch.full THEN HISTORY ELSE Few)]
    /\ UNCHANGED <<begun, market, onBots, chosen, toStore, loaded, okx, span, pick, moves>>
CandlesFail ==
    /\ fetch.at = "asked" /\ fetch' = Resting
    /\ UNCHANGED <<begun, market, onBots, chosen, toStore, loaded, okx, span, pick, moves>>

\* The answer is stored whole, or merged when the history is still of its
\* selection; otherwise the next request asks for all of it.
CandlesStored ==
    LET c == ParseCandles(fetch.body)
        r == MergeCandles(okx.candles, c)
        ok == okx.candlesFor = {fetch.key} /\ r.merged
    IN  /\ fetch.at = "answered" /\ fetch' = Resting
        /\ okx' = IF fetch.full THEN [okx EXCEPT !.candles = c, !.candlesFor = {fetch.key}]
                  ELSE IF ok THEN [okx EXCEPT !.candles = r.candles] ELSE okx
        /\ loaded' = IF fetch.full \/ ok THEN {fetch.key} ELSE {}
        /\ UNCHANGED <<begun, market, onBots, chosen, toStore, span, pick, moves>>

CandleBegins ==
    /\ begun < MaxBar /\ begun' = begun + 1
    /\ UNCHANGED <<market, onBots, chosen, toStore, fetch, loaded, okx, span, pick, moves>>

----------------------------------------------------------------------------
(* The page *)

\* Cex::select stores the pair, then the bar.
Select(stream) == chosen' = [chosen EXCEPT ![1] = stream[1]] /\ toStore' = {stream[2]}
StoreBar ==
    /\ \E b \in toStore : chosen' = [chosen EXCEPT ![2] = b]
    /\ toStore' = {}
    /\ UNCHANGED <<begun, market, onBots, fetch, loaded, okx, span, pick, moves>>
Move == toStore = {} /\ moves < MaxMoves /\ moves' = moves + 1

\* Mutant of Unpicked: the cursor stays when the market changes.
UnpickedNot(stream) == pick

\* set_market: another market goes back to live.
Unpicked(stream) == IF stream = market THEN pick ELSE {}

SetMarket ==
    /\ Move /\ ~onBots
    /\ \E stream \in Streams : market' = stream /\ pick' = Unpicked(stream) /\ Select(stream)
    /\ UNCHANGED <<begun, onBots, fetch, loaded, okx, span>>

\* goto and sync_stream: the stream follows the page.
GotoPage ==
    /\ Move /\ onBots' = ~onBots
    /\ Select(IF onBots' THEN BotStream ELSE market)
    /\ UNCHANGED <<begun, market, fetch, loaded, okx, span, pick>>

\* candles, candles_of: the exchange's candles only when they are the page's
\* (that the newest is drawn at the ticker's price is left out).
ShownStream == IF onBots THEN BotStream ELSE market
Drawn == IF okx.candlesFor = {ShownStream} THEN okx.candles ELSE <<>>

\* chart_panel: what the cursor may move over.
DrawChart ==
    /\ toStore = {} /\ ~onBots
    /\ span' = IF Drawn = <<>> THEN {} ELSE {<<Head(Drawn).start, Last(Drawn).start>>}
    /\ UNCHANGED <<begun, market, onBots, chosen, toStore, fetch, loaded, okx, pick, moves>>

\* step_candle: past the newest is live again.
StepCandle(n) ==
    /\ toStore = {} /\ ~onBots
    /\ \E s \in span :
          LET from == IF pick = {} THEN s[2] ELSE CHOOSE t \in {p.start : p \in pick} : TRUE
              t == from + n
          IN  pick' = IF t > s[2] THEN {} ELSE {[start |-> IF t < s[1] THEN s[1] ELSE t, of |-> market]}
    /\ UNCHANGED <<begun, market, onBots, chosen, toStore, fetch, loaded, okx, span, moves>>

\* End, G, Esc: back to live.
BackToLive ==
    /\ pick # {} /\ pick' = {}
    /\ UNCHANGED <<begun, market, onBots, chosen, toStore, fetch, loaded, okx, span, moves>>

MarketStep ==
    \/ CandlesDue \/ CandlesServed \/ CandlesFail \/ CandlesStored \/ CandleBegins
    \/ StoreBar \/ SetMarket \/ GotoPage \/ DrawChart \/ BackToLive
    \/ \E n \in {-1, 1} : StepCandle(n)

----------------------------------------------------------------------------
(* TimeSeries *)

LineInit ==
    /\ now = 0 /\ line = <<>> /\ stepped = FALSE
    /\ tl = [frame |-> 1, follow |-> TRUE, right |-> 0, cursor |-> {}]

Value(t) == t % 3
CountOf(Test(_)) == Cardinality({i \in DOMAIN line : Test(line[i])})

\* Mutant of Insert: a late point goes to the end.
InsertLast(points, t) == Append(points, t)

\* push: a late point goes where it belongs, after its equals.
Insert(points, t) ==
    LET before == SelectSeq(points, LAMBDA x : x <= t)
    IN  before \o <<t>> \o SelectSeq(points, LAMBDA x : x > t)

PushPoint(t) == Insert(IF Len(line) = Cap THEN Tail(line) ELSE line, t)

PointsIn(t0, t1) == SelectSeq(line, LAMBDA x : t0 <= x /\ x <= t1)

\* value_at: the last at or before; nearest: the earlier of two as close.
ValueAt(t) == LET n == CountOf(LAMBDA x : x <= t) IN IF n = 0 THEN {} ELSE {line[n]}
Nearest(t) ==
    LET n == CountOf(LAMBDA x : x < t)
        before == IF n > 0 THEN {line[n]} ELSE {}
        after == IF n < Len(line) THEN {line[n + 1]} ELSE {}
    IN  IF before = {} \/ after = {} THEN before \cup after
        ELSE LET b == line[n] a == line[n + 1] IN IF t - b <= a - t THEN {b} ELSE {a}

\* ohlc: a candle for each stretch of time that has points.
Wider(c, t) ==
    [c EXCEPT !.high = IF Value(t) > @ THEN Value(t) ELSE @, !.low = IF Value(t) < @ THEN Value(t) ELSE @,
              !.close = Value(t), !.samples = @ + 1]
Ohlc(t0, t1, width) ==
    FoldLeft(LAMBDA out, t :
                 LET start == (t \div width) * width v == Value(t)
                 IN  IF out # <<>> /\ Last(out).start = start
                     THEN [out EXCEPT ![Len(out)] = Wider(@, t)]
                     ELSE Append(out, [start |-> start, open |-> v, high |-> v, low |-> v, close |-> v,
                                       samples |-> 1]),
             <<>>, PointsIn(t0, t1))

----------------------------------------------------------------------------
(* Timeline; the session begins at 0 *)

Span == Frames[tl.frame]
Edge(follow, right) == IF follow THEN now ELSE right
Window ==
    IF Span # 0 THEN <<Edge(tl.follow, tl.right) - Span, Edge(tl.follow, tl.right)>>
    ELSE LET t1 == Edge(tl.follow, IF tl.right < now THEN tl.right ELSE now) IN <<0, IF t1 < 1 THEN 1 ELSE t1>>
SpanNow == IF Window[2] - Window[1] < 1 THEN 1 ELSE Window[2] - Window[1]

RecordPoint ==
    /\ \E d \in Passes, late \in Delays :
          /\ now + d <= MaxNow /\ late <= now + d
          /\ now' = now + d /\ line' = PushPoint(now + d - late)
    /\ UNCHANGED <<tl, stepped>>

\* Mutant of Follows: a cursor left of the window stays there.
FollowsNot(t, right, width) == IF t > right THEN t ELSE right

\* step: the window follows the cursor out of its edges.
Follows(t, right, width) ==
    IF t > right THEN t ELSE IF t < right - width THEN t + (width \div 8) ELSE right

\* step: along the samples of the series, from the cursor or the latest.
StepLine(n) ==
    /\ line # <<>>
    /\ LET cur == IF tl.cursor = {} THEN Last(line) ELSE CHOOSE t \in tl.cursor : TRUE
           below == CountOf(LAMBDA x : x < cur)
           at == (IF below = Len(line) THEN Len(line) ELSE below + 1) + n
           to == IF at < 1 THEN 1 ELSE IF at > Len(line) THEN Len(line) ELSE at
           right == IF tl.follow THEN now ELSE tl.right
       IN  IF to = Len(line) /\ n > 0 /\ tl.follow
           THEN tl' = [tl EXCEPT !.cursor = {}]
           ELSE tl' = [tl EXCEPT !.follow = FALSE, !.cursor = {line[to]},
                                 !.right = IF Span = 0 THEN right ELSE Follows(line[to], right, SpanNow)]
    /\ stepped' = TRUE /\ UNCHANGED <<now, line>>

Home ==
    /\ line # <<>>
    /\ tl' = [tl EXCEPT !.follow = FALSE, !.cursor = {Head(line)}, !.right = Head(line) + SpanNow]
    /\ stepped' = TRUE /\ UNCHANGED <<now, line>>

End ==
    /\ tl' = [tl EXCEPT !.follow = TRUE, !.cursor = {}] /\ stepped' = TRUE /\ UNCHANGED <<now, line>>

\* pan: an eighth of the window; f64::clamp of an empty range would stop the
\* program, so the session is at least a quarter of the window old.
Pan(dir) ==
    LET least == SpanNow \div 4
        to == (IF tl.follow THEN now ELSE tl.right) + dir * (SpanNow \div 8)
        right == IF to < least THEN least ELSE IF to > now THEN now ELSE to
    IN  /\ least <= now
        /\ tl' = [tl EXCEPT !.right = right, !.follow = right >= now]
        /\ stepped' = FALSE /\ UNCHANGED <<now, line>>

\* narrower, wider.
Zoom(n) ==
    /\ tl.frame + n \in DOMAIN Frames /\ tl' = [tl EXCEPT !.frame = @ + n]
    /\ stepped' = FALSE /\ UNCHANGED <<now, line>>

\* cursor_at: a click puts the cursor on the nearest sample.
CursorAt ==
    /\ \E t \in Window[1]..Window[2] :
          \E s \in Nearest(t) : tl' = [tl EXCEPT !.cursor = {s}, !.follow = FALSE, !.right = Window[2]]
    /\ stepped' = FALSE /\ UNCHANGED <<now, line>>

LineStep ==
    \/ RecordPoint \/ Home \/ End \/ CursorAt
    \/ \E n \in {-1, 1} : StepLine(n) \/ Pan(n) \/ Zoom(n)

----------------------------------------------------------------------------
(* Properties *)

\* What is drawn as a market's candles is of that market, without a gap and no
\* longer than is kept, whatever was asked for before and however late it came;
\* and only what is held is asked for in part (poll, merge_candles).
ChartIsWhole ==
    /\ \A key \in okx.candlesFor : \A i \in DOMAIN okx.candles :
          okx.candles[i] = [of |-> key, start |-> okx.candles[1].start + i - 1]
    /\ Len(okx.candles) <= HISTORY /\ loaded \subseteq okx.candlesFor

\* The Markets cursor is never left over from another market (set_market).
CursorIsOfItsMarket == \A p \in pick : p.of = market

\* A series stays in order, and every candle cut from it, at any width, counts
\* each point once, from its first to its last, between its low and its high
\* (push, range, ohlc, nearest).
SeriesIsRight ==
    /\ \A i \in 1..(Len(line) - 1) : line[i] <= line[i + 1]
    /\ Len(line) <= Cap
    /\ \A width \in {1, 3} :
          LET cs == Ohlc(0, now, width)
              Of(c) == SelectSeq(line, LAMBDA t : t \in c.start..(c.start + width - 1))
          IN  /\ \A i \in DOMAIN cs :
                    LET v == [k \in DOMAIN Of(cs[i]) |-> Value(Of(cs[i])[k])]
                    IN  /\ cs[i].samples = Len(v) /\ cs[i].open = Head(v) /\ cs[i].close = Last(v)
                        /\ cs[i].low \in ToSet(v) /\ cs[i].high \in ToSet(v)
                        /\ \A k \in DOMAIN v : v[k] \in cs[i].low..cs[i].high
                        /\ i > 1 => cs[i].start > cs[i - 1].start
              /\ FoldLeft(LAMBDA n, c : n + c.samples, 0, cs) = Len(line)
    /\ \A t \in 0..now : \A s \in Nearest(t), o \in ToSet(line) :
          (IF s < t THEN t - s ELSE s - t) <= (IF o < t THEN t - o ELSE o - t)

\* After a step along the samples the cursor is inside the window drawn, while
\* points go on coming and old ones are dropped (Timeline::step, home).
SteppedIsSeen ==
    stepped /\ Span # 0 => \A t \in tl.cursor : Window[1] <= t /\ t <= Window[2]

\* The pages draw what they say they draw.
PagesAreTrue == ChartIsWhole /\ CursorIsOfItsMarket /\ SeriesIsRight /\ SteppedIsSeen
=============================================================================
