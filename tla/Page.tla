--------------------------------- MODULE Page ----------------------------------
(***************************************************************************)
(* The script of the browser page: one thread of event handlers that keep  *)
(* the quotes by source and symbol, a short price history of each, one     *)
(* selected row with its panel and chart, and a socket that is dialled     *)
(* again 3 s after it closed.  The server is WsSession as a page sees it:  *)
(* quotes at any time, one answer per kline request in their order, and an *)
(* answer of none or more bars, each a message of its own.                 *)
(***************************************************************************)
EXTENDS Integers, Sequences, SequencesExt

CONSTANTS
  Keys,        \* source and symbol; symbols are numbered in the order of their text
  MaxHistory,  \* MAX_HISTORY
  Ticks,       \* bound: times of quotes
  Minutes      \* bound: opening times of bars, never that of a quote

ASSUME PageAssumption ==
  /\ Keys \subseteq [src : {"Tencent", "Tdx"}, sym : Nat]
  /\ MaxHistory \in Nat \ {0}
  /\ \A k \in Keys : [src |-> "Tencent", sym |-> k.sym] \in Keys
  /\ Ticks \subseteq Nat /\ Minutes \subseteq Nat /\ Ticks \intersect Minutes = {}

VARIABLES
  conn,       \* ws.readyState: "connecting", "open", "closing" or "closed"
  timer,      \* setTimeout(connect) is pending
  quotes,     \* keys of the map quotes
  history,    \* priceHistory: the times of its points
  requested,  \* requestedKlines
  selected,   \* selectedKey
  active,     \* activeSource
  panel,      \* the quote the detail panel shows
  drawn,      \* the points drawChart drew last
  sent,       \* kline requests sent on the present socket
  taken,      \* how many of them the server took
  owed,       \* bars of the answer under way
  latest,     \* time of the latest quote of a source
  seen        \* history: times of all points a key ever got

vars == <<conn, timer, quotes, history, requested, selected, active, panel,
          drawn, sent, taken, owed, latest, seen>>
socket == <<conn, timer>>
answers == <<taken, owed>>
data == <<quotes, history, latest, seen>>
view == <<selected, active, panel, drawn>>

Source == {"Tencent", "Tdx"}
None == [src |-> "none", sym |-> 0]
History == UNION {[1 .. n -> Ticks \union Minutes] : n \in 0 .. MaxHistory}

Init ==
  /\ conn = "connecting"
  /\ timer = FALSE
  /\ quotes = {}
  /\ history = [k \in Keys |-> <<>>]
  /\ requested = {}
  /\ selected = None
  /\ active = "Tencent"
  /\ panel = None
  /\ drawn = <<>>
  /\ sent = <<>>
  /\ taken = 0
  /\ owed = [sym |-> 0, bars |-> <<>>]
  /\ latest = [s \in Source |-> 0]
  /\ seen = [k \in Keys |-> {}]

-----------------------------------------------------------------------------
(* Functions the handlers share.                                           *)

\* requestKline: once per key and connection; the request names no source.
RequestKline(k, state, already) ==
  IF k # None /\ state = "open" /\ k \notin already
  THEN requested' = already \union {k} /\ sent' = Append(sent, k)
  ELSE requested' = already /\ UNCHANGED sent

\* drawChart: the history of the selected key as it is now.
DrawChart(k) == drawn' = history'[k]

\* renderDetail: the panel shows the latest quote of the key, with its chart.
RenderDetail(k) == panel' = k /\ DrawChart(k)

\* selectQuote: the row's panel and chart are rendered, its bars asked for.
SelectQuote(k) ==
  /\ selected' = k
  /\ RenderDetail(k)
  /\ RequestKline(k, conn, requested)

FirstRow(rows) == CHOOSE k \in rows : \A j \in rows : k.sym <= j.sym

\* updateTable, then renderDetail if the key that changed is the selected one.
\* Without a selection the first row of the active source is selected.
UpdateTable(sel, changed) ==
  LET rows == {k \in quotes' : k.src = active'}
  IN  IF sel = None /\ rows # {}
      THEN SelectQuote(FirstRow(rows))
      ELSE /\ selected' = sel
           /\ IF changed = sel /\ sel # None
              THEN RenderDetail(sel)
              ELSE panel' = (IF rows = {} THEN None ELSE panel) /\ UNCHANGED drawn
           /\ UNCHANGED <<requested, sent>>

Latest(s) == SubSeq(s, Len(s) - MaxHistory + 1, Len(s))

\* The place a stable sort gives to the i-th point.
Rank(s, i) == Cardinality({j \in DOMAIN s : s[j] < s[i] \/ (s[j] = s[i] /\ j <= i)})

\* arr.sort, by time.
Sorted(s) == [n \in DOMAIN s |-> s[CHOOSE i \in DOMAIN s : Rank(s, i) = n]]

\* Variant: nothing is shifted out.
PushHistoryUnbounded(s, t) == Append(s, t)

\* pushHistory: at the end, the first one is shifted out.
PushHistory(s, t) ==
  LET longer == Append(s, t)
  IN  IF Len(longer) > MaxHistory THEN Tail(longer) ELSE longer

\* Variant: a bar is added without looking for the one it replaces.
AddKlineHistory(s, t) ==
  LET sorted == Sorted(Append(s, t))
  IN  IF Len(sorted) > MaxHistory THEN Latest(sorted) ELSE sorted

\* replaceKlineHistory: a bar of the same time is replaced, then all are sorted.
ReplaceKlineHistory(s, t) ==
  LET sorted == Sorted(IF Contains(s, t) THEN s ELSE Append(s, t))
  IN  IF Len(sorted) > MaxHistory THEN Latest(sorted) ELSE sorted

-----------------------------------------------------------------------------
(* Events of the socket.                                                   *)

\* Variant: what an earlier connection asked for still counts.
OnOpenKeepingRequests ==
  /\ conn = "connecting"
  /\ conn' = "open"
  /\ RequestKline(selected, "open", requested)
  /\ UNCHANGED <<timer, data, view, answers>>

OnOpen ==
  /\ conn = "connecting"
  /\ conn' = "open"
  /\ RequestKline(selected, "open", {})
  /\ UNCHANGED <<timer, data, view, answers>>

\* A dial fails, the server closes or the network breaks; onerror calls close(),
\* which is under way already.
LinkFails ==
  /\ conn \in {"connecting", "open"}
  /\ conn' = "closing"
  /\ sent' = <<>>
  /\ taken' = 0
  /\ owed' = [sym |-> 0, bars |-> <<>>]
  /\ UNCHANGED <<timer, data, requested, view>>

\* Variant: onclose only shows the state.
OnCloseShown ==
  /\ conn = "closing"
  /\ conn' = "closed"
  /\ UNCHANGED <<timer, data, requested, view, sent, answers>>

OnClose ==
  /\ conn = "closing"
  /\ conn' = "closed"
  /\ timer' = TRUE
  /\ UNCHANGED <<data, requested, view, sent, answers>>

Connect ==
  /\ timer
  /\ timer' = FALSE
  /\ conn' = "connecting"
  /\ UNCHANGED <<data, requested, view, sent, answers>>

\* onMessage of a depth: quotes of one source arrive in order.
OnDepth(k, t) ==
  /\ conn = "open"
  /\ t > latest[k.src]
  /\ latest' = [latest EXCEPT ![k.src] = t]
  /\ quotes' = quotes \union {k}
  /\ history' = [history EXCEPT ![k] = PushHistory(@, t)]
  /\ seen' = [seen EXCEPT ![k] = @ \union {t}]
  /\ active' = active
  /\ UpdateTable(selected, k)
  /\ UNCHANGED <<socket, answers>>

\* onMessage of a kline: the server names Tencent whatever row asked for it.
OnKline ==
  /\ conn = "open"
  /\ owed.bars # <<>>
  /\ owed' = [owed EXCEPT !.bars = Tail(@)]
  /\ LET k == [src |-> "Tencent", sym |-> owed.sym]
         t == Head(owed.bars)
     IN  /\ history' = [history EXCEPT ![k] = ReplaceKlineHistory(@, t)]
         /\ seen' = [seen EXCEPT ![k] = @ \union {t}]
         /\ IF selected = k THEN DrawChart(k) ELSE UNCHANGED drawn
  /\ UNCHANGED <<socket, quotes, latest, requested, selected, active, panel, sent, taken>>

\* The server takes the next request; a fetch that failed brings no bars.
Answer(bars) ==
  /\ conn = "open"
  /\ taken < Len(sent)
  /\ owed.bars = <<>>
  /\ owed' = [sym |-> sent[taken + 1].sym, bars |-> bars]
  /\ taken' = taken + 1
  /\ UNCHANGED <<socket, data, requested, view, sent>>

-----------------------------------------------------------------------------
(* The user.                                                               *)

ClickRow(k) ==
  /\ k \in quotes /\ k.src = active
  /\ UNCHANGED <<socket, data, active, answers>>
  /\ SelectQuote(k)

\* Variant: the selection survives a change of the source.
ClickTabKeeping(s) ==
  /\ active' = s
  /\ UNCHANGED <<socket, data, answers>>
  /\ UpdateTable(selected, None)

\* The selection is given up before the table is built for the other source.
ClickTab(s) ==
  /\ active' = s
  /\ UNCHANGED <<socket, data, answers>>
  /\ UpdateTable(None, None)

-----------------------------------------------------------------------------
\* The bars of an answer are in order, the latest Count minutes up to some one.
Answers == {Sorted(SetToSeq({t \in Minutes : p[1] <= t /\ t <= p[2]})) : p \in Minutes \X Minutes}

Next ==
  \/ OnOpen \/ LinkFails \/ OnClose \/ Connect
  \/ \E k \in Keys, t \in Ticks : OnDepth(k, t)
  \/ OnKline
  \/ \E bars \in Answers \union {<<>>} : Answer(bars)
  \/ \E k \in Keys : ClickRow(k)
  \/ \E s \in Source : ClickTab(s)

\* A browser fires the close event of a socket that ended, and its timers.
Fairness == WF_vars(OnClose) /\ WF_vars(Connect)

Spec == Init /\ [][Next]_vars /\ Fairness

-----------------------------------------------------------------------------
TypeOK ==
  /\ conn \in {"connecting", "open", "closing", "closed"}
  /\ timer \in BOOLEAN
  /\ quotes \subseteq Keys
  /\ history \in [Keys -> History]
  /\ requested \subseteq Keys
  /\ selected \in Keys \union {None} /\ panel \in Keys \union {None}
  /\ active \in Source
  /\ drawn \in History
  /\ sent \in Seq(Keys) /\ taken \in 0 .. Len(sent)
  /\ owed.sym \in {k.sym : k \in Keys} \union {0} /\ owed.bars \in Seq(Minutes)
  /\ latest \in [Source -> Ticks \union {0}]
  /\ seen \in [Keys -> SUBSET (Ticks \union Minutes)]

\* frontend.rs:360-414: the selected row is one of the table on display, there is
\* none only while that table is empty, and panel and chart show it with all it
\* got so far, through clicks, tabs, auto-selection and bars of other rows.
PanelShowsSelection ==
  /\ panel = selected
  /\ selected = None <=> {k \in quotes : k.src = active} = {}
  /\ selected # None =>
       selected \in quotes /\ selected.src = active /\ drawn = history[selected]

\* frontend.rs:183-194, 467-473: on an open connection, also one after a break,
\* the bars of the selected row were asked for on that very connection, and no
\* row's twice, however often it is clicked, selected again or updated.
SelectedIsRequested ==
  /\ conn = "open" /\ selected # None => selected \in ToSet(sent)
  /\ IsInjective(sent)

\* frontend.rs:164-181: quotes, bars and the same bars fetched again after a
\* reconnect leave each point once, and none is dropped before the history is full.
ChartHoldsAll ==
  \A k \in Keys :
    /\ IsInjective(history[k])
    /\ ToSet(history[k]) \subseteq seen[k]
    /\ Len(history[k]) = Min({MaxHistory, Cardinality(seen[k])})

\* frontend.rs:474: every lost connection and every failed dial is dialled again.
DialsAgain == conn \in {"closing", "closed"} ~> conn = "connecting"
=============================================================================
