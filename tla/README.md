# fast-quote in TLA+

A specification of fast-quote, a Rust process that collects stock quotes from a
TDX server and from Tencent's HTTP service and distributes them to TCP clients,
browsers, Redis and a relational database. The modules follow the source under
`src/`; `PROJECT.json` names, for each definition, the lines it stands for.

## 1. The system

```
 TdxAdapter ──┐ send().await                       ┌─> Persister ─> Redis, then database
              ├──> mpsc(4096) ─> forwarder ─> Hub ─┼─> TcpSession (one per client)
TencentAdapter┘                    publish()  ring └─> ws_session (one per browser)
                                              (8192)
```

| component | state it keeps | operations | what is hard | what makes it correct |
|---|---|---|---|---|
| hub and forwarder (`fastquote-hub`, `fastquote-bin/src/main.rs`) | mpsc queue, `latest` stamp per source and symbol, broadcast ring | `send().await`, `recv`, `publish`, `subscribe` | look-up, stamp and broadcast are three steps; full queue; overrun ring | accepted messages of a key are a window apart; source order; nothing lost on the way; a suppressed message is covered; receivers exert no backpressure |
| TCP session (`fastquote-server/src/tcp/session.rs`) | subscription set, writer mutex, receiver | `send_loop`, `recv_loop`, SUB, UNSUB, PING | two tasks on one socket, writes that suspend half way, clients that do not read or leave | frames stay whole; UNSUB silences; SUB loses nothing but lag; leaving ends the session |
| WebSocket session (`ws/server.rs`) | direct channel (128), receiver | quote push, `req_kline` | a bounded channel inside the session, `select!`, `join!`, fetch without timeout | answers gapless, quotes in order, both arrive, leaving frees the tasks |
| browser page (`frontend.rs`) | quotes, price history, requested klines, selection, source tab, panel and chart | socket events, messages, clicks | four variables that must tell of one row, sets that outlive a connection, bars fetched again | panel, chart and selection agree; the selected row's bars are asked for once per connection; no point lost or doubled; always dialled again |
| TDX adapter and connection (`fastquote-tdx`) | `stopped`, `symbols`; stream and `ConnectionState` | `run`, `stop`, `subscribe`, `recv_packet` | cut, silent or garbling server; retries; `stop` at any await | state describes the present stream; a cut stream is left; `stop` ends `run`; only `stop` or a malformed push does |
| TDX codec (`protocol/`) | none | encode, decode | record framing, inactive records | a push yields its active stocks (it does not, see below) |
| Tencent adapter and parser (`fastquote-tencent`) | `stopped`, `symbols`, interval | poll, parse, emit | slow and hanging fetches, bursts of ticks, lists that change meanwhile, cut lines, dates | only depths of the list of the day reach the hub; a list that stays is fetched; `stop` ends polling; exact opening times |
| persister and stores (`fastquote-store`) | two optional stores; hashes, sorted sets, tables outside the process | receive, HSET, ZADD and trim, upsert | failing or absent stores, a call that failed after it was applied, lag, restart | stores never go back; one store's error does not cost the other's write; the newest bars and not many more are kept |
| process wiring (`main.rs`) | channels, the `select!` | start, first branch to return ends all | one component's error ends the others mid-step | receiver exists before the first message |
| configuration, core types | none | parsing, symbol keys | - | - |
| operations scripts (`scripts/`) | pid file | start, stop, install | two starts at once, stale pid | at most one process |

How they interact: adapters share one bounded channel, and a full one suspends
them. One forwarder task is the only caller of `publish`. Each receiver reads
the ring with a cursor of its own; a slow one is told `Lagged` and goes on at
the oldest message kept. `Persister::new` and `hub.subscribe()` come before any
adapter is polled, so `send` always has a receiver. Adapters, persister and both
servers are branches of one `select!`; the forwarder and the sessions are
spawned tasks.

The page talks to `ws_session` only; its requests name a symbol and no source,
and bars come back under Tencent whatever row asked for them.

Facts about today's code that the models take over: adapters only publish
`Depth` (the other kinds are handled by hub, TCP filter and persister, so the
models keep them where they are handled); `main` subscribes symbols at the
Tencent adapter only; WebSocket sessions have no subscriptions, `sub` and
`unsub` commands are ignored.

## 2. Modules

| module | models | abstract specification |
|---|---|---|
| `HubPipeline` | queue, forwarder, `Hub::publish`, ring, receivers | `QuoteFeed` |
| `QuoteFeed` | what a receiver may rely on, without queue, forwarder and ring | - |
| `TcpSession` | one TCP client with both tasks | `ClientStream` |
| `ClientStream` | what a TCP client may rely on: one actor, whole frames, no ring, lock or socket | - |
| `WsSession` | one WebSocket client with both tasks | - |
| `TdxAdapter` | `TdxAdapter::run` with `TdxConnection`; extends `TdxCodec` | - |
| `TdxCodec` | `decode_depth` over the records of a push | - |
| `TencentAdapter` | `TencentAdapter::run` with its interval and fetches; extends `TencentParser` | - |
| `TencentParser` | which lines become which depths, opening times of bars | a calendar counted day by day |
| `Persister` | `Persister::run` with both stores, across restarts | - |
| `Page` | the script of the browser page, with the server as `WsSession` lets it look | - |

For each module `M` of this table with a state, `M_proofs` holds the theorems
about it (section 4); `QuoteFeed_proofs` shows that `HubPipeline` implements
`QuoteFeed`, and that `TcpSession` implements `ClientStream` is part of
`TcpSession_proofs`.

The `MC...` modules only instantiate these for TLC; values are in the `.cfg`
files. Definitions introduced as "Variant" in a module are plausible mistakes in
the code; no specification uses them. Each property is known to fail when one of
them takes the place of the definition below it (`PROJECT.json`, `mutants`).

### HubPipeline

`queue` is the mpsc channel followed by the senders that wait for a permit
(tokio serves them first come, first served), so `Emit` is `handle_quote_text`
and `handle_packet` reaching `hub_tx.send`: a source with a waiting message
emits nothing. `pc` splits `publish` at the points where time passes: `Recv`,
then `Suppress` or `Pass` (`latest.get`, `elapsed`), `Insert`
(`latest.insert(now)`), `Send` (`tx.send`). `log` is all that was ever sent;
the ring is its last `BroadcastCap` entries, and `cursor[r]` a receiver's
position. `now` is `Instant::now()`, in ticks; it may advance between any two
steps. `dropped` records suppressed messages and is a history variable.

### TcpSession

`pc["send"]` and `pc["recv"]` are the two tasks. `Filter` is `is_subscribed`
plus the match on the kind, ending in the queue for the fair tokio mutex
(`lockq`). A frame leaves in two parts: `WritePart` can stop after the first,
which is `write_all` suspended by a full socket (`SocketCap` parts). `End` is the
`select!` with `abort`. The client reads, sends and leaves whenever it likes.
`lost` and `changed` are history variables: the positions reported as lag, and for
each symbol the last request, when it came and whether it found the symbol
subscribed. `ClientStream` is the same session as
its client sees it; the mapping takes the position from `held`, the phase from
`pc["send"]` and a frame for each two parts on the wire, so a frame counts when
its last part is written.

### WsSession

Quotes are named by position and bars by request and rank, since nothing looks
at their contents. `TakeDirect` and `TakeQuote` are the branches of `select!`;
`QueueBar` and `QueueDone` are the loop over `direct_tx.send`, which ends early
when `send_task` is gone. `Over` is `join!` having returned.

### TdxAdapter

`pc` follows `run` from await to await. The server decides on each packet:
a push, another kind, one cut short, one with a length below four, one too short
for a record count. A push says which of its stocks are active and how many
records its body really holds. `TdxCodec!DecodeDepth` is the set of results
`decode_depth` may have: it finds the k-th header ten bytes after the one before,
since it leaves an inactive record without its prices, and what it reads there,
unless it is the start of a record, may say anything. The first record taken for
active reads all words up to the end, so a push yields one depth at most. `link` is the stream as the server sees
it; a write to a cut stream may succeed or fail. `state` is
`TdxConnection::state`; `answered` and `asked` are history variables about the
present stream. The upper length check (more than 65536 bytes) cannot fire, the
field has 16 bits.

### TencentAdapter

`Start`, `Loop`, `Tick`, `Fetch...`, `SendDepth` and `SendDone` are the points at
which `run` and `handle_quote_text` suspend or decide. `overdue` counts the ticks
the interval owes (its default behaviour is to deliver all of them in a burst).
An answer is a list of lines with a market, a code and a number of fields; lines
with fewer than 48 are left out, and a line that passes and is then indexed past
its end would be a panic (`panicked`, which `TypeOK` excludes). `calls` and `begun`
count calls of `subscribe` and are history variables. Opening times count minutes,
since the code's nanoseconds are whole minutes; `Time` keeps the width of its i64:
`secs * 1_000_000_000` fits from September 1677 to April 2262, and a date outside
gives `Overflowed`, which stands for the panic of a debug build and for the unrelated
time a release build wraps to. `HubEnds` closes the
channel, the error `send` is checked for.

### Page

A script has one thread, so a handler is one action, and the functions it calls
(`RequestKline`, `RenderDetail`, `UpdateTable`, ...) are operators over the next
state. `conn` is `readyState`; no message is delivered to a socket that is not
open. A history is the sequence of the times of its points; `Sorted` is
`arr.sort`, which gives each point the place of its rank. The server takes
requests in order, owes the bars of one answer at a time and may send quotes in
between, which is what `WsSession` promises (`AnswersGapless`, `QuotesAccounted`).
Bars may be newer or older than quotes on their way. `sent` and `taken` stand for
the requests on the wire; `seen` and `drawn` record what a key ever got and what
was drawn.

### Persister

`snapshot`, `bars` and `rows` live outside the process and survive `Crash`. A
stored value is the feed position of the message it came from, so "older" is
"smaller". Every call may succeed, fail, or fail after having been applied.
`AddBar` and `TrimBars` are the two Redis calls of `write_kline`. `missed`,
`slips` and `added` are history variables: the positions the database cannot be
expected to have, the bars added since the last trim that went through, and all
bars Redis ever took.

## 3. Runs

| run | bounds | shows |
|---|---|---|
| `HubPipeline` | 2 sources, 2 symbols, 2 receivers, queue 1, ring 1, window 2 of 2 ticks, 2 messages per source | type, spacing, source order, accounting, covered suppressions, the inductive invariant of the proofs, every message decided, refinement of `QuoteFeed` including `NoKeySilent` |
| `TcpSession` | 2 symbols, ring 1, socket 1 part, 2 messages, 2 requests | refinement of `ClientStream` (order, whole frames, filter), silence after UNSUB, no loss but lag, end of session, PONG |
| `TcpUnsub` | 1 symbol, 1 message, 2 requests | violated: after SUB and UNSUB the emptied subscription set receives everything |
| `WsSession` | ring 1, direct channel 1, socket 1, answers of up to 2 bars, 2 messages, 2 requests | gapless answers, accounted quotes, arrival, freed receiver task |
| `WsLeaves` | no broadcast | violated: a session whose client left stays |
| `TdxAdapter` | 1 symbol, hub queue 1, 2 packets in flight, pushes of up to 2 stocks in records of 110 bytes | truthful state, cut streams left, `stop`, reasons to end |
| `TdxReconnect` | same | violated: no pause after a break |
| `TdxRecords` | same, 1 packet in flight | violated: a push of two stocks never yields both |
| `TencentAdapter` | 1 code in 2 markets, answers of up to 2 lines of 0, 20, 47 or 48 fields, hub channel 1, 2 ticks overdue, 2 calls of `subscribe` | depths of the current list only, a list that stays is fetched, `stop`, no panic, exact opening times from 1678 to 2261 |
| `Page` | 2 Tencent rows and a TDX row of the same symbol as one of them, history of 2 points, quotes at 3 times, bars at 2 | selection, panel and chart agree, one request per row and connection, complete histories, reconnect |
| `Persister` | 1 source and symbol, 2 times, ring 1, 1 bar kept, 3 messages, 1 restart | completeness of the database, the newest bars kept, stores never older, progress |
| `RedisCurrent` | 1 message | violated: a Redis that is away at start, or a failed write, is final |

Why the bounds are enough. Capacities of one make every queue, ring, channel
and socket full after a single step, so blocking, lag and the boundary itself
occur in all combinations; larger capacities only delay them. Two messages per
source (three for the persister) are needed for a message to be suppressed,
overtaken or overrun by another, and two sources and two symbols to tell the key
of the window from its parts. Answers of two bars exceed a direct channel of
one. A window of two ticks distinguishes "below" and "equal to" the window, and with
a clock that starts at zero every distance up to it occurs; a longer run of the
clock only repeats these. Two lists differ with a single code in two
markets, answers of two lines overfill a channel of one, and field counts lie on
both sides of the check and of the fields it protects. A history of two is full
after two points, so shifting, replacing and sorting meet. Stocks of one push
need two records to be confused, and 110 bytes are the header, five prices and
ten levels; the length only matters by how often ten divides it. The adapters' counters, requests and restarts are the only bounds in
guards (`MaxEmit`, `MaxTime`, `MaxFeed`, `MaxRequests`, `MaxNet`, `MaxBatch`,
`MaxBars`, `MaxCrashes`, `MaxLines`, `MaxOverdue`, `MaxCalls`, and the sets
`Ticks` and `Minutes`). `CHECK_DEADLOCK FALSE` is set where the bounded model
really stops: a session has ended or the bounded feed is used up.

Fairness. Tokio polls a task whose await can complete, so each task gets weak
fairness as a whole: forwarder, persister, both loops of a session, the end of a
session, the adapters' `run`. An interval goes on, and a browser fires the close
event of a socket that ended and its timers. `HubPipeline` assumes nothing of the
receivers, which is what shows that they exert no backpressure; that the
persister catches up is the persister's own fairness (`PersisterGoesOn`). Nothing is assumed of clients, servers, HTTP
fetches, the clock or the callers of `stop` and `subscribe`; where a property
needs a client that reads or a server that answers, that is its hypothesis.

### What the violated runs say

* `TcpUnsub`: `session.rs:134` lets an empty set match everything, so after SUB
  and UNSUB of a symbol, the last in the set, it is pushed again, like all
  others; the protocol
  document says the symbol is not pushed any more (`docs/fastquote-protocol-spec.md:101-102`).
* `TdxReconnect`: a break after login returns to the dial at once; the design
  says 3 s (`docs/superpowers/specs/2026-05-18-fastquote-design.md:132`).
* `TdxRecords`: a push with two records yields at most one depth, and one with two
  inactive stocks may yield a stock read out of price bytes (`decoder.rs:49-92`);
  the comment above it gives one entry per stock (`decoder.rs:38-39`).
* `RedisCurrent`: a Redis error is logged and forgotten, and a Redis that is
  away at start is never tried again; the design promises the latest state at
  any time (same file, line 237).
* `WsLeaves`: nothing notices a browser that left while nothing is broadcast; the
  protocol document gives a 90 s heartbeat timeout (line 593).

Other disagreements met while reading, without a run: the design's window is per
symbol (line 179), the code's per source and symbol (`hub.rs:26`, as its comment
at line 28 says); a depth payload has 232 bytes, not 128; SUB carries comma
separated text, not the binary frame of the protocol document; TDX heartbeats
and database batching of the design do not exist; `write_kline` keeps 5000
members of a sorted set, and a revised bar of the same time is a member more.
A market other than SH and SZ is written as SH to TDX (`encoder.rs:38`) and read as
SZ from either service. The kline request of a TDX row is answered under Tencent
(`ws/server.rs:140`), so that row's chart holds quotes only; a kline fetch that
failed is not asked for again on the same connection, since the page counts the
request, not the answer. `parse_open_time` takes any four-digit year, of which most
do not fit its i64 of nanoseconds.

## 4. Proofs

Each theorem holds for every choice of the constants that satisfies the module's
named assumption: positive capacities and window sizes, natural bounds, the
persister among the receivers, quote times that differ from bar times. No set of
symbols, keys, sources or times need be finite, and the bounds of the runs
(`MaxFeed`, `MaxLines`, `Ticks`, ...) are as arbitrary as the rest. Every safety
invariant of a passing run is the statement of a theorem, and so are the safety
action properties and both refinements.

| module | theorem | statement |
|---|---|---|
| `HubPipeline_proofs` | `TypeCorrect` | `Spec => []TypeOK` |
| | `PipelineInvariant` | `Spec => []PipelineInv` |
| | `FeedIsSpaced` | `Spec => []SpacedFeed` |
| | `FeedKeepsSourceOrder` | `Spec => []SourceOrder` |
| | `SuppressionIsCovered` | `Spec => []SuppressedIsCovered` |
| | `EveryMessageAccounted` | `Spec => []Accounted` |
| `QuoteFeed_proofs` | `PipelineImplementsFeed` | `Spec => Feed!SafeSpec` |
| `TcpSession_proofs` | `TypeCorrect` | `Spec => []TypeOK` |
| | `FramesStayWhole` | `Spec => []FramesWhole` |
| | `UnsubSilences` | `Spec => []SilentAfterUnsub` |
| | `SubDelivers` | `Spec => []SubscribedGetsAll` |
| | `SessionImplementsStream` | `Spec => ImplementsClientStream` |
| `WsSession_proofs` | `TypeCorrect` | `Spec => []TypeOK` |
| | `EveryQuoteAccounted` | `Spec => []QuotesAccounted` |
| | `NoGapInAnswers` | `Spec => []AnswersGapless` |
| `TdxAdapter_proofs` | `TypeCorrect` | `Spec => []TypeOK` |
| | `StateOfThisStream` | `Spec => []StateIsOfThisStream` |
| | `OnlyTheseEndRun` | `Spec => EndsForAReason` |
| `TencentAdapter_proofs` | `TypeCorrect` | `Spec => []TypeOK` |
| | `OnlyCurrentList` | `Spec => []DepthsAreOfCurrentList` |
| | `NextDayCounts` | in the years 1 to 9999, `days_from_civil` gives each day the number after that of the day before |
| | `CalendarOfOpenTimes` | `Spec => []OpenTimesExact` |
| `Persister_proofs` | `TypeCorrect` | `Spec => []TypeOK` |
| | `DatabaseStaysComplete` | `Spec => []DatabaseComplete` |
| | `NothingGoesBack` | `Spec => StoresNeverGoBack` |
| | `NewestBarsKept` | `Spec => []BarsAreNewest` |
| `Page_proofs` | `TypeCorrect` | `Spec => []TypeOK` |
| | `ChartComplete` | `Spec => []ChartHoldsAll` |
| | `PanelFollowsSelection` | `Spec => []PanelShowsSelection` |
| | `SelectionRequested` | `Spec => []SelectedIsRequested` |
| | `OneSocket` | `Spec => [](timer => conn = "closed")` |
| | `BarsOrderChart` | once a bar came, the times of the row's history go strictly up |

Hardly any of the invariants is inductive. What each proof adds, and why:

### HubPipeline

`SpacedFeed` needs the stamps: `StampOrder`
says that `latest` is never behind the log, and that between `Insert` and `Send`
it is a window ahead of every broadcast message of that key, which is what makes
the three-step `publish` safe with one forwarder. `SuppressedIsCovered` needs
`StampsBroadcast`: every stamp except the one about to be sent belongs to a
message of the log. `SourceOrder` needs `PathOrder`: log and suppressed messages,
then the forwarder's message, then the queue are in source order, and nobody is
ahead of the source's counter. `Accounted` follows from `PathOrder` (not twice)
and `NothingLost` (at least once). `PipelineInv` is their conjunction; TLC checks
it in the run `HubPipeline`, and the proof has an `Init` and a `Step` lemma per part, with
a case per action that can disturb it.

The refinement maps the feed to `log`, the positions to `cursor`, the clock to
`now` and the offered messages to everything produced, wherever it is by now
(`Offered`). `Emit` is `Offer`, `Send` is `Publish`, the receivers' steps are
`Join`, `Leave` and `Read`, and the steps in between only move a message inside
`Offered`. The guards of `Offer` and `Publish` are what `PathOrder` and
`StampOrder` provide.

### TcpSession

`LockDiscipline`: a task is in the lock's queue exactly while it writes, and
neither does anything after `End`. On it rests `HalfFrameIsHolders`: while a write
can still succeed, the socket ends in half a frame exactly when one task has
written one part, that task holds the lock, and the half frame is its own. With
it `FramesWhole` is inductive. `SilentAfterUnsub` needs `SetFollowsRequests` (the
set agrees with the last request on each symbol) and `LetThrough`: a quote that
waits for the lock was let through when `send_loop` looked, which may be before
the UNSUB. `SubscribedGetsAll` needs `Delivered`, the same statement about every
position behind the cursor. These proofs share `SessionSteps`, which
says of each action what it does to the subscriptions.

For the refinement, each step of the two tasks is a step of the one actor or a
stutter. The first part of a frame stutters and the second sends the frame; that
it appends exactly this frame to the whole ones is `WritePartFrames`, from
`HalfFrameIsHolders`.

### WsSession

`QuotesAccounted` needs `Older`: what was written, and what is in hand, is behind
the receiver, and what is in hand is newer than what was written.
`AnswersGapless` only speaks of the socket, so `OnTheWay` carries it through the
channel: the bars in `send_task`'s hand, then those in the direct channel, then
those `recv_task` still has to queue form one sequence that is in order, behind
everything written, and misses none. `TakeDirect`, `QueueBar` and the write only
move the limits inside this sequence. Once `send_task` is gone bars are thrown
away, and what was written stays a prefix.

### TdxAdapter

`StateIsOfThisStream` needs to know that nothing was asked for while the adapter
connects, and that it is about to subscribe only after the login of this very
stream was answered (`StreamInv`). `TypeOK` rests on `DecodeDepthType`: a push
yields at most one depth, of a stock within its count.

### TencentAdapter

`DepthsAreOfCurrentList` needs `FetchedList`: during a fetch that began after the
last `subscribe` the list asked for is the present one, and what is still to be
sent was asked for. That `run` never panics follows from lemmas on the parser:
`Kth` picks a line that passed the check on the number of fields, so no index is
past the end. `NextDayCounts` is about `days_from_civil` alone and holds for every
year four digits can name: eras of 400 years, the day of the year with March
first, and the leap years are one lemma each. `OpenTimesExact` follows for the
years 1678 to 2261, because none of their days overflows (`NoOverflow`, from
bounds on the first of March of these years).

### Persister

`DatabaseComplete` excuses the last message of a process that ended, so it is not
inductive: the next process knows nothing of it. `Settled` speaks of every position behind
the cursor, and `Behind` says that nothing stored is newer than the message in
hand, which also gives `StoresNeverGoBack`. `BarsAreNewest` needs `SortedSet`:
the set holds the newest of all bars it ever got, and only such. Its step is an
argument by counting: ranked within a subset a bar is no lower than among all
(`NewestOfFewer`), and no more than `Keep` bars are among the newest
(`NewestAreFew`, from a lowest bar, which exists as the natural numbers are well
founded).

### Page

`ChartHoldsAll` needs to know that a quote is new: `ChartOf` says that no quote a
row got is later than the latest one of its source. A bar may have been dropped before it
comes again; then the history is full, since it has fewer points than the row
got (`CountOf`, `ReplaceOf`). That the sort neither loses nor doubles a point is
`RankIsBijective`: different points have different ranks, and an injection of a
finite set into itself is onto. `BarsOrderChart` follows from the same lemmas; a
quote alone may leave a history out of order, since `pushHistory` does not sort. `PanelShowsSelection` is inductive with the types;
`TableCases` says once what `updateTable` may do. `SelectedIsRequested` needs
`RequestsInv`: on an open connection the set of requested keys is what was sent
on it, and nothing is sent on any other, which in turn needs `OneSocket`: a
socket that connects is the only one.

Before its proof each of these strengthenings was checked by TLC as an invariant
of its module's run.

### Only model-checked

All liveness (`EventuallyDecided`, `CloseEndsSession`, `PingAnswered`,
`CutStreamIsLeft`, `StopEndsRun`, `ListIsFetched`, `StopEndsPolling`,
`AnswersArrive`, `ReceiverFreed`, `PersisterGoesOn`, `DialsAgain`), and the
liveness part of the refinement of `QuoteFeed`: fairness and `ENABLED` are out of
the prover's reach. The violated runs are counterexamples and need no proof.

## 5. Not modelled

Configuration (read once, no state), frame and JSON text, HTML and styles, prices
and volumes: never looked at by the code the properties are about. Of the TDX
encoder only that a login or a list is written. The TCP accept loop shares
nothing between sessions; that an accept error, like the end of any other branch
of `select!`, ends the process at any point is `Crash` in `Persister` and
`LinkFails` in `Page`. The scripts under `scripts/` run outside the process:
their race (two starts, one pid file) is listed as a hazard and has no module.
Times are ticks; the 5 ms window is a constant.

## 6. Plan

1. Done: `HubPipeline` with `QuoteFeed`, `TcpSession` with `ClientStream`,
   `TdxAdapter` with `TdxCodec`, `TencentAdapter` with `TencentParser`,
   `Persister`, `WsSession`, `Page`; the type, every safety invariant and both
   refinements proved.
2. Proofs still worth having: for the properties that only say something happens
   at last, the invariants they rest on, such as which tasks may be suspended at
   the same time in `WsSession` and `TcpSession`.
3. `Ops`: concurrent start and stop scripts over a pid file.
4. The encoder, if symbols of other markets are ever subscribed at TDX, and an
   append-only store that `Persister` implements.
