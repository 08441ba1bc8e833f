---------------------------- MODULE TencentAdapter -----------------------------
(***************************************************************************)
(* TencentAdapter::run: on every tick of an interval the list of symbols   *)
(* is copied, their quotes are fetched in one HTTP request and the depths  *)
(* found in the answer go one by one into the hub's channel.  subscribe    *)
(* and stop are called by others at any await.  The interval never skips a *)
(* tick: those missed during a slow fetch are all still due after it.      *)
(***************************************************************************)
EXTENDS TencentParser

CONSTANTS
  Codes,        \* stock codes; both markets use the same ones
  FieldCounts,  \* how many fields a line of an answer may have
  QueueCap,     \* free places of the hub's mpsc channel
  MaxLines,     \* bound: lines of an answer
  MaxOverdue,   \* bound: ticks due and not taken
  MaxCalls      \* bound: calls of subscribe

ASSUME TencentAssumption ==
  /\ FieldCounts \subseteq Nat
  /\ QueueCap \in Nat \ {0}
  /\ MaxOverdue \in Nat \ {0}
  /\ MaxLines \in Nat /\ MaxCalls \in Nat

VARIABLES
  stopped,  \* TencentAdapter::stopped
  symbols,  \* TencentAdapter::symbols
  overdue,  \* ticks of the interval that are due
  pc,       \* where run() is
  asked,    \* the copied list of the latest fetch
  todo,     \* depths of its answer not yet sent
  out,      \* messages in the hub's channel
  hub,      \* "open", or "gone" once the forwarder has ended
  calls,    \* history: calls of subscribe
  begun     \* history: calls before the latest fetch began

vars == <<stopped, symbols, overdue, pc, asked, todo, out, hub, calls, begun>>
shared == <<stopped, symbols, calls>>
fetch == <<asked, begun>>

Symbol == [market : {"SH", "SZ"}, code : Codes]

\* The service names Shanghai 1 and Shenzhen 51.
MarketId(market) == IF market = "SH" THEN "1" ELSE "51"
Line(S) ==
  {[fields |-> n, id |-> MarketId(s.market), code |-> s.code] : n \in FieldCounts, s \in S}
Answers(S) == UNION {[1 .. n -> Line(S)] : n \in 0 .. MaxLines}

Ended == {"returned", "panicked"}

Init ==
  /\ stopped = FALSE
  /\ symbols \in SUBSET Symbol
  /\ overdue = 0
  /\ pc = "idle"
  /\ asked = {}
  /\ todo = <<>>
  /\ out = <<>>
  /\ hub = "open"
  /\ calls = 0
  /\ begun = 0

-----------------------------------------------------------------------------
(* The callers of subscribe and stop, the hub, the clock.                  *)

Subscribe(S) ==
  /\ calls < MaxCalls
  /\ symbols' = S
  /\ calls' = calls + 1
  /\ UNCHANGED <<stopped, overdue, pc, fetch, todo, out, hub>>

Stop ==
  /\ stopped' = TRUE
  /\ UNCHANGED <<symbols, overdue, pc, fetch, todo, out, hub, calls>>

HubTakes ==
  /\ hub = "open"
  /\ out # <<>>
  /\ out' = Tail(out)
  /\ UNCHANGED <<shared, overdue, pc, fetch, todo, hub>>

HubEnds ==
  /\ hub' = "gone"
  /\ out' = <<>>
  /\ UNCHANGED <<shared, overdue, pc, fetch, todo>>

PeriodElapses ==
  /\ pc \notin Ended \union {"idle"}
  /\ overdue < MaxOverdue
  /\ overdue' = overdue + 1
  /\ UNCHANGED <<shared, pc, fetch, todo, out, hub>>

-----------------------------------------------------------------------------
(* run().                                                                  *)

\* A stop() that came earlier is forgotten; the first tick is due at once.
Start ==
  /\ pc = "idle"
  /\ stopped' = FALSE
  /\ overdue' = 1
  /\ pc' = "loop"
  /\ UNCHANGED <<symbols, fetch, todo, out, hub, calls>>

Loop ==
  /\ pc = "loop"
  /\ pc' = IF stopped THEN "returned" ELSE "tick"
  /\ UNCHANGED <<shared, overdue, fetch, todo, out, hub>>

\* Variant: an empty list ends the adapter.
TickOrReturn ==
  /\ pc = "tick"
  /\ overdue > 0
  /\ overdue' = overdue - 1
  /\ pc' = IF symbols = {} THEN "returned" ELSE "fetch"
  /\ asked' = symbols
  /\ begun' = calls
  /\ UNCHANGED <<shared, todo, out, hub>>

\* Variant: the list of the first fetch is kept for all.
TickOfFirstList ==
  /\ pc = "tick"
  /\ overdue > 0
  /\ overdue' = overdue - 1
  /\ IF symbols = {}
     THEN pc' = "loop" /\ UNCHANGED fetch
     ELSE pc' = "fetch" /\ asked' = (IF asked = {} THEN symbols ELSE asked) /\ begun' = calls
  /\ UNCHANGED <<shared, todo, out, hub>>

\* interval.tick(), then the list is copied under the read lock; an empty one is
\* not asked for.
Tick ==
  /\ pc = "tick"
  /\ overdue > 0
  /\ overdue' = overdue - 1
  /\ IF symbols = {}
     THEN pc' = "loop" /\ UNCHANGED fetch
     ELSE pc' = "fetch" /\ asked' = symbols /\ begun' = calls
  /\ UNCHANGED <<shared, todo, out, hub>>

\* The HTTP status is not looked at: any text is parsed.
FetchOk(lines) ==
  /\ pc = "fetch"
  /\ todo' = ParseDepthQuote(lines)
  /\ pc' = IF \E i \in DOMAIN lines : Overrun(lines[i]) THEN "panicked" ELSE "send"
  /\ UNCHANGED <<shared, overdue, fetch, out, hub>>

FetchFails ==
  /\ pc = "fetch"
  /\ pc' = "loop"
  /\ UNCHANGED <<shared, overdue, fetch, todo, out, hub>>

\* hub_tx.send(msg).await, which waits while the channel is full.
SendDepth ==
  /\ pc = "send"
  /\ todo # <<>>
  /\ hub = "open"
  /\ Len(out) < QueueCap
  /\ out' = Append(out, [depth |-> Head(todo), call |-> begun])
  /\ todo' = Tail(todo)
  /\ UNCHANGED <<shared, overdue, pc, fetch, hub>>

\* Variant: a closed channel is waited for like a full one.
SendDoneWhenAll ==
  /\ pc = "send"
  /\ todo = <<>>
  /\ pc' = "loop"
  /\ UNCHANGED <<shared, overdue, fetch, todo, out, hub>>

\* Everything is sent, or the channel is closed and the rest is given up; either
\* way the loop goes on.
SendDone ==
  /\ pc = "send"
  /\ todo = <<>> \/ hub = "gone"
  /\ todo' = <<>>
  /\ pc' = "loop"
  /\ UNCHANGED <<shared, overdue, fetch, out, hub>>

Fetch == FetchFails \/ \E lines \in Answers(asked) : FetchOk(lines)
Run == Start \/ Loop \/ Tick \/ SendDepth \/ SendDone

Next ==
  \/ \E S \in SUBSET Symbol : Subscribe(S)
  \/ Stop
  \/ HubTakes
  \/ HubEnds
  \/ PeriodElapses
  \/ Run
  \/ Fetch

\* The task is polled, the clock goes on and the forwarder drains the channel.
\* The HTTP client has no timeout, so nothing says that a fetch returns.
Fairness == WF_vars(Run) /\ WF_vars(PeriodElapses) /\ WF_vars(HubTakes)

Spec == Init /\ [][Next]_vars /\ Fairness

-----------------------------------------------------------------------------
\* No state is "panicked": no answer, however cut, is indexed past its end.
TypeOK ==
  /\ stopped \in BOOLEAN
  /\ symbols \subseteq Symbol
  /\ overdue \in 0 .. MaxOverdue
  /\ pc \in {"idle", "loop", "tick", "fetch", "send", "returned"}
  /\ asked \subseteq Symbol
  /\ todo \in Seq(Symbol) /\ Len(todo) <= MaxLines
  /\ out \in Seq([depth : Symbol, call : 0 .. MaxCalls]) /\ Len(out) <= QueueCap
  /\ hub \in {"open", "gone"}
  /\ calls \in 0 .. MaxCalls
  /\ begun \in 0 .. calls

\* adapter.rs:71-77: once subscribe has returned, every fetch that begins later,
\* also one of a burst of overdue ticks, only brings depths of the new list into
\* the hub, under the market and code that were asked for.
DepthsAreOfCurrentList ==
  /\ \A i \in DOMAIN out : out[i].call = calls => out[i].depth \in symbols
  /\ begun = calls => \A i \in DOMAIN todo : todo[i] \in symbols

\* parser.rs:151-188: the opening times of successive days are a day apart, over
\* leap years, centuries and turns of the year, so bars never collide or change
\* places in the stores and the chart.  It depends on no state and is evaluated
\* in those before the start only.
OpenTimesExact == pc = "idle" => OpenTimesFollowCalendar

\* A list that stays is fetched, whatever was going on when it was set: an empty
\* list before it, a slow fetch, a full or closed channel; unless a fetch hangs,
\* a later list takes its place or the adapter is stopped.
ListIsFetched ==
  []<>(pc # "fetch")
    => \A c \in 0 .. MaxCalls :
         (pc # "idle" /\ calls = c /\ symbols # {})
           ~> (begun = c /\ asked = symbols) \/ calls # c \/ stopped

\* A started adapter that is stopped returns at last, unless a fetch hangs: neither
\* a full channel nor overdue ticks keep it.
StopEndsPolling ==
  []<>(pc # "fetch") => (stopped /\ pc # "idle" ~> pc \in Ended)
=============================================================================
