------------------------------ MODULE TdxAdapter -------------------------------
(***************************************************************************)
(* TdxAdapter::run and the TdxConnection it drives, against a quote server *)
(* that may refuse, close, stay silent or send anything.  run is one task; *)
(* subscribe and stop are called by others while it is suspended.  Packets *)
(* carry only what the adapter and its decoder branch on.                  *)
(***************************************************************************)
EXTENDS TdxCodec

CONSTANTS
  Symbols,
  QueueCap,   \* free places of the hub's mpsc channel
  MaxNet      \* bound: packets on their way to the adapter

ASSUME TdxAssumption ==
  /\ QueueCap \in Nat \ {0}
  /\ MaxNet \in Nat \ {0}

VARIABLES
  stopped,   \* TdxAdapter::stopped
  symbols,   \* TdxAdapter::symbols
  pc,        \* where run() is
  state,     \* TdxConnection::state
  link,      \* the present stream: "none", "up", or "down" once it is cut
  net,       \* packets the server sent on it that are still readable
  todo,      \* depths of the current push not yet sent to the hub
  out,       \* messages in the hub's mpsc channel
  answered,  \* history: a packet was read on the present stream
  asked      \* history: the subscription written to the present stream

vars == <<stopped, symbols, pc, state, link, net, todo, out, answered, asked>>
shared == <<stopped, symbols>>
stream == <<link, net, answered, asked>>

States == {"Disconnected", "Connected", "LoggedIn", "Subscribed"}

\* "cut": the body ends before the announced length; "tiny": a length field
\* below 4; "short": a quote push whose body is too short to hold a count.
Packet ==
  [kind : {"push"}, body : Push]
    \union [kind : {"other", "cut", "tiny", "short"}, body : {<<>>}]

Connecting == {"connect", "sendLogin", "login", "retry"}
Ended == {"returned", "failed"}

Init ==
  /\ stopped = FALSE
  /\ symbols \in SUBSET Symbols
  /\ pc = "idle"
  /\ state = "Disconnected"
  /\ link = "none"
  /\ net = <<>>
  /\ todo = <<>>
  /\ out = 0
  /\ answered = FALSE
  /\ asked = {}

-----------------------------------------------------------------------------
(* The callers of subscribe and stop, the hub, the server.                 *)

SubscribeCall(S) ==
  /\ symbols' = S
  /\ UNCHANGED <<stopped, pc, state, todo, out, stream>>

StopCall ==
  /\ stopped' = TRUE
  /\ UNCHANGED <<symbols, pc, state, todo, out, stream>>

HubTakes ==
  /\ out > 0
  /\ out' = out - 1
  /\ UNCHANGED <<shared, pc, state, todo, stream>>

ServerSends(p) ==
  /\ link = "up"
  /\ Len(net) < MaxNet
  /\ net' = Append(net, p)
  /\ link' = IF p.kind = "cut" THEN "down" ELSE link
  /\ UNCHANGED <<shared, pc, state, todo, out, answered, asked>>

LinkBreaks ==
  /\ link = "up"
  /\ link' = "down"
  /\ UNCHANGED <<shared, pc, state, todo, out, net, answered, asked>>

-----------------------------------------------------------------------------
(* run().                                                                  *)

\* self.stopped.store(false): a stop() that came earlier is forgotten.
Start ==
  /\ pc = "idle"
  /\ stopped' = FALSE
  /\ pc' = "outer"
  /\ UNCHANGED <<symbols, state, todo, out, stream>>

\* while !stopped: each round starts from TdxConnection::new.
OuterLoop ==
  /\ pc = "outer"
  /\ pc' = IF stopped THEN "returned" ELSE "connect"
  /\ state' = "Disconnected"
  /\ link' = "none"
  /\ net' = <<>>
  /\ answered' = FALSE
  /\ asked' = {}
  /\ UNCHANGED <<shared, todo, out>>

\* TcpStream::connect and set_nodelay succeed.
ConnectOk ==
  /\ pc = "connect"
  /\ pc' = "sendLogin"
  /\ state' = "Connected"
  /\ link' = "up"
  /\ net' = <<>>
  /\ answered' = FALSE
  /\ asked' = {}
  /\ UNCHANGED <<shared, todo, out>>

\* They fail: stream and state stay what the previous attempt left.
ConnectFails ==
  /\ pc = "connect"
  /\ pc' = "retry"
  /\ UNCHANGED <<shared, state, todo, out, stream>>

SendLogin ==
  /\ pc = "sendLogin"
  /\ \/ pc' = "login"
     \/ link = "down" /\ pc' = "retry"
  /\ UNCHANGED <<shared, state, todo, out, stream>>

\* Whatever packet comes first counts as the login response.
AwaitLogin ==
  /\ pc = "login"
  /\ \/ /\ net # <<>>
        /\ net' = Tail(net)
        /\ IF Head(net).kind \in {"tiny", "cut"}
           THEN pc' = "retry" /\ UNCHANGED <<state, answered>>
           ELSE pc' = "subscribe" /\ state' = "LoggedIn" /\ answered' = TRUE
     \/ /\ net = <<>>
        /\ link = "down"
        /\ pc' = "retry"
        /\ state' = "Disconnected"
        /\ UNCHANGED <<net, answered>>
  /\ UNCHANGED <<shared, todo, out, link, asked>>

\* time::sleep(reconnect_ms); stopped is not looked at in this loop.
RetryAfterSleep ==
  /\ pc = "retry"
  /\ pc' = "connect"
  /\ UNCHANGED <<shared, state, todo, out, stream>>

\* Variant: the result of the write is not looked at.
SubscribeUnchecked ==
  /\ pc = "subscribe"
  /\ pc' = "check"
  /\ state' = IF symbols = {} THEN state ELSE "Subscribed"
  /\ asked' \in IF link = "down" THEN {symbols, {}} ELSE {symbols}
  /\ UNCHANGED <<shared, todo, out, link, net, answered>>

\* The list is copied under the read lock; an empty one is not sent.  A write
\* to a cut stream may still be taken by the kernel.
Subscribe ==
  /\ pc = "subscribe"
  /\ \/ /\ symbols = {}
        /\ pc' = "check"
        /\ UNCHANGED <<state, asked>>
     \/ /\ symbols # {}
        /\ pc' = "check"
        /\ state' = "Subscribed"
        /\ asked' = symbols
     \/ /\ symbols # {}
        /\ link = "down"
        /\ pc' = "outer"
        /\ UNCHANGED <<state, asked>>
  /\ UNCHANGED <<shared, todo, out, link, net, answered>>

\* Variant: only the outer loop looks at stopped.
CheckNothing ==
  /\ pc = "check"
  /\ pc' = "recv"
  /\ UNCHANGED <<shared, state, todo, out, stream>>

CheckStopped ==
  /\ pc = "check"
  /\ pc' = IF stopped THEN "returned" ELSE "recv"
  /\ UNCHANGED <<shared, state, todo, out, stream>>

\* Variant: an error of recv_packet is passed on with ?.
RecvPacketOrFail ==
  /\ pc = "recv"
  /\ net # <<>>
  /\ net' = Tail(net)
  /\ LET p == Head(net) IN
       /\ pc' = CASE p.kind = "push"  -> "push"
                  [] p.kind = "other" -> "check"
                  [] OTHER            -> "failed"
       /\ todo' \in IF p.kind = "push" THEN DecodeDepth(p.body) ELSE {<<>>}
  /\ UNCHANGED <<shared, state, out, link, answered, asked>>

RecvPacket ==
  /\ pc = "recv"
  /\ net # <<>>
  /\ net' = Tail(net)
  /\ LET p == Head(net) IN
       /\ pc' = CASE p.kind \in {"tiny", "cut"} -> "outer"
                  [] p.kind = "push"            -> "push"
                  [] p.kind = "short"           -> "failed"
                  [] p.kind = "other"           -> "check"
       /\ todo' \in IF p.kind = "push" THEN DecodeDepth(p.body) ELSE {<<>>}
  /\ UNCHANGED <<shared, state, out, link, answered, asked>>

\* Variant: a closed stream is read again.
RecvClosedAgain ==
  /\ pc = "recv"
  /\ net = <<>>
  /\ link = "down"
  /\ pc' = "check"
  /\ state' = "Disconnected"
  /\ UNCHANGED <<shared, todo, out, stream>>

RecvClosed ==
  /\ pc = "recv"
  /\ net = <<>>
  /\ link = "down"
  /\ pc' = "outer"
  /\ state' = "Disconnected"
  /\ UNCHANGED <<shared, todo, out, stream>>

\* Variant: an unbounded channel.
PushDepthUnbounded ==
  /\ pc = "push"
  /\ todo # <<>>
  /\ out' = out + 1
  /\ todo' = Tail(todo)
  /\ UNCHANGED <<shared, pc, state, stream>>

\* hub_tx.send(msg).await, which waits while the channel is full.
PushDepth ==
  /\ pc = "push"
  /\ todo # <<>>
  /\ out < QueueCap
  /\ out' = out + 1
  /\ todo' = Tail(todo)
  /\ UNCHANGED <<shared, pc, state, stream>>

PushDone ==
  /\ pc = "push"
  /\ todo = <<>>
  /\ pc' = "check"
  /\ UNCHANGED <<shared, state, todo, out, stream>>

Run ==
  \/ Start \/ OuterLoop \/ ConnectOk \/ ConnectFails \/ SendLogin \/ AwaitLogin
  \/ RetryAfterSleep \/ Subscribe \/ CheckStopped \/ RecvPacket \/ RecvClosed
  \/ PushDepth \/ PushDone

-----------------------------------------------------------------------------
Next ==
  \/ \E S \in SUBSET Symbols : SubscribeCall(S)
  \/ StopCall
  \/ HubTakes
  \/ \E p \in Packet : ServerSends(p)
  \/ LinkBreaks
  \/ Run

\* The task is polled whenever it can go on and the forwarder drains the
\* channel; nothing is assumed of the server or of the callers.
Fairness == WF_vars(Run) /\ WF_vars(HubTakes)

Spec == Init /\ [][Next]_vars /\ Fairness

-----------------------------------------------------------------------------
TypeOK ==
  /\ stopped \in BOOLEAN
  /\ symbols \subseteq Symbols
  /\ pc \in Connecting \union Ended
              \union {"idle", "outer", "subscribe", "check", "recv", "push"}
  /\ state \in States
  /\ link \in {"none", "up", "down"}
  /\ net \in Seq(Packet) /\ Len(net) <= MaxNet
  /\ todo \in Seq(0 .. MaxBatch) /\ Len(todo) <= MaxBatch
  /\ out \in 0 .. QueueCap
  /\ answered \in BOOLEAN
  /\ asked \subseteq Symbols

\* connection.rs:81-94: the state never claims more than happened on the stream
\* in use, over any sequence of refused, cut and repeated attempts: logged in
\* only with an answer on this stream, subscribed only with a list written to it.
StateIsOfThisStream ==
  /\ state \in {"LoggedIn", "Subscribed"} => answered
  /\ state = "Subscribed" <=> asked # {} /\ state # "Disconnected"
  /\ pc \in {"check", "recv", "push"} => answered

\* adapter.rs:54-62: a cut stream is always left: the adapter dials again or has
\* ended, whatever was still unread and however full the hub is.
CutStreamIsLeft == link = "down" ~> pc = "connect" \/ pc \in Ended

\* adapter.rs:30-50: once run() has started, stop() ends it, provided the server
\* does not keep it waiting for ever in connect or in a read.
StopEndsRun ==
  []<>(pc \notin Connecting) /\ []<>(pc # "recv")
    => (stopped /\ pc # "idle" ~> pc \in Ended)

\* Only stop() or a quote push without a count ends run(): no refused, cut or
\* garbled connection does, so none of them takes the process down with it.
EndsForAReason ==
  [][pc' \in Ended /\ pc' # pc
       => stopped \/ (net # <<>> /\ Head(net).kind = "short")]_vars

\* docs/superpowers/specs/2026-05-18-fastquote-design.md:132: after a break the
\* adapter reconnects 3 s later.  adapter.rs:41-61 goes back to the outer loop,
\* which dials at once; only a failed dial or login sleeps (connection.rs:70).
ReconnectsAfterPause ==
  [][(pc \in {"recv", "subscribe"} /\ ~stopped) => pc' # "outer"]_vars

\* decoder.rs:38-39: a push is a count and one record per stock.  decoder.rs:49-92
\* leaves an inactive record without its prices, which are read as the next
\* header, and lets the first active one take all that follows as its levels.
ActiveStocksDecoded ==
  [][LET p == Head(net) IN
       pc = "recv" /\ pc' = "push" /\ p.body.held = Len(p.body.active)
         => todo' = ActiveStocks(p.body)]_vars
=============================================================================
