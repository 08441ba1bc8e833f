------------------------------- MODULE WsSession -------------------------------
(***************************************************************************)
(* One WebSocket client.  send_task owns the sink and selects between the  *)
(* hub's broadcast and a bounded direct channel; recv_task reads commands, *)
(* fetches kline history over HTTP and puts one message per bar into the   *)
(* direct channel.  join! waits for both.  There are no subscriptions: a   *)
(* quote is named by its position in the broadcast, a bar by its request   *)
(* and its rank in the answer.                                             *)
(***************************************************************************)
EXTENDS Integers, Sequences

CONSTANTS
  BroadcastCap,  \* messages the broadcast ring keeps
  DirectCap,     \* capacity of the direct channel (128 in server.rs)
  SocketCap,     \* messages the socket takes before the client reads
  MaxBars,       \* bound: bars in an answer (MAX_KLINE_COUNT is 1000)
  MaxFeed,       \* bound: messages broadcast
  MaxRequests    \* bound: messages the client sends

ASSUME WsAssumption ==
  /\ BroadcastCap \in Nat \ {0}
  /\ DirectCap \in Nat \ {0}
  /\ SocketCap \in Nat \ {0}
  /\ MaxBars \in Nat /\ MaxFeed \in Nat /\ MaxRequests \in Nat

VARIABLES
  published,  \* messages broadcast since the session subscribed
  cursor,     \* next position of its receiver
  direct,     \* the direct channel
  pc,         \* where the two tasks are
  item,       \* the message send_task is sending
  todo,       \* bars of the present answer recv_task has not queued
  wire,       \* messages written to the socket
  consumed,   \* how many of them the client has read
  inbox,      \* client messages recv_task has not read
  requests,   \* how many the client has sent
  peer,       \* the client's end: "open", "closed", "reset" once a write failed
  answers,    \* history: how many bars each fetched answer has
  lost        \* history: positions skipped by Lagged

vars == <<published, cursor, direct, pc, item, todo, wire, consumed, inbox,
          requests, peer, answers, lost>>
client == <<consumed, inbox, requests, peer>>
history == <<answers, lost>>

Quote(p) == [type |-> "quote", pos |-> p]
Bar(r, n) == [type |-> "bar", req |-> r, rank |-> n]
Nothing == [type |-> "none"]

\* "other" is everything parse_kline_request or tencent_period turns down.
Request == {"req_kline", "other"}

Init ==
  /\ published = 0
  /\ cursor = 1
  /\ direct = <<>>
  /\ pc = [send |-> "select", recv |-> "next"]
  /\ item = Nothing
  /\ todo = <<>>
  /\ wire = <<>>
  /\ consumed = 0
  /\ inbox = <<>>
  /\ requests = 0
  /\ peer = "open"
  /\ answers = <<>>
  /\ lost = {}

\* join!(send_task, recv_task) has returned.
Over == pc.send = "done" /\ pc.recv = "done"

-----------------------------------------------------------------------------
(* The hub and the client.                                                 *)

Publish ==
  /\ ~Over
  /\ published < MaxFeed
  /\ published' = published + 1
  /\ UNCHANGED <<cursor, direct, pc, item, todo, wire, client, history>>

ClientSends(r) ==
  /\ peer = "open"
  /\ requests < MaxRequests
  /\ inbox' = Append(inbox, r)
  /\ requests' = requests + 1
  /\ UNCHANGED <<published, cursor, direct, pc, item, todo, wire, consumed, peer>>
  /\ UNCHANGED history

ClientReads ==
  /\ peer = "open"
  /\ consumed < Len(wire)
  /\ consumed' = consumed + 1
  /\ UNCHANGED <<published, cursor, direct, pc, item, todo, wire, inbox>>
  /\ UNCHANGED <<requests, peer, history>>

ClientCloses ==
  /\ peer = "open"
  /\ peer' = "closed"
  /\ UNCHANGED <<published, cursor, direct, pc, item, todo, wire, consumed>>
  /\ UNCHANGED <<inbox, requests, history>>

-----------------------------------------------------------------------------
(* send_task.                                                              *)

\* Variant: the direct channel is emptied between answers only.
TakeDirectBetweenAnswers ==
  /\ pc.send = "select"
  /\ direct # <<>>
  /\ pc.recv # "queue"
  /\ item' = Head(direct)
  /\ direct' = Tail(direct)
  /\ pc' = [pc EXCEPT !.send = "write"]
  /\ UNCHANGED <<published, cursor, todo, wire, client, history>>

\* What was queued is still received after recv_task dropped its sender; then
\* the pattern Some(json) disables the branch.
TakeDirect ==
  /\ pc.send = "select"
  /\ direct # <<>>
  /\ item' = Head(direct)
  /\ direct' = Tail(direct)
  /\ pc' = [pc EXCEPT !.send = "write"]
  /\ UNCHANGED <<published, cursor, todo, wire, client, history>>

Oldest == IF published > BroadcastCap THEN published - BroadcastCap + 1 ELSE 1

\* Variant: after a lag the session subscribes anew.
TakeQuoteResubscribe ==
  /\ pc.send = "select"
  /\ cursor <= published
  /\ IF cursor < Oldest
     THEN /\ cursor' = published + 1
          /\ lost' = lost \union cursor .. Oldest - 1
          /\ UNCHANGED <<item, pc>>
     ELSE /\ cursor' = cursor + 1
          /\ item' = Quote(cursor)
          /\ pc' = [pc EXCEPT !.send = "write"]
          /\ UNCHANGED lost
  /\ UNCHANGED <<published, direct, todo, wire, client, answers>>

TakeQuote ==
  /\ pc.send = "select"
  /\ cursor <= published
  /\ IF cursor < Oldest
     THEN /\ cursor' = Oldest
          /\ lost' = lost \union cursor .. Oldest - 1
          /\ UNCHANGED <<item, pc>>
     ELSE /\ cursor' = cursor + 1
          /\ item' = Quote(cursor)
          /\ pc' = [pc EXCEPT !.send = "write"]
          /\ UNCHANGED lost
  /\ UNCHANGED <<published, direct, todo, wire, client, answers>>

Write ==
  /\ pc.send = "write"
  /\ peer # "reset"
  /\ Len(wire) - consumed < SocketCap
  /\ wire' = Append(wire, item)
  /\ item' = Nothing
  /\ pc' = [pc EXCEPT !.send = "select"]
  /\ UNCHANGED <<published, cursor, direct, todo, client, history>>

\* send_task ends; its end of the direct channel goes with what is queued.
WriteFails ==
  /\ pc.send = "write"
  /\ peer # "open"
  /\ peer' = "reset"
  /\ item' = Nothing
  /\ direct' = <<>>
  /\ pc' = [pc EXCEPT !.send = "done"]
  /\ UNCHANGED <<published, cursor, todo, wire, consumed, inbox, requests, history>>

-----------------------------------------------------------------------------
(* recv_task.                                                              *)

NextText ==
  /\ pc.recv = "next"
  /\ inbox # <<>>
  /\ inbox' = Tail(inbox)
  /\ pc' = [pc EXCEPT !.recv = IF Head(inbox) = "req_kline" THEN "fetch" ELSE @]
  /\ UNCHANGED <<published, cursor, direct, item, todo, wire, consumed, requests>>
  /\ UNCHANGED <<peer, history>>

\* get_kline and parse_kline_response: any number of bars.
FetchOk(n) ==
  /\ pc.recv = "fetch"
  /\ answers' = Append(answers, n)
  /\ todo' = [i \in 1 .. n |-> Bar(Len(answers) + 1, i)]
  /\ pc' = [pc EXCEPT !.recv = "queue"]
  /\ UNCHANGED <<published, cursor, direct, item, wire, client, lost>>

FetchFails ==
  /\ pc.recv = "fetch"
  /\ pc' = [pc EXCEPT !.recv = "next"]
  /\ UNCHANGED <<published, cursor, direct, item, todo, wire, client, history>>

\* Variants: no bound; try_send that drops a bar; no look at the other end.
QueueBarUnbounded ==
  /\ pc.recv = "queue"
  /\ todo # <<>>
  /\ pc.send # "done"
  /\ direct' = Append(direct, Head(todo))
  /\ todo' = Tail(todo)
  /\ UNCHANGED <<published, cursor, pc, item, wire, client, history>>

QueueBarOrDrop ==
  /\ pc.recv = "queue"
  /\ todo # <<>>
  /\ pc.send # "done"
  /\ direct' = IF Len(direct) < DirectCap THEN Append(direct, Head(todo)) ELSE direct
  /\ todo' = Tail(todo)
  /\ UNCHANGED <<published, cursor, pc, item, wire, client, history>>

QueueBar ==
  /\ pc.recv = "queue"
  /\ todo # <<>>
  /\ pc.send # "done"
  /\ Len(direct) < DirectCap
  /\ direct' = Append(direct, Head(todo))
  /\ todo' = Tail(todo)
  /\ UNCHANGED <<published, cursor, pc, item, wire, client, history>>

QueueDoneOnlyWhenAll ==
  /\ pc.recv = "queue"
  /\ todo = <<>>
  /\ pc' = [pc EXCEPT !.recv = "next"]
  /\ UNCHANGED <<published, cursor, direct, item, todo, wire, client, history>>

\* All bars are queued, or send_task is gone and send returns an error.
QueueDone ==
  /\ pc.recv = "queue"
  /\ todo = <<>> \/ pc.send = "done"
  /\ todo' = <<>>
  /\ pc' = [pc EXCEPT !.recv = "next"]
  /\ UNCHANGED <<published, cursor, direct, item, wire, client, history>>

\* None or an error from the stream, after or instead of what is unread.
StreamEnds ==
  /\ pc.recv = "next"
  /\ peer # "open"
  /\ pc' = [pc EXCEPT !.recv = "done"]
  /\ UNCHANGED <<published, cursor, direct, item, todo, wire, client, history>>

SendTask == TakeDirect \/ TakeQuote \/ Write \/ WriteFails
RecvTask == NextText \/ QueueBar \/ QueueDone \/ StreamEnds

Next ==
  \/ Publish
  \/ \E r \in Request : ClientSends(r)
  \/ ClientReads
  \/ ClientCloses
  \/ SendTask
  \/ RecvTask
  \/ \E n \in 0 .. MaxBars : FetchOk(n)
  \/ FetchFails

\* Both tasks are spawned.  The HTTP client has no timeout, so nothing says
\* that a fetch returns; and the client owes nothing.
Fairness == WF_vars(SendTask) /\ WF_vars(RecvTask)

Spec == Init /\ [][Next]_vars /\ Fairness

-----------------------------------------------------------------------------
IsBar(b) ==
  /\ b.type = "bar"
  /\ b.req \in DOMAIN answers
  /\ b.rank \in 1 .. answers[b.req]
IsQuote(q) == q.type = "quote" /\ q.pos \in 1 .. published

TypeOK ==
  /\ published \in 0 .. MaxFeed
  /\ cursor \in 1 .. published + 1
  /\ Len(direct) <= DirectCap /\ \A i \in DOMAIN direct : IsBar(direct[i])
  /\ pc \in [send : {"select", "write", "done"}, recv : {"next", "fetch", "queue", "done"}]
  /\ item = Nothing \/ IsBar(item) \/ IsQuote(item)
  /\ \A i \in DOMAIN todo : IsBar(todo[i])
  /\ \A i \in DOMAIN wire : IsBar(wire[i]) \/ IsQuote(wire[i])
  /\ consumed \in 0 .. Len(wire)
  /\ inbox \in Seq(Request)
  /\ requests \in 0 .. MaxRequests
  /\ peer \in {"open", "closed", "reset"}
  /\ answers \in Seq(0 .. MaxBars)
  /\ lost \subseteq 1 .. MaxFeed

Written(b) == \E i \in DOMAIN wire : wire[i] = b

\* server.rs:112-116: an answer reaches the client as a gapless prefix of its
\* bars, after all of the earlier answers, although every bar crosses a bounded
\* channel on its own and races with live quotes for the sink.
AnswersGapless ==
  \A i \in DOMAIN wire : wire[i].type = "bar" =>
    /\ \A j \in 1 .. i - 1 : wire[j] # wire[i]
    /\ \A r \in 1 .. wire[i].req :
         \A n \in 1 .. answers[r] :
           (r < wire[i].req \/ n < wire[i].rank)
             => \E j \in 1 .. i - 1 : wire[j] = Bar(r, n)

\* server.rs:58-70: while send_task lives, each quote its receiver is past was
\* written, is being written, or was counted as lag; kline answers on the same
\* sink displace none, and quotes keep their order.
QuotesAccounted ==
  /\ pc.send # "done" =>
       \A p \in 1 .. cursor - 1 : p \in lost \/ item = Quote(p) \/ Written(Quote(p))
  /\ \A i, j \in DOMAIN wire :
       i < j /\ wire[i].type = "quote" /\ wire[j].type = "quote"
         => wire[i].pos < wire[j].pos

\* A client that goes on reading gets every bar of every answer that was
\* fetched, also one larger than the direct channel, unless it leaves.
AnswersArrive ==
  []<>(consumed = Len(wire) \/ peer # "open")
    => \A r \in 1 .. MaxRequests, n \in 1 .. MaxBars :
         (r \in DOMAIN answers /\ n <= answers[r])
           ~> (Written(Bar(r, n)) \/ peer # "open")

\* server.rs:113: a client that leaves frees recv_task, also when that waits
\* for a place in the direct channel of a send_task that waits for the client;
\* only a fetch that never returns keeps it.
ReceiverFreed ==
  []<>(pc.recv # "fetch") => (peer # "open" ~> pc.recv = "done")

\* docs/fastquote-protocol-spec.md:593: a WebSocket connection is given up after
\* 90 s without a sign of life.  server.rs:88 joins both tasks and send_task only
\* notices a client that left when it has something to send.
LeavingEndsSession ==
  []<>(pc.recv # "fetch") => (peer # "open" ~> Over)
=============================================================================
