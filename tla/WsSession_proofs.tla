--------------------------- MODULE WsSession_proofs ----------------------------
(***************************************************************************)
(* Proofs about WsSession for every ring, channel and socket, and answers  *)
(* of any length.                                                          *)
(***************************************************************************)
EXTENDS WsSession, SequenceTheorems, TLAPS

USE WsAssumption DEF WsAssumption

-----------------------------------------------------------------------------
(* Type correctness, and when the two tasks hold something.                *)

\* Bars that were fetched and quotes that were broadcast.
Bars == {b \in [type : {"bar"}, req : Nat, rank : Nat] :
           b.req \in DOMAIN answers /\ b.rank \in 1 .. answers[b.req]}
Quotes == {q \in [type : {"quote"}, pos : Nat] : q.pos \in 1 .. published}

\* send_task holds an item exactly while it writes, recv_task bars only while it
\* queues them.
Held ==
  /\ direct \in Seq(Bars) /\ todo \in Seq(Bars) /\ wire \in Seq(Bars \union Quotes)
  /\ IF pc.send = "write" THEN item \in Bars \union Quotes ELSE item = Nothing
  /\ pc.recv # "queue" => todo = <<>>

Counted ==
  /\ published \in 0 .. MaxFeed
  /\ cursor \in 1 .. published + 1
  /\ Len(direct) <= DirectCap
  /\ pc \in [send : {"select", "write", "done"}, recv : {"next", "fetch", "queue", "done"}]
  /\ consumed \in 0 .. Len(wire)
  /\ inbox \in Seq(Request)
  /\ requests \in 0 .. MaxRequests
  /\ peer \in {"open", "closed", "reset"}
  /\ answers \in Seq(0 .. MaxBars)
  /\ lost \subseteq 1 .. MaxFeed

Typed == Counted /\ Held

LEMMA ElementsOf ==
  ASSUME NEW S, NEW s \in Seq(S)
  PROVE  /\ \A i \in DOMAIN s : s[i] \in S
         /\ s # <<>> => Head(s) \in S /\ Tail(s) \in Seq(S) /\ Len(Tail(s)) = Len(s) - 1
         /\ \A x \in S : Append(s, x) \in Seq(S) /\ Len(Append(s, x)) = Len(s) + 1
         /\ \A T : S \subseteq T => s \in Seq(T)
         /\ Len(s) \in Nat
         /\ <<>> \in Seq(S) /\ Len(<<>>) = 0
OBVIOUS

LEMMA TypedInit == Init => Typed
<1> SUFFICES ASSUME Init PROVE Typed
  OBVIOUS
<1>1. /\ direct = <<>> /\ todo = <<>> /\ wire = <<>> /\ inbox = <<>> /\ answers = <<>>
  BY DEF Init
<1>2. Counted
  <2>1. inbox \in Seq(Request) /\ answers \in Seq(0 .. MaxBars)
    BY <1>1
  <2>2. Len(direct) = 0 /\ Len(wire) = 0
    BY <1>1
  <2> QED BY <2>1, <2>2 DEF Init, Counted
<1>3. Held
  <2> HIDE DEF Bars, Quotes
  <2>1. direct \in Seq(Bars) /\ todo \in Seq(Bars) /\ wire \in Seq(Bars \union Quotes)
    BY <1>1
  <2> QED BY <2>1 DEF Init, Held
<1> QED BY <1>2, <1>3 DEF Typed

\* What is broadcast or fetched later changes nothing of what there is.
LEMMA MoreItems ==
  ASSUME Typed, [Next]_vars
  PROVE  Bars \subseteq Bars' /\ Quotes \subseteq Quotes'
<1>1. answers \in Seq(0 .. MaxBars) /\ published \in Nat
  BY DEF Typed, Counted
<1>2. \/ answers' = answers
      \/ \E n \in 0 .. MaxBars : answers' = Append(answers, n)
  BY DEF Next, Publish, ClientSends, ClientReads, ClientCloses, SendTask, RecvTask, TakeDirect,
         TakeQuote, Write, WriteFails, NextText, QueueBar, QueueDone, StreamEnds, FetchOk,
         FetchFails, history, vars
<1>3. published' = published \/ published' = published + 1
  BY DEF Next, Publish, ClientSends, ClientReads, ClientCloses, SendTask, RecvTask, TakeDirect,
         TakeQuote, Write, WriteFails, NextText, QueueBar, QueueDone, StreamEnds, FetchOk,
         FetchFails, history, vars
<1>4. \A r \in DOMAIN answers : r \in DOMAIN answers' /\ answers'[r] = answers[r]
  BY <1>1, <1>2
<1>5. Bars \subseteq Bars'
  BY <1>4 DEF Bars
<1>6. Quotes \subseteq Quotes'
  BY <1>1, <1>3 DEF Quotes
<1> QED BY <1>5, <1>6

LEMMA TypedStep == Typed /\ [Next]_vars => Typed'
<1> SUFFICES ASSUME Typed, [Next]_vars PROVE Typed'
  OBVIOUS
<1> USE DEF client, history
<1>t. /\ published \in Nat /\ answers \in Seq(0 .. MaxBars)
      /\ direct \in Seq(Bars) /\ todo \in Seq(Bars) /\ wire \in Seq(Bars \union Quotes)
      /\ Counted /\ Held
  BY DEF Typed, Counted, Held
<1> DEFINE B == Bars
           B1 == Bars'
           I == Bars \union Quotes
           I1 == (Bars \union Quotes)'
<1>m. B \subseteq B1 /\ I \subseteq I1
  BY MoreItems
<1>h. /\ direct \in Seq(B1) /\ todo \in Seq(B1) /\ wire \in Seq(I1)
      /\ pc.send = "write" => item \in I1
      /\ pc.send # "write" => item = Nothing
      /\ pc.recv # "queue" => todo = <<>>
      /\ B \subseteq I /\ B1 \subseteq I1
  <2>1. /\ pc.send = "write" => item \in I1
        /\ pc.send # "write" => item = Nothing
        /\ pc.recv # "queue" => todo = <<>>
    BY <1>m, <1>t DEF Held
  <2> HIDE DEF I, I1, B, B1
  <2>2. direct \in Seq(B) /\ todo \in Seq(B) /\ wire \in Seq(I)
    BY <1>t DEF B, I
  <2>3. direct \in Seq(B1) /\ todo \in Seq(B1) /\ wire \in Seq(I1)
    BY <1>m, <2>2, ElementsOf
  <2>4. B \subseteq I /\ B1 \subseteq I1
    BY DEF B, I, B1, I1
  <2> QED BY <2>1, <2>3, <2>4
<1>d. Typed' <=> /\ Counted'
                 /\ direct' \in Seq(B1) /\ todo' \in Seq(B1) /\ wire' \in Seq(I1)
                 /\ IF pc'.send = "write" THEN item' \in I1 ELSE item' = Nothing
                 /\ pc'.recv # "queue" => todo' = <<>>
  BY DEF Typed, Held
<1> HIDE DEF B, I, B1, I1
<1>1. CASE Publish
  <2>1. published' \in 0 .. MaxFeed /\ published' = published + 1 /\ cursor' \in 1 .. published' + 1
    BY <1>1, <1>t DEF Publish, Counted
  <2> QED BY <1>1, <1>t, <1>h, <1>d, <2>1 DEF Publish, Counted
<1>2. ASSUME NEW r \in Request, ClientSends(r) PROVE Typed'
  BY <1>2, <1>t, <1>h, <1>d DEF ClientSends, Counted
<1>3. CASE ClientReads \/ ClientCloses
  <2>1. Counted'
    <3>1. CASE ClientReads
      <4>1. Len(wire) \in Nat
        BY <1>t, ElementsOf
      <4>2. consumed' \in 0 .. Len(wire)
        BY <1>t, <3>1, <4>1 DEF ClientReads, Counted
      <4> QED BY <1>t, <3>1, <4>2 DEF ClientReads, Counted
    <3>2. CASE ClientCloses
      BY <1>t, <3>2 DEF ClientCloses, Counted
    <3> QED BY <1>3, <3>1, <3>2
  <2>2. UNCHANGED <<direct, todo, wire, item, pc>>
    BY <1>3 DEF ClientReads, ClientCloses
  <2> QED BY <1>h, <1>d, <2>1, <2>2
<1>4. CASE TakeDirect
  <2>1. item' \in I1 /\ direct' \in Seq(B1) /\ Len(direct') <= DirectCap
    BY <1>4, <1>t, <1>h, ElementsOf DEF TakeDirect, Counted
  <2>2. pc'.send = "write" /\ pc'.recv = pc.recv
    BY <1>4, <1>t DEF TakeDirect, Counted
  <2>3. Counted'
    BY <1>4, <1>t, <2>1 DEF TakeDirect, Counted
  <2> QED BY <1>4, <1>h, <1>d, <2>1, <2>2, <2>3 DEF TakeDirect
<1>5. CASE TakeQuote
  <2>1. cursor \in 1 .. published /\ Oldest \in 1 .. published
    <3>1. cursor <= published /\ cursor \in 1 .. published + 1
      BY <1>5, <1>t DEF TakeQuote, Counted
    <3> QED BY <1>t, <3>1 DEF Oldest
  <2>2. CASE cursor < Oldest
    <3>1. cursor' = Oldest /\ lost' = lost \union (cursor .. Oldest - 1)
          /\ item' = item /\ pc' = pc
      BY <1>5, <2>2 DEF TakeQuote
    <3>2. cursor' \in 1 .. published + 1 /\ lost' \subseteq 1 .. MaxFeed
      BY <1>t, <2>1, <3>1 DEF Counted
    <3> QED BY <1>5, <1>t, <1>h, <1>d, <3>1, <3>2 DEF TakeQuote, Counted
  <2>3. CASE ~(cursor < Oldest)
    <3>1. cursor' = cursor + 1 /\ item' = Quote(cursor) /\ lost' = lost
          /\ pc' = [pc EXCEPT !.send = "write"]
      BY <1>5, <2>3 DEF TakeQuote
    <3>2. item' \in I1
      <4>1. Quote(cursor) \in Quotes
        BY <2>1 DEF Quote, Quotes
      <4> QED BY <1>m, <3>1, <4>1 DEF I
    <3>3. pc'.send = "write" /\ pc'.recv = pc.recv
      BY <1>t, <3>1 DEF Counted
    <3>4. Counted'
      <4>1. cursor' \in 1 .. published + 1
        BY <1>t, <2>1, <3>1
      <4>2. pc' \in [send : {"select", "write", "done"}, recv : {"next", "fetch", "queue", "done"}]
        BY <1>t, <3>1 DEF Counted
      <4> QED BY <1>5, <1>t, <3>1, <4>1, <4>2 DEF TakeQuote, Counted
    <3> QED BY <1>5, <1>h, <1>d, <3>2, <3>3, <3>4 DEF TakeQuote
  <2> QED BY <2>2, <2>3
<1>6. CASE Write
  <2>1. wire' \in Seq(I1) /\ Len(wire') = Len(wire) + 1
    BY <1>6, <1>h, ElementsOf DEF Write
  <2>2. pc'.send = "select" /\ pc'.recv = pc.recv
    BY <1>6, <1>t DEF Write, Counted
  <2>3. consumed' \in 0 .. Len(wire')
    BY <1>6, <1>t, <2>1 DEF Write, Counted
  <2>4. Counted'
    BY <1>6, <1>t, <2>3 DEF Write, Counted
  <2> QED BY <1>6, <1>h, <1>d, <2>1, <2>2, <2>4 DEF Write
<1>7. CASE WriteFails
  <2>1. direct' \in Seq(B1) /\ Len(direct') = 0
    BY <1>7, ElementsOf, <1>h DEF WriteFails
  <2>2. pc'.send = "done" /\ pc'.recv = pc.recv
    BY <1>7, <1>t DEF WriteFails, Counted
  <2>3. Counted'
    <3>1. pc' \in [send : {"select", "write", "done"}, recv : {"next", "fetch", "queue", "done"}]
      BY <1>7, <1>t DEF WriteFails, Counted
    <3> QED BY <1>7, <1>t, <2>1, <3>1 DEF WriteFails, Counted
  <2> QED BY <1>7, <1>h, <1>d, <2>1, <2>2, <2>3 DEF WriteFails
<1>8. CASE NextText
  <2>1. Counted' /\ pc'.send = pc.send
    <3>1. inbox' \in Seq(Request)
      BY <1>8, <1>t, ElementsOf DEF NextText, Counted
    <3>2. /\ pc'.send = pc.send
          /\ pc' \in [send : {"select", "write", "done"},
                      recv : {"next", "fetch", "queue", "done"}]
      BY <1>8, <1>t DEF NextText, Counted
    <3> QED BY <1>8, <1>t, <3>1, <3>2 DEF NextText, Counted
  <2>2. todo' = <<>>
    BY <1>8, <1>h DEF NextText
  <2> QED BY <1>8, <1>h, <1>d, <2>1, <2>2 DEF NextText
<1>9. CASE QueueBar
  <2>1. direct' \in Seq(B1) /\ todo' \in Seq(B1) /\ Len(direct') <= DirectCap
    BY <1>9, <1>t, <1>h, ElementsOf DEF QueueBar
  <2>2. Counted'
    BY <1>9, <1>t, <2>1 DEF QueueBar, Counted
  <2> QED BY <1>9, <1>h, <1>d, <2>1, <2>2 DEF QueueBar
<1>10. CASE QueueDone
  <2>1. todo' = <<>> /\ todo' \in Seq(B1)
    BY <1>10, ElementsOf, <1>h DEF QueueDone
  <2>2. Counted' /\ pc'.send = pc.send
    BY <1>10, <1>t DEF QueueDone, Counted
  <2> QED BY <1>10, <1>h, <1>d, <2>1, <2>2 DEF QueueDone
<1>11. CASE StreamEnds
  <2>1. Counted' /\ pc'.send = pc.send /\ todo' = <<>>
    BY <1>11, <1>t, <1>h DEF StreamEnds, Counted
  <2> QED BY <1>11, <1>h, <1>d, <2>1 DEF StreamEnds
<1>12. ASSUME NEW n \in 0 .. MaxBars, FetchOk(n) PROVE Typed'
  <2>1. answers' = Append(answers, n) /\ todo' = [i \in 1 .. n |-> Bar(Len(answers) + 1, i)]
    BY <1>12 DEF FetchOk
  <2>2. answers' \in Seq(0 .. MaxBars) /\ Len(answers') = Len(answers) + 1
        /\ answers'[Len(answers) + 1] = n /\ Len(answers) \in Nat
    BY <1>t, <2>1
  <2>3. ASSUME NEW i \in 1 .. n PROVE Bar(Len(answers) + 1, i) \in B1
    BY <2>2 DEF Bar, Bars, B1
  <2>4. todo' \in Seq(B1)
    BY <2>1, <2>3
  <2>5. Counted' /\ pc'.send = pc.send /\ pc'.recv = "queue"
    BY <1>12, <1>t, <2>2 DEF FetchOk, Counted
  <2> QED BY <1>12, <1>h, <1>d, <2>4, <2>5 DEF FetchOk
<1>13. CASE FetchFails
  <2>1. Counted' /\ pc'.send = pc.send /\ todo' = <<>>
    BY <1>13, <1>t, <1>h DEF FetchFails, Counted
  <2> QED BY <1>13, <1>h, <1>d, <2>1 DEF FetchFails
<1>14. CASE UNCHANGED vars
  BY <1>14, <1>t, <1>h, <1>d DEF vars, Counted
<1> QED
  BY <1>1, <1>2, <1>3, <1>4, <1>5, <1>6, <1>7, <1>8, <1>9, <1>10, <1>11, <1>12, <1>13, <1>14
     DEF Next, SendTask, RecvTask

LEMMA TypedAlways == Spec => []Typed
BY TypedInit, TypedStep, PTL DEF Spec

\* Each variable of the session keeps its type: the direct channel never holds
\* more than its capacity, and what is on it or on the socket was fetched or
\* broadcast.
THEOREM TypeCorrect == Spec => []TypeOK
<1>1. Typed => TypeOK
  <2> SUFFICES ASSUME Typed PROVE TypeOK
    OBVIOUS
  <2>1. (\A b \in Bars : IsBar(b)) /\ (\A q \in Quotes : IsQuote(q))
    BY DEF Bars, Quotes, IsBar, IsQuote
  <2>2. /\ \A i \in DOMAIN direct : direct[i] \in Bars
        /\ \A i \in DOMAIN todo : todo[i] \in Bars
        /\ \A i \in DOMAIN wire : wire[i] \in Bars \union Quotes
        /\ item = Nothing \/ item \in Bars \union Quotes
    BY ElementsOf DEF Typed, Held
  <2> HIDE DEF Bars, Quotes
  <2> QED BY <2>1, <2>2 DEF TypeOK, Typed, Counted
<1> QED BY <1>1, TypedAlways, PTL

-----------------------------------------------------------------------------
(* Quotes.                                                                  *)

\* What was written or is being written is behind the receiver, and what is being
\* written is behind what was.
Older ==
  /\ \A i \in DOMAIN wire : wire[i].type = "quote" => wire[i].pos < cursor
  /\ item.type = "quote" =>
       /\ item.pos < cursor
       /\ \A i \in DOMAIN wire : wire[i].type = "quote" => wire[i].pos < item.pos

QuotesInv == Typed /\ QuotesAccounted /\ Older

LEMMA ItemTypes ==
  /\ \A b \in Bars : b.type = "bar" /\ b.req \in Nat /\ b.rank \in Nat
  /\ \A q \in Quotes : q.type = "quote" /\ q.pos \in Nat
  /\ Nothing.type = "none"
BY DEF Bars, Quotes, Nothing

LEMMA QuoteOf ==
  ASSUME NEW p \in Nat
  PROVE  Quote(p).type = "quote" /\ Quote(p).pos = p
BY DEF Quote

LEMMA QuotesInit == Init => QuotesInv
<1> SUFFICES ASSUME Init PROVE QuotesInv
  OBVIOUS
<1>1. DOMAIN wire = {}
  BY DEF Init
<1> QED BY <1>1, TypedInit, ItemTypes DEF Init, QuotesInv, QuotesAccounted, Older

\* A longer socket keeps what was written.
LEMMA Longer ==
  ASSUME NEW S, NEW w \in Seq(S), NEW x \in S
  PROVE  /\ DOMAIN Append(w, x) = 1 .. Len(w) + 1 /\ DOMAIN w = 1 .. Len(w)
         /\ Len(w) \in Nat
         /\ \A i \in DOMAIN w : Append(w, x)[i] = w[i]
         /\ Append(w, x)[Len(w) + 1] = x
OBVIOUS

LEMMA QuotesWrite ==
  ASSUME QuotesInv, Write
  PROVE  (QuotesAccounted /\ Older)'
<1>t. /\ wire \in Seq(Bars \union Quotes) /\ item \in Bars \union Quotes
      /\ pc.send = "write" /\ pc'.send = "select" /\ cursor \in Nat
      /\ cursor' = cursor /\ lost' = lost /\ item' = Nothing /\ wire' = Append(wire, item)
  BY DEF QuotesInv, Typed, Counted, Held, Write, history
<1> DEFINE n == Len(wire) + 1
<1>1. /\ DOMAIN wire' = 1 .. n /\ DOMAIN wire = 1 .. n - 1 /\ n \in Nat \ {0}
      /\ \A i \in DOMAIN wire : wire'[i] = wire[i]
      /\ wire'[n] = item
  BY <1>t, Longer
<1> HIDE DEF n
<1>2. \A i \in DOMAIN wire' : i = n \/ i \in DOMAIN wire
  BY <1>1
<1>3. \A p \in Nat : item = Quote(p) \/ Written(Quote(p)) => Written(Quote(p))'
  BY <1>1 DEF Written
<1>4. ASSUME NEW p \in 1 .. cursor - 1
      PROVE  p \in lost' \/ Written(Quote(p))'
  BY <1>t, <1>3 DEF QuotesInv, QuotesAccounted
<1>5. ASSUME NEW i \in DOMAIN wire', NEW j \in DOMAIN wire', i < j,
             wire'[i].type = "quote", wire'[j].type = "quote"
      PROVE  wire'[i].pos < wire'[j].pos
  <2>1. i \in DOMAIN wire /\ wire'[i] = wire[i]
    BY <1>1, <1>5
  <2>2. CASE j = n
    BY <1>1, <1>5, <2>1, <2>2 DEF QuotesInv, Older
  <2>3. CASE j \in DOMAIN wire
    BY <1>1, <1>5, <2>1, <2>3 DEF QuotesInv, QuotesAccounted
  <2> QED BY <1>2, <2>2, <2>3
<1>6. ASSUME NEW i \in DOMAIN wire', wire'[i].type = "quote"
      PROVE  wire'[i].pos < cursor
  BY <1>1, <1>2, <1>6 DEF QuotesInv, Older
<1>7. item'.type # "quote"
  BY <1>t, ItemTypes
<1> QED BY <1>t, <1>4, <1>5, <1>6, <1>7 DEF QuotesAccounted, Older

LEMMA QuotesTake ==
  ASSUME QuotesInv, TakeQuote
  PROVE  (QuotesAccounted /\ Older)'
<1>t. /\ wire \in Seq(Bars \union Quotes) /\ item = Nothing
      /\ pc.send = "select" /\ cursor \in Nat \ {0} /\ wire' = wire
      /\ pc \in [send : {"select", "write", "done"}, recv : {"next", "fetch", "queue", "done"}]
  BY DEF QuotesInv, Typed, Counted, Held, TakeQuote
<1>s. \A p \in 1 .. cursor - 1 : p \in lost \/ Written(Quote(p))
  <2>1. \A p \in Nat : item # Quote(p)
    BY <1>t, ItemTypes, QuoteOf
  <2> QED BY <1>t, <2>1 DEF QuotesInv, QuotesAccounted
<1>p. \A i \in DOMAIN wire : wire[i].type = "quote" => wire[i].pos \in Nat
  BY <1>t, ElementsOf, ItemTypes
<1>w. \A p : Written(Quote(p))' <=> Written(Quote(p))
  BY <1>t DEF Written
<1>1. CASE cursor < Oldest
  <2>1. cursor' = Oldest /\ lost' = lost \union (cursor .. Oldest - 1) /\ item' = item
    BY <1>1 DEF TakeQuote
  <2>2. Oldest \in Nat
    BY DEF Oldest, QuotesInv, Typed, Counted
  <2>3. ASSUME NEW p \in 1 .. cursor' - 1 PROVE p \in lost' \/ Written(Quote(p))'
    <3>1. p \in 1 .. cursor - 1 \/ p \in cursor .. Oldest - 1
      BY <1>t, <2>1, <2>2
    <3> QED BY <1>s, <1>w, <2>1, <3>1
  <2>4. item'.type # "quote"
    BY <1>t, <2>1, ItemTypes
  <2>5. \A i \in DOMAIN wire : wire[i].type = "quote" => wire[i].pos < cursor'
    BY <1>t, <1>p, <1>1, <2>1, <2>2 DEF QuotesInv, Older
  <2> QED BY <1>t, <2>3, <2>4, <2>5 DEF QuotesInv, QuotesAccounted, Older
<1>2. CASE ~(cursor < Oldest)
  <2>1. cursor' = cursor + 1 /\ lost' = lost /\ item' = Quote(cursor)
    BY <1>2 DEF TakeQuote
  <2>2. ASSUME NEW p \in 1 .. cursor' - 1
        PROVE  p \in lost' \/ item' = Quote(p) \/ Written(Quote(p))'
    <3>1. p \in 1 .. cursor - 1 \/ p = cursor
      BY <1>t, <2>1
    <3> QED BY <1>s, <1>w, <2>1, <3>1
  <2>3. item'.type = "quote" /\ item'.pos = cursor
    BY <1>t, <2>1, QuoteOf
  <2>4. \A i \in DOMAIN wire :
          wire[i].type = "quote" => wire[i].pos < cursor' /\ wire[i].pos < item'.pos
    BY <1>t, <1>p, <2>1, <2>3 DEF QuotesInv, Older
  <2>5. item'.pos < cursor'
    BY <1>t, <2>1, <2>3
  <2> QED BY <1>t, <2>2, <2>4, <2>5 DEF QuotesInv, QuotesAccounted, Older
<1> QED BY <1>1, <1>2

\* Everything else leaves quotes alone, or drops the one in hand with the session.
LEMMA QuotesStill ==
  ASSUME QuotesInv, wire' = wire, cursor' = cursor, lost' = lost,
         pc'.send # "done" => pc.send # "done",
         item' = item \/ (item'.type # "quote" /\ (item = Nothing \/ pc'.send = "done"))
  PROVE  (QuotesAccounted /\ Older)'
<1>1. \A p : Written(Quote(p))' <=> Written(Quote(p))
  BY DEF Written
<1>2. item'.type = "quote" => item' = item
  OBVIOUS
<1>3. ASSUME pc'.send # "done", NEW p \in 1 .. cursor - 1
      PROVE  p \in lost \/ item' = Quote(p) \/ Written(Quote(p))
  <2>1. p \in lost \/ item = Quote(p) \/ Written(Quote(p))
    BY <1>3 DEF QuotesInv, QuotesAccounted
  <2>2. item = Quote(p) => item # Nothing
    <3>1. p \in Nat
      BY DEF QuotesInv, Typed, Counted
    <3> QED BY <3>1, ItemTypes, QuoteOf
  <2> QED BY <1>3, <2>1, <2>2
<1>4. QuotesAccounted'
  BY <1>1, <1>3 DEF QuotesInv, QuotesAccounted
<1>5. Older'
  BY <1>2 DEF QuotesInv, Older
<1> QED BY <1>4, <1>5

LEMMA QuotesStep == QuotesInv /\ [Next]_vars => QuotesInv'
<1> SUFFICES ASSUME QuotesInv, [Next]_vars PROVE QuotesInv'
  OBVIOUS
<1>t. /\ Typed' /\ direct \in Seq(Bars)
      /\ pc.send # "write" => item = Nothing
      /\ pc \in [send : {"select", "write", "done"}, recv : {"next", "fetch", "queue", "done"}]
  BY TypedStep DEF QuotesInv, Typed, Held, Counted
<1>1. CASE Write
  BY <1>t, <1>1, QuotesWrite DEF QuotesInv
<1>2. CASE TakeQuote
  BY <1>t, <1>2, QuotesTake DEF QuotesInv
<1>3. CASE TakeDirect
  <2>1. item'.type # "quote" /\ item = Nothing
    BY <1>t, <1>3, ElementsOf, ItemTypes DEF TakeDirect
  <2>2. pc'.send # "done" => pc.send # "done"
    BY <1>3 DEF TakeDirect
  <2> QED BY <1>t, <1>3, <2>1, <2>2, QuotesStill DEF QuotesInv, TakeDirect, history
<1>4. CASE WriteFails
  <2>1. item'.type # "quote" /\ pc'.send = "done"
    BY <1>t, <1>4, ItemTypes DEF WriteFails
  <2> QED BY <1>t, <1>4, <2>1, QuotesStill DEF QuotesInv, WriteFails, history
<1>5. CASE Publish \/ (\E r \in Request : ClientSends(r)) \/ ClientReads \/ ClientCloses
           \/ RecvTask \/ (\E n \in 0 .. MaxBars : FetchOk(n)) \/ FetchFails \/ UNCHANGED vars
  <2>1. wire' = wire /\ cursor' = cursor /\ lost' = lost /\ item' = item
    BY <1>5 DEF Publish, ClientSends, ClientReads, ClientCloses, RecvTask, NextText, QueueBar,
                QueueDone, StreamEnds, FetchOk, FetchFails, vars, history
  <2>2. pc'.send = pc.send
    BY <1>5, <1>t DEF Publish, ClientSends, ClientReads, ClientCloses, RecvTask, NextText,
                QueueBar, QueueDone, StreamEnds, FetchOk, FetchFails, vars
  <2> QED BY <1>t, <2>1, <2>2, QuotesStill DEF QuotesInv
<1> QED BY <1>1, <1>2, <1>3, <1>4, <1>5 DEF Next, SendTask

LEMMA QuotesAlways == Spec => []QuotesInv
BY QuotesInit, QuotesStep, PTL DEF Spec

\* server.rs:58-70: no quote gets lost between the broadcast and the socket but by
\* lag, whatever bars compete with it for the sink, and quotes are written in the
\* order of the broadcast.
THEOREM EveryQuoteAccounted == Spec => []QuotesAccounted
<1>1. QuotesInv => QuotesAccounted
  BY DEF QuotesInv
<1> QED BY <1>1, QuotesAlways, PTL

-----------------------------------------------------------------------------
(* Bars.                                                                    *)

Earlier(b, c) == b.req < c.req \/ (b.req = c.req /\ b.rank < c.rank)

\* The bars between an answer and the socket, in the order they will be written.
Taken == IF item.type = "bar" THEN <<item>> ELSE <<>>
InFlight == (Taken \o direct) \o todo

\* While send_task lives, the bars in flight are in order, behind those written,
\* and each bar of each answer is among the ones or the others.
InOrder(s) == \A i, j \in DOMAIN s : i < j => Earlier(s[i], s[j])
BehindWire(s) ==
  \A i \in DOMAIN wire, j \in DOMAIN s : wire[i].type = "bar" => Earlier(wire[i], s[j])
Somewhere(b) == Written(b) \/ \E j \in DOMAIN InFlight : InFlight[j] = b
NoneMissing == \A r \in DOMAIN answers : \A n \in 1 .. answers[r] : Somewhere(Bar(r, n))

OnTheWay == InOrder(InFlight) /\ BehindWire(InFlight) /\ NoneMissing

BarsInv == Typed /\ AnswersGapless /\ (pc.send # "done" => OnTheWay)

\* Where one sequence continues another, a bar moves on without a change of order.
LEMMA MoveOn ==
  ASSUME NEW S, NEW s \in Seq(S), NEW t \in Seq(S), NEW x \in S
  PROVE  /\ <<x>> \in Seq(S) /\ s \o t \in Seq(S)
         /\ <<>> \o s = s /\ s \o <<>> = s
         /\ s # <<>> => <<Head(s)>> \o Tail(s) = s
         /\ t # <<>> => Append(s, Head(t)) \o Tail(t) = s \o t
<1>1. <<x>> \in Seq(S) /\ s \o t \in Seq(S) /\ <<>> \o s = s /\ s \o <<>> = s
  BY ConcatProperties, ConcatEmptySeq
<1>2. ASSUME NEW u \in Seq(S), u # <<>> PROVE <<Head(u)>> \o Tail(u) = u
  <2>1. /\ Head(u) \in S /\ Tail(u) \in Seq(S) /\ Len(Tail(u)) = Len(u) - 1
        /\ \A i \in 1 .. Len(Tail(u)) : Tail(u)[i] = u[i + 1]
        /\ Len(u) \in Nat \ {0} /\ Head(u) = u[1]
    BY <1>2
  <2>2. <<Head(u)>> \in Seq(S) /\ Len(<<Head(u)>>) = 1 /\ <<Head(u)>>[1] = Head(u)
    BY <2>1
  <2>3. /\ <<Head(u)>> \o Tail(u) \in Seq(S)
        /\ Len(<<Head(u)>> \o Tail(u)) = Len(u)
        /\ \A i \in 1 .. Len(u) : (<<Head(u)>> \o Tail(u))[i] =
             IF i <= 1 THEN <<Head(u)>>[i] ELSE Tail(u)[i - 1]
    BY <2>1, <2>2, ConcatProperties
  <2>4. \A i \in 1 .. Len(u) : (<<Head(u)>> \o Tail(u))[i] = u[i]
    <3> SUFFICES ASSUME NEW i \in 1 .. Len(u) PROVE (<<Head(u)>> \o Tail(u))[i] = u[i]
      OBVIOUS
    <3>1. CASE i = 1
      BY <2>1, <2>2, <2>3, <3>1
    <3>2. CASE i # 1
      <4>1. i - 1 \in 1 .. Len(Tail(u)) /\ (i - 1) + 1 = i /\ ~(i <= 1)
        BY <2>1, <3>2
      <4> QED BY <2>1, <2>3, <4>1
    <3> QED BY <3>1, <3>2
  <2> QED BY <1>2, <2>3, <2>4, SeqEqual
<1>3. ASSUME t # <<>> PROVE Append(s, Head(t)) \o Tail(t) = s \o t
  <2>1. Head(t) \in S /\ Tail(t) \in Seq(S) /\ <<Head(t)>> \in Seq(S)
    BY <1>3
  <2>2. Append(s, Head(t)) = s \o <<Head(t)>>
    BY <2>1, AppendIsConcat
  <2>3. (s \o <<Head(t)>>) \o Tail(t) = s \o (<<Head(t)>> \o Tail(t))
    BY <2>1, ConcatAssociative
  <2> QED BY <1>2, <1>3, <2>2, <2>3
<1> QED BY <1>1, <1>2, <1>3

LEMMA InFlightType ==
  ASSUME Typed
  PROVE  /\ Taken \in Seq(Bars) /\ InFlight \in Seq(Bars) /\ Taken \o direct \in Seq(Bars)
         /\ \A i \in DOMAIN InFlight : InFlight[i] \in Bars
<1>1. direct \in Seq(Bars) /\ todo \in Seq(Bars)
      /\ (item \in Bars \union Quotes \/ item = Nothing)
  BY DEF Typed, Held
<1>2. item.type = "bar" => item \in Bars
  BY <1>1, ItemTypes
<1> HIDE DEF Bars, Quotes
<1>3. Taken \in Seq(Bars)
  BY <1>2 DEF Taken
<1>4. Taken \o direct \in Seq(Bars) /\ InFlight \in Seq(Bars)
  BY <1>1, <1>3, ConcatProperties DEF InFlight
<1> QED BY <1>3, <1>4, ElementsOf

LEMMA BarsInit == Init => BarsInv
<1> SUFFICES ASSUME Init PROVE BarsInv
  OBVIOUS
<1>1. DOMAIN wire = {} /\ DOMAIN answers = {} /\ Taken = <<>> /\ direct = <<>> /\ todo = <<>>
  BY ItemTypes DEF Init, Taken
<1>2. InFlight = <<>>
  BY <1>1 DEF InFlight
<1>3. DOMAIN InFlight = {}
  BY <1>2
<1> QED
  BY <1>1, <1>3, TypedInit
     DEF BarsInv, AnswersGapless, OnTheWay, InOrder, BehindWire, NoneMissing

\* Answers that come later do not show on the socket.
LEMMA GaplessStill ==
  ASSUME BarsInv, wire' = wire,
         \/ answers' = answers
         \/ \E n \in 0 .. MaxBars : answers' = Append(answers, n)
  PROVE  AnswersGapless'
<1>1. answers \in Seq(0 .. MaxBars) /\ wire \in Seq(Bars \union Quotes)
  BY DEF BarsInv, Typed, Held, Counted
<1>2. \A r \in DOMAIN answers : answers'[r] = answers[r]
  <2>1. ASSUME NEW n \in 0 .. MaxBars, answers' = Append(answers, n)
        PROVE  \A r \in DOMAIN answers : answers'[r] = answers[r]
    BY <1>1, <2>1, Longer
  <2> QED BY <2>1
<1>3. ASSUME NEW i \in DOMAIN wire, wire[i].type = "bar", NEW r \in 1 .. wire[i].req
      PROVE  r \in DOMAIN answers
  <2>1. wire[i] \in Bars
    BY <1>1, <1>3, ElementsOf, ItemTypes
  <2>2. wire[i].req \in DOMAIN answers
    BY <2>1 DEF Bars
  <2> QED BY <1>1, <2>2
<1> QED BY <1>2, <1>3 DEF BarsInv, AnswersGapless

LEMMA WayStill ==
  ASSUME BarsInv, InFlight' = InFlight, wire' = wire, answers' = answers, pc.send # "done"
  PROVE  OnTheWay'
BY DEF BarsInv, OnTheWay, InOrder, BehindWire, NoneMissing, Somewhere, Written

LEMMA BarsWrite ==
  ASSUME BarsInv, Write
  PROVE  AnswersGapless' /\ OnTheWay'
<1>t. /\ wire \in Seq(Bars \union Quotes) /\ item \in Bars \union Quotes
      /\ direct \in Seq(Bars) /\ todo \in Seq(Bars) /\ answers \in Seq(0 .. MaxBars)
      /\ OnTheWay
      /\ UNCHANGED <<answers, direct, todo>> /\ item' = Nothing /\ wire' = Append(wire, item)
  BY DEF BarsInv, Typed, Counted, Held, Write, history
<1> DEFINE n == Len(wire) + 1
           T == direct \o todo
<1>1. /\ DOMAIN wire' = 1 .. n /\ DOMAIN wire = 1 .. n - 1 /\ n \in Nat \ {0}
      /\ \A i \in DOMAIN wire : wire'[i] = wire[i]
      /\ wire'[n] = item
  BY <1>t, Longer
<1> HIDE DEF n
<1>2. \A i \in DOMAIN wire' : i = n \/ i \in DOMAIN wire
  BY <1>1
<1>3. \A b : Written(b) \/ b = item => Written(b)'
  BY <1>1 DEF Written
<1>4. InFlight' = T
  <2>1. Taken' = <<>>
    BY <1>t, ItemTypes DEF Taken
  <2> QED BY <1>t, <2>1, ConcatEmptySeq DEF InFlight
<1>5. CASE item.type # "bar"
  <2>1. InFlight' = InFlight
    BY <1>t, <1>4, <1>5, ConcatEmptySeq DEF InFlight, Taken
  <2>2. OnTheWay'
    BY <1>t, <1>1, <1>2, <1>3, <1>5, <2>1
       DEF OnTheWay, InOrder, BehindWire, NoneMissing, Somewhere
  <2>3. ASSUME NEW i \in DOMAIN wire', wire'[i].type = "bar"
        PROVE  i \in DOMAIN wire /\ \A j \in 1 .. i - 1 : j \in DOMAIN wire
    BY <1>1, <1>2, <1>5, <2>3
  <2>4. AnswersGapless'
    BY <1>t, <1>1, <2>3 DEF BarsInv, AnswersGapless
  <2> QED BY <2>2, <2>4
<1>6. CASE item.type = "bar"
  <2>1. item \in Bars /\ item.req \in DOMAIN answers /\ item.req \in Nat /\ item.rank \in Nat
    <3>1. item \in Bars
      BY <1>t, <1>6, ItemTypes
    <3> QED BY <3>1, ItemTypes DEF Bars
  <2>2. InFlight = <<item>> \o T
    <3> HIDE DEF Bars, Quotes
    <3>1. <<item>> \in Seq(Bars)
      BY <2>1
    <3> QED BY <1>t, <1>6, <3>1, ConcatAssociative DEF InFlight, Taken
  <2>3. /\ T \in Seq(Bars) /\ Len(T) \in Nat /\ DOMAIN T = 1 .. Len(T)
        /\ DOMAIN InFlight = 1 .. Len(T) + 1
        /\ InFlight[1] = item
        /\ \A j \in 1 .. Len(T) : j + 1 \in DOMAIN InFlight /\ InFlight[j + 1] = T[j]
    <3>1. T \in Seq(Bars)
      BY <1>t, ConcatProperties
    <3> HIDE DEF Bars, Quotes, T
    <3>2. <<item>> \in Seq(Bars) /\ Len(<<item>>) = 1 /\ <<item>>[1] = item
      BY <2>1
    <3>3. /\ Len(InFlight) = 1 + Len(T) /\ InFlight \in Seq(Bars)
          /\ \A i \in 1 .. 1 + Len(T) :
               InFlight[i] = IF i <= 1 THEN <<item>>[i] ELSE T[i - 1]
      BY <2>2, <3>1, <3>2, ConcatProperties
    <3>4. Len(T) \in Nat /\ DOMAIN T = 1 .. Len(T) /\ DOMAIN InFlight = 1 .. Len(T) + 1
      BY <3>1, <3>3
    <3>5. InFlight[1] = item
      BY <3>2, <3>3, <3>4
    <3>6. ASSUME NEW j \in 1 .. Len(T)
          PROVE  j + 1 \in DOMAIN InFlight /\ InFlight[j + 1] = T[j]
      <4>1. j + 1 \in 1 .. 1 + Len(T) /\ ~(j + 1 <= 1) /\ (j + 1) - 1 = j
        BY <3>4
      <4> QED BY <3>3, <3>4, <4>1
    <3> QED BY <3>1, <3>4, <3>5, <3>6
  <2> HIDE DEF T
  <2>4. InOrder(T) /\ \A j \in DOMAIN T : Earlier(item, T[j])
    <3>1. ASSUME NEW i \in DOMAIN T, NEW j \in DOMAIN T, i < j PROVE Earlier(T[i], T[j])
      <4>1. i + 1 \in DOMAIN InFlight /\ j + 1 \in DOMAIN InFlight /\ i + 1 < j + 1
        BY <2>3, <3>1
      <4> QED BY <1>t, <2>3, <4>1 DEF OnTheWay, InOrder
    <3>2. ASSUME NEW j \in DOMAIN T PROVE Earlier(item, T[j])
      <4>1. j + 1 \in DOMAIN InFlight /\ 1 \in DOMAIN InFlight /\ 1 < j + 1
        BY <2>3
      <4> QED BY <1>t, <2>3, <4>1 DEF OnTheWay, InOrder
    <3> QED BY <3>1, <3>2 DEF InOrder
  <2>5. \A i \in DOMAIN wire :
          wire[i].type = "bar" => Earlier(wire[i], item) /\ \A j \in DOMAIN T : Earlier(wire[i], T[j])
    <3>1. ASSUME NEW i \in DOMAIN wire, wire[i].type = "bar", NEW j \in DOMAIN InFlight
          PROVE  Earlier(wire[i], InFlight[j])
      BY <1>t, <3>1 DEF OnTheWay, BehindWire
    <3>2. 1 \in DOMAIN InFlight
      BY <2>3
    <3> QED BY <2>3, <3>1, <3>2
  <2>6. ASSUME NEW b, Somewhere(b)
        PROVE  Written(b) \/ b = item \/ \E j \in DOMAIN T : T[j] = b
    <3>1. ASSUME NEW j \in DOMAIN InFlight, InFlight[j] = b
          PROVE  b = item \/ \E k \in DOMAIN T : T[k] = b
      <4>1. j = 1 \/ (j - 1 \in DOMAIN T /\ (j - 1) + 1 = j)
        BY <2>3
      <4> QED BY <2>3, <3>1, <4>1
    <3> QED BY <2>6, <3>1 DEF Somewhere
  <2>7. OnTheWay'
    <3>1. \A i \in DOMAIN wire', j \in DOMAIN T :
            wire'[i].type = "bar" => Earlier(wire'[i], T[j])
      BY <1>1, <1>2, <2>4, <2>5
    <3>2. NoneMissing'
      BY <1>t, <1>3, <1>4, <2>6 DEF OnTheWay, NoneMissing, Somewhere
    <3> QED BY <1>4, <2>4, <3>1, <3>2 DEF OnTheWay, InOrder, BehindWire
  <2>8. \A j \in 1 .. n - 1 : wire'[j] # wire'[n]
    BY <1>1, <1>6, <2>1, <2>5 DEF Earlier
  <2>9. ASSUME NEW r \in 1 .. item.req, NEW k \in 1 .. answers[r],
               r < item.req \/ k < item.rank
        PROVE  \E j \in 1 .. n - 1 : wire'[j] = Bar(r, k)
    <3>1. r \in DOMAIN answers /\ answers[r] \in Nat /\ r \in Nat /\ k \in Nat
      BY <1>t, <2>1
    <3>2. Bar(r, k).req = r /\ Bar(r, k).rank = k
      BY DEF Bar
    <3>3. ~Earlier(item, Bar(r, k)) /\ Bar(r, k) # item
      <4>1. r < item.req \/ (r = item.req /\ k < item.rank)
        BY <2>1, <2>9, <3>1
      <4> QED BY <2>1, <3>1, <3>2, <4>1 DEF Earlier
    <3>4. Somewhere(Bar(r, k))
      BY <1>t, <3>1 DEF OnTheWay, NoneMissing
    <3>5. Written(Bar(r, k))
      BY <2>4, <2>6, <3>3, <3>4
    <3> QED BY <1>1, <3>5 DEF Written
  <2>10. AnswersGapless'
    <3>1. ASSUME NEW i \in DOMAIN wire', i # n PROVE i \in DOMAIN wire /\ \A j \in 1 .. i - 1 : j \in DOMAIN wire
      BY <1>1, <1>2, <3>1
    <3>2. answers' = answers /\ AnswersGapless
      BY <1>t DEF BarsInv
    <3>3. ASSUME NEW i \in DOMAIN wire', wire'[i].type = "bar", i # n
          PROVE  /\ \A j \in 1 .. i - 1 : wire'[j] # wire'[i]
                 /\ \A r \in 1 .. wire'[i].req : \A k \in 1 .. answers[r] :
                      r < wire'[i].req \/ k < wire'[i].rank
                        => \E j \in 1 .. i - 1 : wire'[j] = Bar(r, k)
      <4>1. /\ i \in DOMAIN wire /\ wire'[i] = wire[i]
            /\ \A j \in 1 .. i - 1 : wire'[j] = wire[j]
        BY <1>1, <3>1, <3>3
      <4>2. \A j \in 1 .. i - 1 : wire[j] # wire[i]
        BY <3>2, <3>3, <4>1 DEF AnswersGapless
      <4>3. \A r \in 1 .. wire[i].req : \A k \in 1 .. answers[r] :
              r < wire[i].req \/ k < wire[i].rank => \E j \in 1 .. i - 1 : wire[j] = Bar(r, k)
        BY <3>2, <3>3, <4>1 DEF AnswersGapless
      <4> QED BY <4>1, <4>2, <4>3
    <3>4. wire'[n] = item
      BY <1>1
    <3>5. ASSUME NEW i \in DOMAIN wire', wire'[i].type = "bar"
          PROVE  /\ \A j \in 1 .. i - 1 : wire'[j] # wire'[i]
                 /\ \A r \in 1 .. wire'[i].req : \A k \in 1 .. answers'[r] :
                      r < wire'[i].req \/ k < wire'[i].rank
                        => \E j \in 1 .. i - 1 : wire'[j] = Bar(r, k)
      <4>1. CASE i = n
        <5>1. ASSUME NEW r \in 1 .. wire'[i].req, NEW k \in 1 .. answers'[r],
                     r < wire'[i].req \/ k < wire'[i].rank
              PROVE  \E j \in 1 .. i - 1 : wire'[j] = Bar(r, k)
          <6>1. r \in 1 .. item.req /\ k \in 1 .. answers[r] /\ (r < item.req \/ k < item.rank)
            BY <3>2, <3>4, <4>1, <5>1
          <6> QED BY <2>9, <4>1, <6>1
        <5>2. \A j \in 1 .. i - 1 : wire'[j] # wire'[i]
          BY <2>8, <4>1
        <5> QED BY <5>1, <5>2
      <4>2. CASE i # n
        BY <3>2, <3>3, <3>5, <4>2
      <4> QED BY <4>1, <4>2
    <3> QED BY <3>5 DEF AnswersGapless
  <2> QED BY <2>7, <2>10
<1> QED BY <1>5, <1>6

\* The bars of a new answer come behind those of all others.
LEMMA BarsFetch ==
  ASSUME BarsInv, NEW n \in 0 .. MaxBars, FetchOk(n), pc.send # "done"
  PROVE  OnTheWay'
<1> DEFINE Any == [type : {"bar"}, req : Nat, rank : Nat]
           m == Len(answers) + 1
           L == Len(InFlight)
           new == [i \in 1 .. n |-> Bar(m, i)]
<1>t. /\ answers \in Seq(0 .. MaxBars) /\ OnTheWay /\ wire \in Seq(Bars \union Quotes)
      /\ direct \in Seq(Bars)
      /\ answers' = Append(answers, n) /\ todo = <<>> /\ todo' = new
      /\ UNCHANGED <<direct, item, wire>>
  BY DEF BarsInv, Typed, Counted, Held, FetchOk
<1>1. m \in Nat \ {0} /\ DOMAIN answers = 1 .. m - 1 /\ DOMAIN answers' = 1 .. m
      /\ answers'[m] = n /\ \A r \in DOMAIN answers : answers'[r] = answers[r]
  BY <1>t, Longer
<1> HIDE DEF m
<1>2. new \in Seq(Any) /\ Len(new) = n /\ \A i \in 1 .. n : new[i] = Bar(m, i)
  <2>1. \A i \in 1 .. n : Bar(m, i) \in Any
    BY <1>1 DEF Bar
  <2> HIDE DEF Any
  <2> QED BY <2>1
<1>3. /\ InFlight \in Seq(Any) /\ L \in Nat /\ DOMAIN InFlight = 1 .. L
      /\ \A i \in DOMAIN InFlight : InFlight[i] \in Bars
  <2>1. InFlight \in Seq(Bars) /\ \A i \in DOMAIN InFlight : InFlight[i] \in Bars
    BY InFlightType DEF BarsInv
  <2>2. Bars \subseteq Any
    BY DEF Bars
  <2> HIDE DEF Bars, Any
  <2> QED BY <2>1, <2>2, ElementsOf
<1>4. InFlight' = InFlight \o new
  <2>1. Taken' = Taken /\ Taken \o direct \in Seq(Bars)
    BY <1>t, InFlightType DEF Taken, BarsInv
  <2> HIDE DEF new
  <2>2. InFlight = Taken \o direct
    BY <1>t, <2>1, ConcatEmptySeq DEF InFlight
  <2> QED BY <1>t, <2>1, <2>2 DEF InFlight
<1> HIDE DEF new, L, Any
<1>5. /\ DOMAIN InFlight' = 1 .. L + n
      /\ \A i \in 1 .. L + n : InFlight'[i] = IF i <= L THEN InFlight[i] ELSE new[i - L]
  <2>1. Len(InFlight) = L
    BY DEF L
  <2>2. /\ InFlight \o new \in Seq(Any) /\ Len(InFlight \o new) = L + n
        /\ \A i \in 1 .. L + n : (InFlight \o new)[i] = IF i <= L THEN InFlight[i] ELSE new[i - L]
    BY <1>2, <1>3, <2>1, ConcatProperties
  <2> QED BY <1>4, <2>2
<1>6. ASSUME NEW i \in 1 .. L + n
      PROVE  \/ i \in 1 .. L /\ InFlight'[i] = InFlight[i]
             \/ i - L \in 1 .. n /\ i > L /\ InFlight'[i] = Bar(m, i - L)
  <2>1. CASE i <= L
    BY <1>3, <1>5, <2>1
  <2>2. CASE ~(i <= L)
    <3>1. i - L \in 1 .. n /\ i > L
      BY <1>3, <2>2
    <3> QED BY <1>2, <1>5, <2>2, <3>1
  <2> QED BY <2>1, <2>2
<1>7. \A b \in Bars, k \in Nat : Earlier(b, Bar(m, k))
  <2> SUFFICES ASSUME NEW b \in Bars, NEW k \in Nat PROVE Earlier(b, Bar(m, k))
    OBVIOUS
  <2>1. b.req \in DOMAIN answers
    BY DEF Bars
  <2>2. Bar(m, k).req = m
    BY DEF Bar
  <2> QED BY <1>1, <2>1, <2>2 DEF Earlier
<1>8. InOrder(InFlight)'
  <2> SUFFICES ASSUME NEW i \in 1 .. L + n, NEW j \in 1 .. L + n, i < j
               PROVE  Earlier(InFlight'[i], InFlight'[j])
    BY <1>5 DEF InOrder
  <2>1. CASE i \in 1 .. L /\ j \in 1 .. L
    <3>1. InFlight'[i] = InFlight[i] /\ InFlight'[j] = InFlight[j]
      BY <1>5, <2>1
    <3> QED BY <1>t, <1>3, <2>1, <3>1 DEF OnTheWay, InOrder
  <2>2. CASE i \in 1 .. L /\ j > L
    <3>1. InFlight'[i] \in Bars /\ InFlight'[j] = Bar(m, j - L) /\ j - L \in Nat
      BY <1>3, <1>6, <2>2
    <3> QED BY <1>7, <3>1
  <2>3. CASE i > L
    <3>1. /\ InFlight'[i] = Bar(m, i - L) /\ InFlight'[j] = Bar(m, j - L)
          /\ i - L < j - L
      BY <1>3, <1>6, <2>3
    <3>2. /\ Bar(m, i - L).req = m /\ Bar(m, i - L).rank = i - L
          /\ Bar(m, j - L).req = m /\ Bar(m, j - L).rank = j - L
      BY DEF Bar
    <3> QED BY <3>1, <3>2 DEF Earlier
  <2> QED BY <1>3, <2>1, <2>2, <2>3
<1>9. BehindWire(InFlight)'
  <2> SUFFICES ASSUME NEW i \in DOMAIN wire, NEW j \in 1 .. L + n, wire[i].type = "bar"
               PROVE  Earlier(wire[i], InFlight'[j])
    BY <1>t, <1>5 DEF BehindWire
  <2>1. CASE j \in 1 .. L
    <3>1. InFlight'[j] = InFlight[j]
      BY <1>5, <2>1
    <3> QED BY <1>t, <1>3, <2>1, <3>1 DEF OnTheWay, BehindWire
  <2>2. CASE j > L
    <3>1. InFlight'[j] = Bar(m, j - L) /\ j - L \in Nat
      BY <1>3, <1>6, <2>2
    <3>2. wire[i] \in Bars
      BY <1>t, ElementsOf, ItemTypes
    <3> QED BY <1>7, <3>1, <3>2
  <2> QED BY <1>3, <2>1, <2>2
<1>10. NoneMissing'
  <2> SUFFICES ASSUME NEW r \in DOMAIN answers', NEW k \in 1 .. answers'[r]
               PROVE  Somewhere(Bar(r, k))'
    BY DEF NoneMissing
  <2>1. CASE r \in DOMAIN answers
    <3>1. Somewhere(Bar(r, k))
      BY <1>t, <1>1, <2>1 DEF OnTheWay, NoneMissing
    <3>2. \A j \in DOMAIN InFlight : j \in DOMAIN InFlight' /\ InFlight'[j] = InFlight[j]
      BY <1>3, <1>5
    <3> QED BY <1>t, <3>1, <3>2 DEF Somewhere, Written
  <2>2. CASE r = m
    <3>1. k \in 1 .. n
      BY <1>1, <2>2
    <3>2. L + k \in 1 .. L + n /\ ~(L + k <= L) /\ (L + k) - L = k
      BY <1>3, <3>1
    <3>3. L + k \in DOMAIN InFlight' /\ InFlight'[L + k] = Bar(m, k)
      BY <1>2, <1>5, <3>1, <3>2
    <3> QED BY <2>2, <3>3 DEF Somewhere
  <2> QED BY <1>1, <2>1, <2>2
<1> QED BY <1>8, <1>9, <1>10 DEF OnTheWay

LEMMA BarsStep == BarsInv /\ [Next]_vars => BarsInv'
<1> SUFFICES ASSUME BarsInv, [Next]_vars PROVE BarsInv'
  OBVIOUS
<1>t. /\ Typed /\ Typed' /\ direct \in Seq(Bars) /\ todo \in Seq(Bars)
      /\ pc.send # "write" => item = Nothing
      /\ pc \in [send : {"select", "write", "done"}, recv : {"next", "fetch", "queue", "done"}]
      /\ pc.recv # "queue" => todo = <<>>
  BY TypedStep DEF BarsInv, Typed, Held, Counted
<1>1. CASE Write
  BY <1>t, <1>1, BarsWrite DEF BarsInv
<1>2. ASSUME NEW n \in 0 .. MaxBars, FetchOk(n) PROVE BarsInv'
  <2>1. AnswersGapless'
    BY <1>2, GaplessStill DEF FetchOk
  <2>2. pc'.send = pc.send
    BY <1>2, <1>t DEF FetchOk
  <2> QED BY <1>t, <1>2, <2>1, <2>2, BarsFetch DEF BarsInv
<1>3. ASSUME wire' = wire, answers' = answers,
             pc'.send # "done" => pc.send # "done" /\ InFlight' = InFlight
      PROVE  BarsInv'
  BY <1>t, <1>3, GaplessStill, WayStill DEF BarsInv
<1>4. CASE TakeDirect
  <2>1. item.type = "none" /\ Head(direct) \in Bars /\ direct # <<>>
    BY <1>t, <1>4, ItemTypes, ElementsOf DEF TakeDirect
  <2>2. Head(direct).type = "bar"
    BY <2>1, ItemTypes
  <2>3. Taken = <<>> /\ Taken' = <<Head(direct)>> /\ direct' = Tail(direct) /\ todo' = todo
    BY <1>4, <2>1, <2>2 DEF Taken, TakeDirect
  <2>4. Taken' \o direct' = Taken \o direct
    <3> HIDE DEF Bars
    <3> QED BY <1>t, <2>1, <2>3, MoveOn
  <2> QED BY <1>3, <1>4, <2>3, <2>4 DEF TakeDirect, InFlight, history
<1>5. CASE QueueBar
  <2>1. Taken' = Taken /\ Taken \in Seq(Bars) /\ Taken \o direct \in Seq(Bars)
    BY <1>t, <1>5, InFlightType DEF Taken, QueueBar
  <2>2. direct' = Append(direct, Head(todo)) /\ todo' = Tail(todo) /\ todo # <<>>
    BY <1>5 DEF QueueBar
  <2>3. InFlight' = InFlight
    <3> HIDE DEF Bars
    <3>1. Head(todo) \in Bars
      BY <1>t, <2>2, ElementsOf
    <3> DEFINE h == Head(todo)
               s == Taken \o direct
    <3>2. Taken \o Append(direct, h) = Append(s, h)
      <4>1. <<h>> \in Seq(Bars)
        BY <3>1
      <4>2. Append(direct, h) = direct \o <<h>> /\ Append(s, h) = s \o <<h>>
        BY <1>t, <2>1, <3>1, AppendIsConcat
      <4> QED BY <1>t, <2>1, <4>1, <4>2, ConcatAssociative
    <3>3. Append(s, h) \o Tail(todo) = s \o todo
      <4>1. s \in Seq(Bars)
        BY <2>1
      <4> HIDE DEF s
      <4>2. Append(s, Head(todo)) \o Tail(todo) = s \o todo
        BY <1>t, <2>2, <3>1, <4>1, MoveOn
      <4> QED BY <4>2
    <3> QED BY <2>1, <2>2, <3>2, <3>3 DEF InFlight
  <2> QED BY <1>3, <1>5, <2>3 DEF QueueBar, history
<1>6. CASE WriteFails
  <2>1. pc'.send = "done"
    BY <1>t, <1>6 DEF WriteFails
  <2> QED BY <1>3, <1>6, <2>1 DEF WriteFails, history
<1>7. CASE TakeQuote
  <2>1. item.type # "bar" /\ item'.type # "bar"
    BY <1>t, <1>7, ItemTypes DEF TakeQuote, Quote
  <2>2. InFlight' = InFlight
    BY <1>7, <2>1 DEF TakeQuote, InFlight, Taken
  <2> QED BY <1>3, <1>7, <2>2 DEF TakeQuote
<1>8. CASE QueueDone
  <2>1. pc'.send = pc.send /\ (pc.send # "done" => todo' = todo)
    BY <1>t, <1>8 DEF QueueDone
  <2>2. pc.send # "done" => InFlight' = InFlight
    BY <1>8, <2>1 DEF QueueDone, InFlight, Taken
  <2> QED BY <1>3, <1>8, <2>1, <2>2 DEF QueueDone, history
<1>9. CASE Publish \/ (\E r \in Request : ClientSends(r)) \/ ClientReads \/ ClientCloses
           \/ NextText \/ StreamEnds \/ FetchFails \/ UNCHANGED vars
  <2>1. UNCHANGED <<wire, answers, item, direct, todo>>
    BY <1>9 DEF Publish, ClientSends, ClientReads, ClientCloses, NextText, StreamEnds,
                FetchFails, vars, history
  <2>2. pc'.send = pc.send
    BY <1>t, <1>9 DEF Publish, ClientSends, ClientReads, ClientCloses, NextText, StreamEnds,
                FetchFails, vars
  <2>3. InFlight' = InFlight
    BY <2>1 DEF InFlight, Taken
  <2> QED BY <1>3, <2>1, <2>2, <2>3
<1> QED
  BY <1>1, <1>2, <1>4, <1>5, <1>6, <1>7, <1>8, <1>9 DEF Next, SendTask, RecvTask

LEMMA BarsAlways == Spec => []BarsInv
BY BarsInit, BarsStep, PTL DEF Spec

\* server.rs:112-116: whatever of an answer the client got is a gapless prefix
\* behind all of the earlier answers, for answers of any length through a channel
\* of any capacity, also when send_task ends in the middle of one.
THEOREM NoGapInAnswers == Spec => []AnswersGapless
<1>1. BarsInv => AnswersGapless
  BY DEF BarsInv
<1> QED BY <1>1, BarsAlways, PTL
=============================================================================
