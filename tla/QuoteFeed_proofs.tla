--------------------------- MODULE QuoteFeed_proofs ----------------------------
(***************************************************************************)
(* HubPipeline implements the safety part of QuoteFeed: its initial states *)
(* are initial states of the feed, and each of its steps is a step of the  *)
(* feed or changes nothing there.                                          *)
(***************************************************************************)
EXTENDS HubPipeline_proofs

USE PipelineAssumption

\* Nobody has a position other than 0 or 1 before the first step.
LEMMA FeedInit == Init => Feed!Init
<1> SUFFICES ASSUME Init PROVE Feed!Init
  OBVIOUS
<1>1. Offered = {}
  BY DEF Init, Offered
<1>2. cursor \in [Receivers -> {0, 1}]
  BY DEF Init
<1> QED BY <1>1, <1>2 DEF Init, Feed!Init

\* The clock is the feed's clock.
LEMMA TickStep == TypeOK /\ Tick => Feed!Tick
BY DEF Tick, Offered, Feed!Tick

\* A new message follows all others of its source, wherever those are by now.
LEMMA EmitStep ==
  ASSUME TypeOK, PathOrder, NEW s \in Sources, NEW sym \in Symbols, Emit(s, sym)
  PROVE  \E m \in [src : Sources, sym : Symbols, seq : 1 .. MaxEmit] : Feed!Offer(m)
<1> DEFINE m == [src |-> s, sym |-> sym, seq |-> emitted[s] + 1]
<1>1. /\ m \in [src : Sources, sym : Symbols, seq : 1 .. MaxEmit]
      /\ m \in Message /\ m.src = s /\ m.seq = emitted[s] + 1
      /\ queue' = Append(queue, m)
      /\ UNCHANGED <<now, pc, hand, log, dropped, cursor>>
  BY DEF Emit, Message, TypeOK
<1> HIDE DEF m
<1>2. Offered' = Offered \union {m}
  <2>1. /\ DOMAIN queue' = DOMAIN queue \union {Len(queue) + 1}
        /\ queue'[Len(queue) + 1] = m
        /\ \A i \in DOMAIN queue : queue'[i] = queue[i]
    BY <1>1, AppendElements DEF TypeOK
  <2>2. {queue'[i] : i \in DOMAIN queue'} = {queue[i] : i \in DOMAIN queue} \union {m}
    BY <2>1
  <2> QED BY <1>1, <2>2 DEF Offered
<1>3. ASSUME NEW o \in Offered, o.src = s PROVE o.seq < m.seq
  <2>1. o \in Message /\ o.seq \in Nat /\ emitted[s] \in Nat
    BY <1>3, TypedElements DEF Offered, Message, TypeOK
  <2>2. o.seq <= emitted[o.src]
    BY <1>3 DEF Offered, PathOrder
  <2> QED BY <1>1, <1>3, <2>1, <2>2
<1> QED BY <1>1, <1>2, <1>3 DEF Feed!Offer

\* Between the queue and its end on the log or among the suppressed a message
\* only changes its place.
LEMMA InnerStep ==
  ASSUME TypeOK, Recv \/ Suppress \/ Pass \/ Insert
  PROVE  UNCHANGED <<now, Offered, log, cursor>>
<1>1. CASE Recv
  <2>1. /\ queue # <<>> /\ queue \in Seq(Message) /\ pc = "recv" /\ pc' # "recv"
        /\ hand' = Head(queue) /\ queue' = Tail(queue)
        /\ UNCHANGED <<now, log, dropped, cursor>>
    BY <1>1 DEF Recv, TypeOK
  <2>2. {queue[i] : i \in DOMAIN queue} = {queue'[i] : i \in DOMAIN queue'} \union {hand'}
    <3>1. /\ hand' = queue[1] /\ 1 \in DOMAIN queue
          /\ \A i \in DOMAIN queue' : i + 1 \in DOMAIN queue /\ queue'[i] = queue[i + 1]
          /\ \A i \in DOMAIN queue :
               i # 1 => i - 1 \in DOMAIN queue' /\ queue'[i - 1] = queue[i - 1 + 1]
          /\ DOMAIN queue \subseteq Int
      BY <2>1, TailElements
    <3>2. \A i \in DOMAIN queue : i # 1 => queue[i] = queue'[i - 1]
      BY <3>1
    <3> QED BY <3>1, <3>2
  <2> QED BY <2>1, <2>2 DEF Offered
<1>2. CASE Suppress
  <2> DEFINE d == [msg |-> hand, at |-> now]
  <2>1. /\ pc = "lookup" /\ pc' = "recv" /\ d.msg = hand
        /\ dropped' = dropped \union {d}
        /\ UNCHANGED <<now, queue, log, cursor>>
    BY <1>2 DEF Suppress
  <2> HIDE DEF d
  <2>2. {c.msg : c \in dropped'} = {c.msg : c \in dropped} \union {hand}
    BY <2>1
  <2> QED BY <2>1, <2>2 DEF Offered
<1>3. CASE Pass \/ Insert
  BY <1>3 DEF Pass, Insert, Offered
<1> QED BY <1>1, <1>2, <1>3

\* The forwarder broadcasts a message that was offered, at a stamp that is not in
\* the future, after its source's earlier ones and a window after its key's.
LEMMA SendStep ==
  ASSUME TypeOK, PathOrder, StampOrder, Send
  PROVE  \E m \in Offered, t \in 0 .. now : Feed!Publish(m, t)
<1> DEFINE t == latest[Key(hand)]
<1> DEFINE e == [msg |-> hand, at |-> t]
<1>1. /\ pc = "send" /\ pc' = "recv" /\ hand \in Message /\ Key(hand) \in Keys
      /\ log' = Append(log, e) /\ UNCHANGED <<now, queue, dropped, cursor>>
  BY KeysOfMessages DEF Send, TypeOK
<1>2. e \in Entry /\ t \in 0 .. now
  BY <1>1 DEF Entry, TypeOK, StampOrder
<1>3. hand \in Offered
  BY <1>1 DEF Offered
<1>4. Offered' = Offered
  <2>1. /\ DOMAIN log' = DOMAIN log \union {Len(log) + 1}
        /\ log'[Len(log) + 1] = e
        /\ \A i \in DOMAIN log : log'[i] = log[i]
    BY <1>1, <1>2, AppendElements DEF TypeOK
  <2>2. {log'[i].msg : i \in DOMAIN log'} = {log[i].msg : i \in DOMAIN log} \union {hand}
    BY <2>1
  <2> QED BY <1>1, <2>2 DEF Offered
<1>5. ASSUME NEW i \in DOMAIN log
      PROVE  /\ log[i].msg.src = hand.src => log[i].msg.seq < hand.seq
             /\ Feed!SameKey(log[i].msg, hand) => t >= log[i].at + Window
  <2>1. Feed!SameKey(log[i].msg, hand) => Key(log[i].msg) = Key(hand)
    BY DEF Feed!SameKey, Key
  <2>2. log[i].at \in Nat /\ t \in Nat
    BY <1>2, TypedElements DEF Entry
  <2>3. Key(log[i].msg) = Key(hand) => log[i].at + Window <= t
    BY <1>1 DEF StampOrder
  <2>4. log[i].msg.src = hand.src => log[i].msg.seq < hand.seq
    BY <1>1 DEF PathOrder, Before
  <2> HIDE DEF t
  <2> QED BY <2>1, <2>2, <2>3, <2>4
<1> QED BY <1>1, <1>2, <1>3, <1>4, <1>5 DEF Feed!Publish

\* A receiver joins at the end, leaves, or moves forward: to the next message,
\* or over a gap to the oldest one the ring keeps.
LEMMA ReceiverStep ==
  ASSUME TypeOK, NEW r \in Receivers, Subscribe(r) \/ Unsubscribe(r) \/ Receive(r)
  PROVE  Feed!Join(r) \/ Feed!Leave(r) \/ \E p \in 1 .. Len(log) + 1 : Feed!Read(r, p)
<1>1. CASE Subscribe(r)
  BY <1>1 DEF Subscribe, Offered, Feed!Join
<1>2. CASE Unsubscribe(r)
  BY <1>2 DEF Unsubscribe, Offered, Feed!Leave
<1>3. CASE Receive(r)
  <2> DEFINE p == IF cursor[r] < Oldest THEN Oldest ELSE cursor[r] + 1
  <2>1. Len(log) \in Nat /\ cursor[r] \in 1 .. Len(log)
    BY <1>3 DEF Receive, TypeOK
  <2>2. Oldest \in 1 .. Len(log) + 1
    BY <2>1 DEF Oldest
  <2>3. p \in 1 .. Len(log) + 1 /\ cursor[r] # 0 /\ cursor[r] < p
    BY <2>1, <2>2
  <2>4. cursor' = [cursor EXCEPT ![r] = p] /\ UNCHANGED <<now, Offered, log>>
    BY <1>3 DEF Receive, Offered
  <2> HIDE DEF p
  <2>5. Feed!Read(r, p)
    BY <2>3, <2>4 DEF Feed!Read
  <2> QED BY <2>3, <2>5
<1> QED BY <1>1, <1>2, <1>3

\* Every step of the pipeline is one of the feed or a stutter there.
LEMMA FeedStep ==
  TypeOK /\ PipelineInv /\ [Next]_vars => [Feed!Next]_(Feed!vars)
<1> SUFFICES ASSUME TypeOK, PathOrder, StampOrder, [Next]_vars
             PROVE  [Feed!Next]_(Feed!vars)
  BY DEF PipelineInv
<1>1. CASE Tick
  BY <1>1, TickStep DEF Feed!Next
<1>2. ASSUME NEW s \in Sources, NEW sym \in Symbols, Emit(s, sym)
      PROVE  Feed!Next
  BY <1>2, EmitStep DEF Feed!Next
<1>3. CASE Recv \/ Suppress \/ Pass \/ Insert
  BY <1>3, InnerStep DEF Feed!vars
<1>4. CASE Send
  BY <1>4, SendStep DEF Feed!Next
<1>5. ASSUME NEW r \in Receivers, Subscribe(r) \/ Unsubscribe(r) \/ Receive(r)
      PROVE  Feed!Next
  BY <1>5, ReceiverStep DEF Feed!Next
<1>6. CASE UNCHANGED vars
  BY <1>6 DEF vars, Offered, Feed!vars
<1> QED BY <1>1, <1>2, <1>3, <1>4, <1>5, <1>6 DEF Next, Forwarder

\* main.rs:36-44, hub.rs:25-36: queue, forwarder and ring implement the feed: they
\* only delay, suppress and skip, for every capacity, window and set of receivers.
THEOREM PipelineImplementsFeed == Spec => Feed!SafeSpec
<1>1. Init => Feed!Init
  BY FeedInit
<1>2. TypeOK /\ PipelineInv /\ [Next]_vars => [Feed!Next]_(Feed!vars)
  BY FeedStep
<1> QED BY <1>1, <1>2, TypeCorrect, PipelineInvariant, PTL DEF Spec, Feed!SafeSpec
=============================================================================
