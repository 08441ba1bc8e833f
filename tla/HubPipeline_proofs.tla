-------------------------- MODULE HubPipeline_proofs ---------------------------
(***************************************************************************)
(* Proofs about HubPipeline for every number of sources, symbols and       *)
(* receivers, every capacity, window and bound.                            *)
(***************************************************************************)
EXTENDS HubPipeline, TLAPS

USE PipelineAssumption

-----------------------------------------------------------------------------
(* Type correctness.                                                       *)

LEMMA TypeInit == Init => TypeOK
BY DEF Init, TypeOK, Keys, Entry, Never

\* Every step of the adapters, the clock, the forwarder and the receivers
\* keeps each variable in its type.
LEMMA TypeStep == TypeOK /\ [Next]_vars => TypeOK'
<1> SUFFICES ASSUME TypeOK, [Next]_vars PROVE TypeOK'
  OBVIOUS
<1> USE DEF TypeOK
<1>k. pc # "recv" => Key(hand) \in Keys
  BY DEF Key, Keys, Message
<1>1. CASE Tick
  BY <1>1 DEF Tick
<1>2. ASSUME NEW s \in Sources, NEW sym \in Symbols, Emit(s, sym)
      PROVE  TypeOK'
  <2>1. [src |-> s, sym |-> sym, seq |-> emitted[s] + 1] \in Message
    BY DEF Message
  <2>2. queue' \in Seq(Message)
    BY <1>2, <2>1 DEF Emit
  <2>3. emitted' \in [Sources -> 0 .. MaxEmit]
    BY <1>2 DEF Emit
  <2> QED BY <1>2, <2>2, <2>3 DEF Emit
<1>3. CASE Recv
  <2>1. Head(queue) \in Message /\ Tail(queue) \in Seq(Message)
    BY <1>3 DEF Recv
  <2> QED BY <1>3, <2>1 DEF Recv
<1>4. CASE Suppress
  <2>1. [msg |-> hand, at |-> now] \in Entry
    BY <1>4 DEF Suppress, Entry
  <2> QED BY <1>4, <2>1 DEF Suppress
<1>5. CASE Pass
  BY <1>5 DEF Pass
<1>6. CASE Insert
  <2>1. now \in Nat
    OBVIOUS
  <2>2. latest' \in [Keys -> Nat \union {Never}]
    BY <1>6, <2>1 DEF Insert
  <2>3. latest'[Key(hand')] \in Nat
    BY <1>6, <1>k, <2>1 DEF Insert
  <2> QED BY <1>6, <2>2, <2>3 DEF Insert
<1>7. CASE Send
  <2>1. [msg |-> hand, at |-> latest[Key(hand)]] \in Entry
    BY <1>7 DEF Send, Entry
  <2>2. log' \in Seq(Entry)
    BY <1>7, <2>1 DEF Send
  <2> QED BY <1>7, <2>2 DEF Send
<1>8. ASSUME NEW r \in Receivers, Subscribe(r) PROVE TypeOK'
  BY <1>8 DEF Subscribe
<1>9. ASSUME NEW r \in Receivers, Unsubscribe(r) PROVE TypeOK'
  BY <1>9 DEF Unsubscribe
<1>10. ASSUME NEW r \in Receivers, Receive(r) PROVE TypeOK'
  <2>1. Oldest \in Nat
    BY DEF Oldest
  <2> QED BY <1>10, <2>1 DEF Receive
<1>11. CASE UNCHANGED vars
  BY <1>11 DEF vars
<1> QED
  BY <1>1, <1>2, <1>3, <1>4, <1>5, <1>6, <1>7, <1>8, <1>9, <1>10, <1>11
     DEF Next, Forwarder

\* Each variable keeps its type in every reachable state.
THEOREM TypeCorrect == Spec => []TypeOK
BY TypeInit, TypeStep, PTL DEF Spec

-----------------------------------------------------------------------------
(* Order along the path.                                                   *)

\* Taking the head off a sequence shifts the other elements down by one.
LEMMA TailElements ==
  ASSUME NEW S, NEW q \in Seq(S), q # <<>>
  PROVE  /\ Head(q) = q[1]
         /\ 1 \in DOMAIN q
         /\ \A i \in DOMAIN Tail(q) : i + 1 \in DOMAIN q /\ Tail(q)[i] = q[i + 1]
         /\ \A i \in DOMAIN q : i # 1 => i - 1 \in DOMAIN Tail(q)
         /\ \A i \in DOMAIN Tail(q) : i \in Nat \ {0}
OBVIOUS

\* An appended sequence has the old elements and one more.
LEMMA AppendElements ==
  ASSUME NEW S, NEW q \in Seq(S), NEW e \in S
  PROVE  /\ DOMAIN Append(q, e) = DOMAIN q \union {Len(q) + 1}
         /\ Append(q, e)[Len(q) + 1] = e
         /\ \A i \in DOMAIN q : Append(q, e)[i] = q[i] /\ i \in 1 .. Len(q)
OBVIOUS

\* The messages stored anywhere along the path are messages.
LEMMA TypedElements ==
  ASSUME TypeOK
  PROVE  /\ \A i \in DOMAIN queue : queue[i] \in Message
         /\ \A i \in DOMAIN log : log[i] \in Entry /\ log[i].msg \in Message
         /\ \A d \in dropped : d \in Entry /\ d.msg \in Message
         /\ pc # "recv" => hand \in Message
<1>1. /\ \A i \in DOMAIN queue : queue[i] \in Message
      /\ \A i \in DOMAIN log : log[i] \in Entry
      /\ \A d \in dropped : d \in Entry
      /\ pc # "recv" => hand \in Message
  BY DEF TypeOK
<1>2. \A e \in Entry : e.msg \in Message
  BY DEF Entry
<1> QED BY <1>1, <1>2

LEMMA PathOrderInit == Init => PathOrder
BY DEF Init, PathOrder, SourceOrder

\* A step keeps messages of one source in order along log, hand and queue.
LEMMA PathOrderStep == TypeOK /\ PathOrder /\ [Next]_vars => PathOrder'
<1> SUFFICES ASSUME TypeOK, PathOrder, [Next]_vars PROVE PathOrder'
  OBVIOUS
<1>t. TypeOK'
  BY TypeStep
<1>1. ASSUME UNCHANGED <<emitted, queue, pc, hand, log, dropped>>
      PROVE  PathOrder'
  BY <1>1 DEF PathOrder, SourceOrder
<1>2. ASSUME NEW s \in Sources, NEW sym \in Symbols, Emit(s, sym)
      PROVE  PathOrder'
  <2> DEFINE m == [src |-> s, sym |-> sym, seq |-> emitted[s] + 1]
  <2>1. m \in Message /\ m.src = s /\ m.seq = emitted[s] + 1
    BY DEF Message, TypeOK
  <2>2. /\ DOMAIN queue' = DOMAIN queue \union {Len(queue) + 1}
        /\ queue'[Len(queue) + 1] = m
        /\ \A i \in DOMAIN queue : queue'[i] = queue[i] /\ i \in 1 .. Len(queue)
    BY <1>2, <2>1, AppendElements DEF Emit, TypeOK
  <2>3. \A x \in Message : x.seq <= emitted[x.src] => Before(x, m) /\ x.seq <= emitted'[x.src]
    BY <1>2, <2>1 DEF Emit, TypeOK, Message, Before
  <2>4. /\ \A i \in DOMAIN queue : queue[i] \in Message
        /\ \A i \in DOMAIN log : log[i].msg \in Message
        /\ \A d \in dropped : d.msg \in Message
        /\ pc # "recv" => hand \in Message
    BY TypedElements
  <2>5. m.seq <= emitted'[m.src]
    BY <1>2, <2>1 DEF Emit, TypeOK
  <2>6. Len(queue) \in Nat
    BY DEF TypeOK
  <2> HIDE DEF m
  <2>7. \A i, j \in DOMAIN queue' : i < j => Before(queue'[i], queue'[j])
    BY <2>2, <2>3, <2>4, <2>6 DEF PathOrder
  <2>8. UNCHANGED <<pc, hand, log, dropped>>
    BY <1>2 DEF Emit
  <2>9. \A j \in DOMAIN queue' :
       /\ queue'[j].seq <= emitted'[queue'[j].src]
       /\ pc # "recv" => Before(hand, queue'[j])
       /\ \A i \in DOMAIN log : Before(log[i].msg, queue'[j])
       /\ \A d \in dropped : Before(d.msg, queue'[j])
    BY <2>2, <2>3, <2>4, <2>5 DEF PathOrder
  <2> QED BY <2>3, <2>4, <2>7, <2>8, <2>9 DEF PathOrder, SourceOrder, Before
<1>3. CASE Recv
  <2>1. /\ hand' = queue[1] /\ 1 \in DOMAIN queue
        /\ \A i \in DOMAIN queue' :
             i + 1 \in DOMAIN queue /\ queue'[i] = queue[i + 1] /\ i \in Nat \ {0}
    BY <1>3, TailElements DEF Recv, TypeOK
  <2>2. /\ UNCHANGED <<emitted, log, dropped>>
        /\ pc' # "recv"
    BY <1>3 DEF Recv
  <2>3. \A i, j \in DOMAIN queue' : i < j => Before(queue'[i], queue'[j])
    BY <2>1 DEF PathOrder
  <2>4. \A j \in DOMAIN queue' : Before(hand', queue'[j])
    BY <2>1 DEF PathOrder
  <2> QED BY <2>1, <2>2, <2>3, <2>4 DEF PathOrder, SourceOrder
<1>4. CASE Suppress
  <2>1. /\ UNCHANGED <<emitted, queue, log>>
        /\ pc # "recv" /\ pc' = "recv"
        /\ \A d \in dropped' : d \in dropped \/ d.msg = hand
    BY <1>4 DEF Suppress
  <2>2. \A i \in DOMAIN log : log[i].msg # hand
    BY <2>1 DEF PathOrder, Before, TypeOK, Message
  <2> QED BY <2>1, <2>2 DEF PathOrder, SourceOrder
<1>5. CASE Pass
  BY <1>5 DEF Pass, PathOrder, SourceOrder
<1>6. CASE Insert
  BY <1>6 DEF Insert, PathOrder, SourceOrder
<1>7. CASE Send
  <2> DEFINE e == [msg |-> hand, at |-> latest[Key(hand)]]
  <2>1. e \in Entry /\ e.msg = hand
    BY <1>7 DEF Send, Entry, TypeOK
  <2>2. /\ DOMAIN log' = DOMAIN log \union {Len(log) + 1}
        /\ log'[Len(log) + 1].msg = hand
        /\ \A i \in DOMAIN log : log'[i] = log[i] /\ i \in 1 .. Len(log)
    BY <1>7, <2>1, AppendElements DEF Send, TypeOK
  <2>3. UNCHANGED <<emitted, queue, dropped>> /\ pc # "recv" /\ pc' = "recv"
    BY <1>7 DEF Send
  <2>4. Len(log) \in Nat
    BY DEF TypeOK
  <2>5. SourceOrder'
    BY <2>2, <2>3, <2>4 DEF PathOrder, SourceOrder, Before
  <2>6. \A d \in dropped : d.msg # hand
    BY <2>3 DEF PathOrder, Before, TypeOK, Message
  <2>7. \A j \in DOMAIN queue, i \in DOMAIN log' : Before(log'[i].msg, queue[j])
    BY <2>2, <2>3 DEF PathOrder
  <2>8. \A i \in DOMAIN log' : log'[i].msg.seq <= emitted[log'[i].msg.src]
    BY <2>2, <2>3 DEF PathOrder
  <2>9. \A d \in dropped, i \in DOMAIN log' : d.msg # log'[i].msg
    BY <2>2, <2>6 DEF PathOrder
  <2> QED BY <2>3, <2>5, <2>7, <2>8, <2>9 DEF PathOrder
<1> QED
  BY <1>1, <1>2, <1>3, <1>4, <1>5, <1>6, <1>7
     DEF Next, Forwarder, Tick, Subscribe, Unsubscribe, Receive, vars

-----------------------------------------------------------------------------
(* Stamps: what latest says about the log.                                 *)

LEMMA KeysOfMessages ==
  ASSUME NEW m \in Message
  PROVE  Key(m) \in Keys
BY DEF Message, Key, Keys

LEMMA StampOrderInit == Init => StampOrder
BY DEF Init, StampOrder, SpacedFeed, Never

\* The lookup of one step and the stamp of a later one bound every older
\* broadcast of the key from below, whatever the clock did in between.
LEMMA StampOrderStep == TypeOK /\ StampOrder /\ [Next]_vars => StampOrder'
<1> SUFFICES ASSUME TypeOK, StampOrder, [Next]_vars PROVE StampOrder'
  OBVIOUS
<1>1. /\ now \in Nat /\ Window \in Nat /\ Len(log) \in Nat
      /\ \A k \in Keys : latest[k] \in Nat \union {Never} /\ latest[k] \in Int
      /\ \A i \in DOMAIN log : log[i].at \in Nat /\ Key(log[i].msg) \in Keys
      /\ pc # "recv" => hand \in Message /\ Key(hand) \in Keys
  <2>1. \A e \in Entry : e.at \in Nat
    BY DEF Entry
  <2> QED BY <2>1, TypedElements, KeysOfMessages DEF TypeOK, Never
<1>3. CASE Tick
  <2>1. now' = now + 1 /\ UNCHANGED <<pc, latest, log, hand>>
    BY <1>3 DEF Tick
  <2>2. \A k \in Keys : latest'[k] <= now'
    BY <2>1, <1>1 DEF StampOrder
  <2>3. pc' = "insert" => ~Fresh(Key(hand))'
    BY <2>1, <1>1 DEF StampOrder, Fresh
  <2> QED BY <2>1, <2>2, <2>3 DEF StampOrder, SpacedFeed
<1>4. CASE Pass
  BY <1>4 DEF Pass, StampOrder, SpacedFeed, Fresh
<1>5. CASE Insert
  <2> DEFINE k == Key(hand)
  <2>1. /\ UNCHANGED <<now, log, hand>> /\ pc' = "send" /\ k \in Keys
        /\ latest' = [latest EXCEPT ![k] = now]
    BY <1>5, <1>1 DEF Insert
  <2>2. latest[k] = Never \/ latest[k] + Window <= now
    BY <1>5, <1>1 DEF Insert, StampOrder, Fresh
  <2> HIDE DEF k
  <2>3. /\ latest'[k] = now
        /\ \A x \in Keys : x # k => latest'[x] = latest[x]
    BY <2>1 DEF TypeOK
  <2>4. \A x \in Keys : latest'[x] <= now
    BY <2>3, <1>1 DEF StampOrder
  <2>5. \A i \in DOMAIN log : Key(log[i].msg) = k => log[i].at + Window <= now
    BY <2>1, <2>2, <1>1 DEF StampOrder, Never
  <2>6. \A i \in DOMAIN log : log[i].at <= latest'[Key(log[i].msg)]
    BY <2>3, <2>5, <1>1 DEF StampOrder
  <2>7. k = Key(hand')
    BY <2>1 DEF k
  <2> QED BY <2>1, <2>3, <2>4, <2>5, <2>6, <2>7 DEF StampOrder, SpacedFeed
<1>6. CASE Send
  <2> DEFINE e == [msg |-> hand, at |-> latest[Key(hand)]]
  <2>1. /\ UNCHANGED <<now, latest>> /\ pc' = "recv" /\ log' = Append(log, e)
        /\ pc = "send"
    BY <1>6 DEF Send
  <2>2. e \in Entry /\ e.msg = hand /\ e.at = latest[Key(hand)]
    BY <2>1, <1>1 DEF Entry, TypeOK
  <2> HIDE DEF e
  <2>3. /\ DOMAIN log' = DOMAIN log \union {Len(log) + 1}
        /\ log'[Len(log) + 1] = e
        /\ \A i \in DOMAIN log : log'[i] = log[i] /\ i \in 1 .. Len(log)
    BY <2>1, <2>2, AppendElements DEF TypeOK
  <2>4. \A i \in DOMAIN log' : log'[i].at <= latest[Key(log'[i].msg)]
    BY <2>1, <2>2, <2>3, <1>1 DEF StampOrder
  <2>5. \A i \in DOMAIN log : Key(log[i].msg) = Key(e.msg) => e.at >= log[i].at + Window
    BY <2>1, <2>2, <1>1 DEF StampOrder
  <2>6. SpacedFeed'
    BY <2>3, <2>5, <1>1 DEF StampOrder, SpacedFeed
  <2> QED BY <2>1, <2>4, <2>6 DEF StampOrder
<1>7. ASSUME UNCHANGED <<now, latest, log, hand, pc>> PROVE StampOrder'
  BY <1>7 DEF StampOrder, SpacedFeed, Fresh
<1>8. CASE Recv
  BY <1>8 DEF Recv, StampOrder, SpacedFeed
<1>9. CASE Suppress
  BY <1>9 DEF Suppress, StampOrder, SpacedFeed
<1> QED
  BY <1>3, <1>4, <1>5, <1>6, <1>7, <1>8, <1>9
     DEF Next, Forwarder, Emit, Subscribe, Unsubscribe, Receive, vars

-----------------------------------------------------------------------------
(* Suppressed messages have a broadcast sibling.                           *)

LEMMA StampsBroadcastInit == Init => StampsBroadcast
BY DEF Init, StampsBroadcast, SuppressedIsCovered, Never

\* A suppression finds a stamp younger than a window, and that stamp belongs to
\* a message that is on the log already, because the one forwarder has finished
\* with it.
LEMMA StampsBroadcastStep ==
  TypeOK /\ PathOrder /\ StampsBroadcast /\ [Next]_vars => StampsBroadcast'
<1> SUFFICES ASSUME TypeOK, PathOrder, StampsBroadcast, [Next]_vars
             PROVE  StampsBroadcast'
  OBVIOUS
<1>1. ASSUME UNCHANGED <<latest, log, dropped>>,
             (pc # "send" /\ pc' # "send") \/ UNCHANGED <<pc, hand>>
      PROVE  StampsBroadcast'
  BY <1>1 DEF StampsBroadcast, SuppressedIsCovered
<1>2. CASE Suppress
  <2> DEFINE d == [msg |-> hand, at |-> now]
  <2>1. /\ UNCHANGED <<latest, log>> /\ pc = "lookup" /\ pc' = "recv"
        /\ dropped' = dropped \union {d} /\ d.msg = hand /\ d.at = now
        /\ latest[Key(hand)] # Never /\ now - latest[Key(hand)] < Window
    BY <1>2 DEF Suppress, Fresh
  <2>2. hand \in Message /\ Key(hand) \in Keys
    BY <2>1, TypedElements, KeysOfMessages
  <2>3. PICK i \in DOMAIN log : Key(log[i].msg) = Key(hand) /\ log[i].at = latest[Key(hand)]
    BY <2>1, <2>2 DEF StampsBroadcast
  <2>4. log[i].msg.seq < hand.seq
    BY <2>1, <2>3 DEF PathOrder, Before, Key
  <2>5. now < log[i].at + Window
    <3>1. log[i].at \in Nat /\ now \in Nat
      BY TypedElements DEF TypeOK, Entry
    <3> QED BY <3>1, <2>1, <2>3
  <2> HIDE DEF d
  <2>6. SuppressedIsCovered'
    BY <2>1, <2>3, <2>4, <2>5 DEF StampsBroadcast, SuppressedIsCovered
  <2> QED BY <2>1, <2>6 DEF StampsBroadcast
<1>3. CASE Insert
  <2>1. /\ UNCHANGED <<log, dropped, hand>> /\ pc # "send" /\ pc' = "send"
        /\ \A k \in Keys : k # Key(hand) => latest'[k] = latest[k]
    BY <1>3 DEF Insert, TypeOK
  <2> QED BY <2>1 DEF StampsBroadcast, SuppressedIsCovered
<1>4. CASE Send
  <2> DEFINE e == [msg |-> hand, at |-> latest[Key(hand)]]
  <2>1. /\ UNCHANGED <<latest, dropped>> /\ pc' = "recv" /\ log' = Append(log, e)
        /\ pc = "send" /\ e.msg = hand /\ e.at = latest[Key(hand)]
    BY <1>4 DEF Send
  <2>2. e \in Entry
    BY <2>1, TypedElements DEF Entry, TypeOK
  <2> HIDE DEF e
  <2>3. /\ DOMAIN log' = DOMAIN log \union {Len(log) + 1}
        /\ log'[Len(log) + 1] = e
        /\ \A i \in DOMAIN log : log'[i] = log[i]
    BY <2>1, <2>2, AppendElements DEF TypeOK
  <2>4. SuppressedIsCovered'
    BY <2>1, <2>3 DEF StampsBroadcast, SuppressedIsCovered
  <2>5. ASSUME NEW k \in Keys, latest'[k] # Never
        PROVE  \E i \in DOMAIN log' : Key(log'[i].msg) = k /\ log'[i].at = latest'[k]
    <3>1. CASE k = Key(hand)
      BY <2>1, <2>3, <3>1
    <3>2. CASE k # Key(hand)
      BY <2>1, <2>3, <2>5, <3>2 DEF StampsBroadcast
    <3> QED BY <3>1, <3>2
  <2> QED BY <2>4, <2>5 DEF StampsBroadcast
<1> QED
  BY <1>1, <1>2, <1>3, <1>4
     DEF Next, Forwarder, Recv, Pass, Tick, Emit, Subscribe, Unsubscribe, Receive, vars

-----------------------------------------------------------------------------
(* No message is lost on the way.                                          *)

LEMMA NothingLostInit == Init => NothingLost
BY DEF Init, NothingLost

\* Each step leaves every message where it is or moves it one stage on.
LEMMA NothingLostStep == TypeOK /\ NothingLost /\ [Next]_vars => NothingLost'
<1> SUFFICES ASSUME TypeOK, NothingLost, [Next]_vars,
                    NEW s \in Sources, NEW n \in 1 .. MaxEmit, n <= emitted'[s]
             PROVE  Reached(s, n)' \/ InFlight(s, n)'
  BY DEF NothingLost
<1>1. ASSUME UNCHANGED <<emitted, queue, log, dropped, hand, pc>>
      PROVE  Reached(s, n)' \/ InFlight(s, n)'
  BY <1>1 DEF NothingLost, Reached, InFlight
<1>2. ASSUME NEW t \in Sources, NEW sym \in Symbols, Emit(t, sym)
      PROVE  Reached(s, n)' \/ InFlight(s, n)'
  <2> DEFINE m == [src |-> t, sym |-> sym, seq |-> emitted[t] + 1]
  <2>1. /\ m \in Message /\ m.src = t /\ m.seq = emitted[t] + 1
        /\ queue' = Append(queue, m) /\ UNCHANGED <<pc, hand, log, dropped>>
        /\ emitted' = [emitted EXCEPT ![t] = @ + 1] /\ emitted[s] \in Nat
    BY <1>2 DEF Emit, Message, TypeOK
  <2> HIDE DEF m
  <2>2. /\ DOMAIN queue' = DOMAIN queue \union {Len(queue) + 1}
        /\ queue'[Len(queue) + 1] = m
        /\ \A i \in DOMAIN queue : queue'[i] = queue[i]
    BY <2>1, AppendElements DEF TypeOK
  <2>3. CASE n <= emitted[s]
    BY <2>1, <2>2, <2>3 DEF NothingLost, Reached, InFlight
  <2>4. CASE s = t /\ n = emitted[t] + 1
    BY <2>1, <2>2, <2>4 DEF InFlight
  <2> QED BY <2>1, <2>3, <2>4 DEF TypeOK
<1>3. CASE Recv
  <2>1. n <= emitted[s] /\ pc = "recv" /\ pc' # "recv" /\ UNCHANGED <<log, dropped>>
    BY <1>3 DEF Recv
  <2>2. /\ hand' = queue[1]
        /\ \A i \in DOMAIN queue :
             i # 1 => i - 1 \in DOMAIN queue' /\ queue'[i - 1] = queue[i - 1 + 1]
        /\ DOMAIN queue \subseteq Int
    BY <1>3, TailElements DEF Recv, TypeOK
  <2>3. Reached(s, n) \/ \E i \in DOMAIN queue : queue[i].src = s /\ queue[i].seq = n
    BY <2>1 DEF NothingLost, InFlight
  <2>4. ASSUME NEW i \in DOMAIN queue, queue[i].src = s, queue[i].seq = n
        PROVE  InFlight(s, n)'
    <3>1. CASE i = 1
      BY <2>1, <2>2, <2>4, <3>1 DEF InFlight
    <3>2. CASE i # 1
      <4>1. i - 1 + 1 = i
        BY <2>2
      <4> QED BY <2>2, <2>4, <3>2, <4>1 DEF InFlight
    <3> QED BY <3>1, <3>2
  <2> QED BY <2>1, <2>3, <2>4 DEF Reached
<1>4. CASE Suppress
  <2> DEFINE d == [msg |-> hand, at |-> now]
  <2>1. /\ n <= emitted[s] /\ UNCHANGED <<queue, log>>
        /\ dropped' = dropped \union {d} /\ d.msg = hand
    BY <1>4 DEF Suppress
  <2> HIDE DEF d
  <2>2. Reached(s, n) \/ InFlight(s, n)
    BY <2>1 DEF NothingLost
  <2>3. CASE Reached(s, n)
    BY <2>1, <2>3 DEF Reached
  <2>4. CASE \E i \in DOMAIN queue : queue[i].src = s /\ queue[i].seq = n
    BY <2>1, <2>4 DEF InFlight
  <2>5. CASE hand.src = s /\ hand.seq = n
    BY <2>1, <2>5 DEF Reached
  <2> QED BY <2>2, <2>3, <2>4, <2>5 DEF InFlight
<1>5. CASE Send
  <2> DEFINE e == [msg |-> hand, at |-> latest[Key(hand)]]
  <2>1. /\ n <= emitted[s] /\ UNCHANGED <<queue, dropped>>
        /\ log' = Append(log, e) /\ e.msg = hand /\ pc = "send"
    BY <1>5 DEF Send
  <2>2. e \in Entry
    BY <2>1, TypedElements DEF Entry, TypeOK
  <2> HIDE DEF e
  <2>3. /\ DOMAIN log' = DOMAIN log \union {Len(log) + 1}
        /\ log'[Len(log) + 1] = e
        /\ \A i \in DOMAIN log : log'[i] = log[i]
    BY <2>1, <2>2, AppendElements DEF TypeOK
  <2> QED BY <2>1, <2>3 DEF NothingLost, Reached, InFlight
<1>6. CASE Pass \/ Insert
  BY <1>6 DEF Pass, Insert, NothingLost, Reached, InFlight
<1>7. CASE Tick
  BY <1>1, <1>7 DEF Tick
<1>8. ASSUME NEW r \in Receivers, Subscribe(r) \/ Unsubscribe(r) \/ Receive(r)
      PROVE  Reached(s, n)' \/ InFlight(s, n)'
  BY <1>1, <1>8 DEF Subscribe, Unsubscribe, Receive
<1>9. CASE UNCHANGED vars
  BY <1>1, <1>9 DEF vars
<1> QED
  BY <1>2, <1>3, <1>4, <1>5, <1>6, <1>7, <1>8, <1>9 DEF Next, Forwarder

-----------------------------------------------------------------------------
(* The theorems.                                                           *)

\* Order, stamps, siblings and locations together are inductive.
THEOREM PipelineInvariant == Spec => []PipelineInv
<1>1. Init => PipelineInv
  BY PathOrderInit, StampOrderInit, StampsBroadcastInit, NothingLostInit DEF PipelineInv
<1>2. TypeOK /\ PipelineInv /\ [Next]_vars => PipelineInv'
  BY PathOrderStep, StampOrderStep, StampsBroadcastStep, NothingLostStep DEF PipelineInv
<1> QED BY <1>1, <1>2, TypeCorrect, PTL DEF Spec

\* Two broadcasts of one source and symbol were accepted at least a dedup
\* window apart, for every window and every placement of the clock ticks.
THEOREM FeedIsSpaced == Spec => []SpacedFeed
<1>1. PipelineInv => SpacedFeed
  BY DEF PipelineInv, StampOrder
<1> QED BY <1>1, PipelineInvariant, PTL

\* The broadcast keeps the order of each source, without repetition.
THEOREM FeedKeepsSourceOrder == Spec => []SourceOrder
<1>1. PipelineInv => SourceOrder
  BY DEF PipelineInv, PathOrder
<1> QED BY <1>1, PipelineInvariant, PTL

\* A suppressed message has a broadcast sibling younger than a window.
THEOREM SuppressionIsCovered == Spec => []SuppressedIsCovered
<1>1. PipelineInv => SuppressedIsCovered
  BY DEF PipelineInv, StampsBroadcast
<1> QED BY <1>1, PipelineInvariant, PTL

\* Every produced message is in flight or settled, never both and never lost,
\* for every capacity of the queue.
THEOREM EveryMessageAccounted == Spec => []Accounted
<1>1. TypeOK /\ PipelineInv => Accounted
  <2> SUFFICES ASSUME TypeOK, PipelineInv PROVE Accounted
    OBVIOUS
  <2>1. ASSUME NEW s \in Sources, NEW n \in 1 .. MaxEmit, n <= emitted[s]
        PROVE  Reached(s, n) # InFlight(s, n)
    <3>1. Reached(s, n) \/ InFlight(s, n)
      BY <2>1 DEF PipelineInv, NothingLost
    <3>2. ~(Reached(s, n) /\ InFlight(s, n))
      BY DEF Reached, InFlight, PipelineInv, PathOrder, Before
    <3>3. Reached(s, n) \in BOOLEAN /\ InFlight(s, n) \in BOOLEAN
      BY DEF Reached, InFlight
    <3> QED BY <3>1, <3>2, <3>3
  <2>2. \A d \in dropped, i \in DOMAIN log : d.msg # log[i].msg
    BY DEF PipelineInv, PathOrder
  <2> QED BY <2>1, <2>2 DEF Accounted
<1> QED BY <1>1, TypeCorrect, PipelineInvariant, PTL
=============================================================================
