--------------------------- MODULE TdxAdapter_proofs ---------------------------
(***************************************************************************)
(* Proofs about TdxAdapter for every set of symbols, record length, batch, *)
(* channel size and number of packets in flight.                           *)
(***************************************************************************)
EXTENDS TdxAdapter, TLAPS

USE CodecAssumption, TdxAssumption DEF CodecAssumption, TdxAssumption

-----------------------------------------------------------------------------
(* What the decoder returns.                                               *)

\* The headers are read closer together than the records lie, so the stock at a
\* header is never one past the count.
LEMMA StockAtBound ==
  ASSUME NEW k \in Nat \ {0}
  PROVE  StockAt(k) \in 1 .. k
<1> DEFINE h == 10 * (k - 1)
           q == h \div RecordLen
<1>1. h \in Nat /\ RecordLen \in Nat /\ RecordLen >= 30
  BY DEF HeaderLen, PricesLen
<1>2. q \in Nat /\ q * RecordLen <= h
  BY <1>1
<1>3. q <= k - 1
  <2> SUFFICES ASSUME q >= k PROVE FALSE
    BY <1>2
  <2>1. q * RecordLen >= k * 30
    BY <1>1, <1>2
  <2> QED BY <1>2, <2>1
<1> QED BY <1>2, <1>3 DEF StockAt, HeaderAt, HeaderLen

\* decode_depth returns at most one depth, of a stock that was counted.
LEMMA DecodeDepthType ==
  ASSUME NEW p \in Push, NEW d \in DecodeDepth(p)
  PROVE  d \in Seq(0 .. MaxBatch) /\ Len(d) <= MaxBatch /\ Len(d) <= 1
<1>1. PICK n \in 0 .. MaxBatch : p \in [active : [1 .. n -> BOOLEAN], held : 0 .. n]
  BY DEF Push
<1>2. DOMAIN p.active = 1 .. n
  BY <1>1
<1>3. ASSUME NEW k \in Read(p), d = First(p, k)
      PROVE  d \in Seq(0 .. MaxBatch) /\ Len(d) <= MaxBatch /\ Len(d) <= 1
  <2>1. k \in 1 .. n /\ n <= MaxBatch
    BY <1>2, <1>3 DEF Read
  <2>2. StockAt(k) \in 1 .. k
    BY <2>1, StockAtBound
  <2>3. (IF Genuine(k) THEN StockAt(k) ELSE 0) \in 0 .. MaxBatch
    BY <2>1, <2>2
  <2> HIDE DEF Genuine
  <2> QED BY <1>3, <2>1, <2>3 DEF First
<1>4. CASE d = <<>>
  BY <1>4
<1> QED BY <1>3, <1>4 DEF DecodeDepth

-----------------------------------------------------------------------------
(* Type correctness.                                                       *)

LEMMA TypeInit == Init => TypeOK
<1> SUFFICES ASSUME Init PROVE TypeOK
  OBVIOUS
<1>1. stopped \in BOOLEAN /\ answered \in BOOLEAN
  BY DEF Init
<1>2. /\ symbols \subseteq Symbols /\ state \in States /\ link \in {"none", "up", "down"}
      /\ net \in Seq(Packet) /\ Len(net) <= MaxNet
      /\ todo \in Seq(0 .. MaxBatch) /\ Len(todo) <= MaxBatch
      /\ out \in 0 .. QueueCap /\ asked \subseteq Symbols
  BY DEF Init, States
<1> QED BY <1>1, <1>2 DEF Init, TypeOK

LEMMA PacketType ==
  ASSUME NEW p \in Packet
  PROVE  /\ p.kind \in {"push", "other", "cut", "tiny", "short"}
         /\ p.kind = "push" => p.body \in Push
BY DEF Packet

LEMMA ShorterQueue ==
  ASSUME NEW S, NEW q \in Seq(S), NEW n \in Nat, Len(q) <= n, q # <<>>
  PROVE  Head(q) \in S /\ Tail(q) \in Seq(S) /\ Len(Tail(q)) <= n
OBVIOUS

\* Every step of the callers, the hub, the server and run() keeps the types.
LEMMA TypeStep == TypeOK /\ [Next]_vars => TypeOK'
<1> SUFFICES ASSUME TypeOK, [Next]_vars PROVE TypeOK'
  OBVIOUS
<1> USE DEF TypeOK, shared, stream, Connecting, Ended, States
<1>1. ASSUME NEW S \in SUBSET Symbols, SubscribeCall(S) PROVE TypeOK'
  BY <1>1 DEF SubscribeCall
<1>2. CASE StopCall
  BY <1>2 DEF StopCall
<1>3. CASE HubTakes
  <2>1. out' \in 0 .. QueueCap
    BY <1>3 DEF HubTakes
  <2> QED BY <1>3, <2>1 DEF HubTakes
<1>4. ASSUME NEW p \in Packet, ServerSends(p) PROVE TypeOK'
  <2>1. net' \in Seq(Packet) /\ Len(net') <= MaxNet
    <3>1. Len(net) < MaxNet /\ net' = Append(net, p) /\ net \in Seq(Packet)
      BY <1>4 DEF ServerSends
    <3> HIDE DEF TypeOK
    <3> QED BY <3>1
  <2> QED BY <1>4, <2>1 DEF ServerSends
<1>5. CASE LinkBreaks
  BY <1>5 DEF LinkBreaks
<1>6. CASE Start
  BY <1>6 DEF Start
<1>0. <<>> \in Seq(Packet) /\ Len(<<>>) <= MaxNet
  OBVIOUS
<1>7. CASE OuterLoop
  BY <1>0, <1>7 DEF OuterLoop
<1>8. CASE ConnectOk
  BY <1>0, <1>8 DEF ConnectOk
<1>9. CASE ConnectFails \/ SendLogin \/ RetryAfterSleep
  BY <1>9 DEF ConnectFails, SendLogin, RetryAfterSleep
<1>10. CASE AwaitLogin
  <2>1. net' \in Seq(Packet) /\ Len(net') <= MaxNet
    <3>1. net' = net \/ (net # <<>> /\ net' = Tail(net))
      BY <1>10 DEF AwaitLogin
    <3> QED BY <3>1, ShorterQueue
  <2> QED BY <1>10, <2>1 DEF AwaitLogin
<1>11. CASE Subscribe
  BY <1>11 DEF Subscribe
<1>12. CASE CheckStopped
  BY <1>12 DEF CheckStopped
<1>13. CASE RecvPacket
  <2> DEFINE p == Head(net)
  <2>1. p \in Packet /\ net' \in Seq(Packet) /\ Len(net') <= MaxNet
    BY <1>13 DEF RecvPacket
  <2>2. pc' \in {"outer", "push", "failed", "check"}
    BY <1>13, <2>1, PacketType DEF RecvPacket
  <2>3. todo' \in Seq(0 .. MaxBatch) /\ Len(todo') <= MaxBatch
    <3>1. CASE p.kind = "push"
      BY <1>13, <2>1, <3>1, PacketType, DecodeDepthType DEF RecvPacket
    <3>2. CASE p.kind # "push"
      BY <1>13, <3>2 DEF RecvPacket
    <3> QED BY <3>1, <3>2
  <2> QED BY <1>13, <2>1, <2>2, <2>3 DEF RecvPacket
<1>14. CASE RecvClosed
  BY <1>14 DEF RecvClosed
<1>15. CASE PushDepth
  <2>1. todo' \in Seq(0 .. MaxBatch) /\ Len(todo') <= MaxBatch
    BY <1>15 DEF PushDepth
  <2> QED BY <1>15, <2>1 DEF PushDepth
<1>16. CASE PushDone
  BY <1>16 DEF PushDone
<1>17. CASE UNCHANGED vars
  BY <1>17 DEF vars
<1> QED
  BY <1>1, <1>2, <1>3, <1>4, <1>5, <1>6, <1>7, <1>8, <1>9, <1>10, <1>11, <1>12,
     <1>13, <1>14, <1>15, <1>16, <1>17
     DEF Next, Run

\* Each variable of the adapter keeps its type: no push overruns its count, and
\* the hub's channel is never over-full.
THEOREM TypeCorrect == Spec => []TypeOK
BY TypeInit, TypeStep, PTL DEF Spec

-----------------------------------------------------------------------------
(* What the connection state claims.                                       *)

\* No list was written while the adapter connects; one may be only after the
\* login of the same stream was answered.
StreamInv ==
  /\ StateIsOfThisStream
  /\ pc \in Connecting \union {"idle"} => asked = {}
  /\ pc = "subscribe" => answered /\ asked = {} /\ state = "LoggedIn"

LEMMA StreamInit == Init => StreamInv
BY DEF Init, StreamInv, StateIsOfThisStream, Connecting

LEMMA StreamStep == TypeOK /\ StreamInv /\ [Next]_vars => StreamInv'
<1> SUFFICES ASSUME TypeOK, StreamInv, [Next]_vars PROVE StreamInv'
  OBVIOUS
<1> USE DEF StreamInv, StateIsOfThisStream, shared, stream, Connecting
<1>1. ASSUME NEW S \in SUBSET Symbols, SubscribeCall(S) PROVE StreamInv'
  BY <1>1 DEF SubscribeCall
<1>2. CASE StopCall
  BY <1>2 DEF StopCall
<1>3. CASE HubTakes
  BY <1>3 DEF HubTakes
<1>4. ASSUME NEW p \in Packet, ServerSends(p) PROVE StreamInv'
  BY <1>4 DEF ServerSends
<1>5. CASE LinkBreaks
  BY <1>5 DEF LinkBreaks
<1>6. CASE Start
  BY <1>6 DEF Start
<1>7. CASE OuterLoop
  BY <1>7 DEF OuterLoop
<1>8. CASE ConnectOk
  BY <1>8 DEF ConnectOk
<1>9. CASE ConnectFails \/ SendLogin \/ RetryAfterSleep
  BY <1>9 DEF ConnectFails, SendLogin, RetryAfterSleep
<1>10. CASE AwaitLogin
  BY <1>10 DEF AwaitLogin
<1>11. CASE Subscribe
  BY <1>11 DEF Subscribe
<1>12. CASE CheckStopped
  BY <1>12 DEF CheckStopped
<1>13. CASE RecvPacket
  <2>1. Head(net).kind \in {"push", "other", "cut", "tiny", "short"}
    BY <1>13, PacketType DEF RecvPacket, TypeOK
  <2>2. pc' \in {"outer", "push", "failed", "check"}
    BY <1>13, <2>1 DEF RecvPacket
  <2> QED BY <1>13, <2>2 DEF RecvPacket
<1>14. CASE RecvClosed
  BY <1>14 DEF RecvClosed
<1>15. CASE PushDepth
  BY <1>15 DEF PushDepth
<1>16. CASE PushDone
  BY <1>16 DEF PushDone
<1>17. CASE UNCHANGED vars
  BY <1>17 DEF vars
<1> QED
  BY <1>1, <1>2, <1>3, <1>4, <1>5, <1>6, <1>7, <1>8, <1>9, <1>10, <1>11, <1>12,
     <1>13, <1>14, <1>15, <1>16, <1>17
     DEF Next, Run

LEMMA StreamAlways == Spec => []StreamInv
BY TypeInit, TypeStep, StreamInit, StreamStep, PTL DEF Spec

\* connection.rs:81-94: over any sequence of attempts the state claims a login or
\* a subscription only for the stream in use.
THEOREM StateOfThisStream == Spec => []StateIsOfThisStream
<1>1. StreamInv => StateIsOfThisStream
  BY DEF StreamInv
<1> QED BY <1>1, StreamAlways, PTL

-----------------------------------------------------------------------------
(* What ends run().                                                        *)

LEMMA EndStep ==
  ASSUME TypeOK, [Next]_vars, pc' \in Ended, pc' # pc
  PROVE  stopped \/ (net # <<>> /\ Head(net).kind = "short")
<1> USE DEF Ended
<1>1. CASE RecvPacket
  <2>1. Head(net).kind \in {"push", "other", "cut", "tiny", "short"}
    BY <1>1, PacketType DEF RecvPacket, TypeOK
  <2> QED BY <1>1, <2>1 DEF RecvPacket
<1>2. CASE OuterLoop \/ CheckStopped
  BY <1>2 DEF OuterLoop, CheckStopped
<1>3. CASE ~Run
  BY <1>3 DEF Next, SubscribeCall, StopCall, HubTakes, ServerSends, LinkBreaks, vars
<1>4. CASE \/ Start \/ ConnectOk \/ ConnectFails \/ SendLogin \/ AwaitLogin
           \/ RetryAfterSleep \/ Subscribe \/ RecvClosed \/ PushDepth \/ PushDone
  BY <1>4 DEF Start, ConnectOk, ConnectFails, SendLogin, AwaitLogin, RetryAfterSleep,
        Subscribe, RecvClosed, PushDepth, PushDone
<1> QED BY <1>1, <1>2, <1>3, <1>4 DEF Run

\* adapter.rs:30-62: only stop() or a quote push without a count ends run().
THEOREM OnlyTheseEndRun == Spec => EndsForAReason
<1>1. TypeOK /\ [Next]_vars
        => [pc' \in Ended /\ pc' # pc
              => stopped \/ (net # <<>> /\ Head(net).kind = "short")]_vars
  BY EndStep
<1> QED BY <1>1, TypeCorrect, PTL DEF Spec, EndsForAReason
=============================================================================
