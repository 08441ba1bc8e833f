------------------------------- MODULE QuoteFeed -------------------------------
(***************************************************************************)
(* What the hub promises its receivers, with no queue, no forwarder and no *)
(* ring: one growing feed on which a source's messages appear in the order *)
(* they were offered, messages of one source and symbol are accepted at    *)
(* least Window apart, nothing appears that was not offered, no symbol     *)
(* that was offered stays silent, and readers only move forward, possibly  *)
(* over messages they never see.                                           *)
(***************************************************************************)
EXTENDS Integers, Sequences

CONSTANTS
  Sources, Symbols, Receivers,
  Window,   \* least distance of two accepted messages of one key
  MaxEmit   \* bound: messages one source offers

VARIABLES clock, offered, feed, position

vars == <<clock, offered, feed, position>>

SameKey(m, n) == m.src = n.src /\ m.sym = n.sym

Init ==
  /\ clock = 0
  /\ offered = {}
  /\ feed = <<>>
  /\ position \in [Receivers -> {0, 1}]

Tick == clock' = clock + 1 /\ UNCHANGED <<offered, feed, position>>

\* A new message follows all earlier ones of its source.
Offer(m) ==
  /\ \A o \in offered : o.src = m.src => o.seq < m.seq
  /\ offered' = offered \union {m}
  /\ UNCHANGED <<clock, feed, position>>

Publish(m, t) ==
  /\ \A i \in DOMAIN feed :
       /\ feed[i].msg.src = m.src => feed[i].msg.seq < m.seq
       /\ SameKey(feed[i].msg, m) => t >= feed[i].at + Window
  /\ feed' = Append(feed, [msg |-> m, at |-> t])
  /\ UNCHANGED <<clock, offered, position>>

Join(r) ==
  /\ position[r] = 0
  /\ position' = [position EXCEPT ![r] = Len(feed) + 1]
  /\ UNCHANGED <<clock, offered, feed>>

Leave(r) ==
  /\ position' = [position EXCEPT ![r] = 0]
  /\ UNCHANGED <<clock, offered, feed>>

Read(r, p) ==
  /\ position[r] # 0
  /\ position[r] < p
  /\ position' = [position EXCEPT ![r] = p]
  /\ UNCHANGED <<clock, offered, feed>>

Next ==
  \/ Tick
  \/ \E m \in [src : Sources, sym : Symbols, seq : 1 .. MaxEmit] : Offer(m)
  \/ \E m \in offered, t \in 0 .. clock : Publish(m, t)
  \/ \E r \in Receivers :
       \/ Join(r)
       \/ Leave(r)
       \/ \E p \in 1 .. Len(feed) + 1 : Read(r, p)

\* A source and symbol somebody offered eventually shows up on the feed.
NoKeySilent ==
  \A s \in Sources, y \in Symbols :
    (\E m \in offered : m.src = s /\ m.sym = y)
      ~> (\E i \in DOMAIN feed : feed[i].msg.src = s /\ feed[i].msg.sym = y)

SafeSpec == Init /\ [][Next]_vars
Spec == SafeSpec /\ NoKeySilent
=============================================================================
