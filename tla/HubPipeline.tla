------------------------------ MODULE HubPipeline ------------------------------
(***************************************************************************)
(* The path every quote takes inside the process, as main.rs wires it:     *)
(*                                                                         *)
(*   adapters --send().await--> bounded mpsc --recv--> forwarder task      *)
(*            --Hub::publish--> tokio broadcast ring --recv--> receivers   *)
(*                                                                         *)
(* Hub::publish is not atomic: it looks a time stamp up, stores a new one  *)
(* and broadcasts in three separate steps, and time passes between them.   *)
(* A message is the pair of its source and symbol plus its rank in its     *)
(* source's output; prices and volumes are never looked at on this path.   *)
(***************************************************************************)
EXTENDS Integers, Sequences, FiniteSets

CONSTANTS
  Sources,       \* enum Source: Tdx, Tencent
  Symbols,       \* symbol keys, e.g. "SH600000"
  Receivers,     \* holders of a broadcast::Receiver
  Persister,     \* the receiver main.rs creates before any adapter runs
  QueueCap,      \* capacity of the mpsc channel (4096 in main.rs)
  BroadcastCap,  \* capacity of the broadcast ring (8192 in main.rs)
  Window,        \* dedup_window, in clock ticks (5 ms in hub.rs)
  MaxEmit,       \* bound: messages one source produces
  MaxTime        \* bound: clock ticks

ASSUME PipelineAssumption ==
  /\ Persister \in Receivers
  /\ QueueCap \in Nat \ {0}
  /\ BroadcastCap \in Nat \ {0}
  /\ Window \in Nat
  /\ MaxEmit \in Nat
  /\ MaxTime \in Nat

VARIABLES
  now,      \* the monotonic clock behind Instant::now()
  emitted,  \* emitted[s]: how many messages source s has produced
  queue,    \* mpsc contents; what lies past QueueCap is a blocked send().await
  pc,       \* where the forwarder task is inside its loop
  hand,     \* the message the forwarder holds
  latest,   \* Hub::latest
  log,      \* everything ever broadcast, with the stamp it was accepted at
  dropped,  \* messages publish suppressed, with the time of the lookup
  cursor    \* next log position a receiver reads; 0 when it has no receiver

vars == <<now, emitted, queue, pc, hand, latest, log, dropped, cursor>>

Never == -1
Message == [src : Sources, sym : Symbols, seq : Nat \ {0}]
NoMessage == [src |-> "none"]
Entry == [msg : Message, at : Nat]

\* Variant: one window for all sources of a symbol.
KeyWithoutSource(m) == <<CHOOSE s \in Sources : TRUE, m.sym>>

\* The dedup key is source and symbol; the kind of data is not part of it.
Keys == Sources \X Symbols
Key(m) == <<m.src, m.sym>>

Init ==
  /\ now = 0
  /\ emitted = [s \in Sources |-> 0]
  /\ queue = <<>>
  /\ pc = "recv"
  /\ hand = NoMessage
  /\ latest = [k \in Keys |-> Never]
  /\ log = <<>>
  /\ dropped = {}
  /\ cursor = [r \in Receivers |-> IF r = Persister THEN 1 ELSE 0]

Tick ==
  /\ now < MaxTime
  /\ now' = now + 1
  /\ UNCHANGED <<emitted, queue, pc, hand, latest, log, dropped, cursor>>

-----------------------------------------------------------------------------
(* Adapters.  A source sends one message at a time: while its previous     *)
(* send().await waits for a permit it produces nothing.  tokio hands       *)
(* permits out in order, so the waiters are the tail of one FIFO.          *)

Blocked(s) == \E i \in DOMAIN queue : i > QueueCap /\ queue[i].src = s

\* Variant: try_send, which gives up on a full channel.
EmitOrForget(s, sym) ==
  /\ emitted[s] < MaxEmit
  /\ emitted' = [emitted EXCEPT ![s] = @ + 1]
  /\ queue' = IF Len(queue) < QueueCap
                THEN Append(queue, [src |-> s, sym |-> sym, seq |-> emitted[s] + 1])
                ELSE queue
  /\ UNCHANGED <<now, pc, hand, latest, log, dropped, cursor>>

Emit(s, sym) ==
  /\ emitted[s] < MaxEmit
  /\ ~Blocked(s)
  /\ emitted' = [emitted EXCEPT ![s] = @ + 1]
  /\ queue' = Append(queue, [src |-> s, sym |-> sym, seq |-> emitted[s] + 1])
  /\ UNCHANGED <<now, pc, hand, latest, log, dropped, cursor>>

-----------------------------------------------------------------------------
(* The forwarder task: recv, then Hub::publish.                            *)

\* Variant: the newest message first.
RecvNewest ==
  /\ pc = "recv"
  /\ queue # <<>>
  /\ hand' = queue[Len(queue)]
  /\ queue' = SubSeq(queue, 1, Len(queue) - 1)
  /\ pc' = "lookup"
  /\ UNCHANGED <<now, emitted, latest, log, dropped, cursor>>

\* Variant: a new key gets its stamp before it is looked up.
RecvStamping ==
  /\ pc = "recv"
  /\ queue # <<>>
  /\ hand' = Head(queue)
  /\ queue' = Tail(queue)
  /\ pc' = "lookup"
  /\ latest' = [latest EXCEPT ![Key(hand')] = IF @ = Never THEN now ELSE @]
  /\ UNCHANGED <<now, emitted, log, dropped, cursor>>

Recv ==
  /\ pc = "recv"
  /\ queue # <<>>
  /\ hand' = Head(queue)
  /\ queue' = Tail(queue)
  /\ pc' = "lookup"
  /\ UNCHANGED <<now, emitted, latest, log, dropped, cursor>>

\* Variant: one tick short of the window.
FreshTooBriefly(k) == latest[k] # Never /\ now - latest[k] + 1 < Window

\* entry.value().elapsed() < self.dedup_window
Fresh(k) == latest[k] # Never /\ now - latest[k] < Window

Suppress ==
  /\ pc = "lookup"
  /\ Fresh(Key(hand))
  /\ dropped' = dropped \union {[msg |-> hand, at |-> now]}
  /\ hand' = NoMessage
  /\ pc' = "recv"
  /\ UNCHANGED <<now, emitted, queue, latest, log, cursor>>

\* Variant: a first message goes out without a stamp.
PassUnstamped ==
  /\ pc = "lookup"
  /\ ~Fresh(Key(hand))
  /\ pc' = IF latest[Key(hand)] = Never THEN "send" ELSE "insert"
  /\ UNCHANGED <<now, emitted, queue, hand, latest, log, dropped, cursor>>

Pass ==
  /\ pc = "lookup"
  /\ ~Fresh(Key(hand))
  /\ pc' = "insert"
  /\ UNCHANGED <<now, emitted, queue, hand, latest, log, dropped, cursor>>

\* Variant: entry().or_insert(now), which keeps the first stamp for good.
InsertFirst ==
  /\ pc = "insert"
  /\ latest' = [latest EXCEPT ![Key(hand)] = IF @ = Never THEN now ELSE @]
  /\ pc' = "send"
  /\ UNCHANGED <<now, emitted, queue, hand, log, dropped, cursor>>

Insert ==
  /\ pc = "insert"
  /\ latest' = [latest EXCEPT ![Key(hand)] = now]
  /\ pc' = "send"
  /\ UNCHANGED <<now, emitted, queue, hand, log, dropped, cursor>>

\* Variant: a bounded channel that waits for its slowest receiver.
SendWhenAllRead ==
  /\ pc = "send"
  /\ \A r \in Receivers : cursor[r] = 0 \/ Len(log) - cursor[r] + 1 < BroadcastCap
  /\ log' = Append(log, [msg |-> hand, at |-> latest[Key(hand)]])
  /\ hand' = NoMessage
  /\ pc' = "recv"
  /\ UNCHANGED <<now, emitted, queue, latest, dropped, cursor>>

\* The persister's receiver is never dropped, so send always stores the message.
Send ==
  /\ pc = "send"
  /\ log' = Append(log, [msg |-> hand, at |-> latest[Key(hand)]])
  /\ hand' = NoMessage
  /\ pc' = "recv"
  /\ UNCHANGED <<now, emitted, queue, latest, dropped, cursor>>

Forwarder == Recv \/ Suppress \/ Pass \/ Insert \/ Send

-----------------------------------------------------------------------------
(* Receivers.  The ring keeps the last BroadcastCap messages; a receiver   *)
(* that fell behind gets Lagged once and continues at the oldest one kept. *)

Oldest == IF Len(log) > BroadcastCap THEN Len(log) - BroadcastCap + 1 ELSE 1

Subscribe(r) ==
  /\ cursor[r] = 0
  /\ cursor' = [cursor EXCEPT ![r] = Len(log) + 1]
  /\ UNCHANGED <<now, emitted, queue, pc, hand, latest, log, dropped>>

Unsubscribe(r) ==
  /\ r # Persister
  /\ cursor[r] # 0
  /\ cursor' = [cursor EXCEPT ![r] = 0]
  /\ UNCHANGED <<now, emitted, queue, pc, hand, latest, log, dropped>>

Receive(r) ==
  /\ cursor[r] \in 1 .. Len(log)
  /\ cursor' = [cursor EXCEPT ![r] = IF @ < Oldest THEN Oldest ELSE @ + 1]
  /\ UNCHANGED <<now, emitted, queue, pc, hand, latest, log, dropped>>

-----------------------------------------------------------------------------
Next ==
  \/ Tick
  \/ \E s \in Sources, sym \in Symbols : Emit(s, sym)
  \/ Forwarder
  \/ \E r \in Receivers : Subscribe(r) \/ Unsubscribe(r) \/ Receive(r)

\* The forwarder is a spawned task that the runtime polls for as long as the
\* process lives.  Nothing is assumed of adapters, clock, persister or clients.
Fairness == WF_vars(Forwarder)

Spec == Init /\ [][Next]_vars /\ Fairness

-----------------------------------------------------------------------------
TypeOK ==
  /\ now \in 0 .. MaxTime
  /\ emitted \in [Sources -> 0 .. MaxEmit]
  /\ queue \in Seq(Message)
  /\ pc \in {"recv", "lookup", "insert", "send"}
  /\ IF pc = "recv" THEN hand = NoMessage ELSE hand \in Message
  /\ latest \in [Keys -> Nat \union {Never}]
  /\ pc = "send" => latest[Key(hand)] \in Nat
  /\ log \in Seq(Entry)
  /\ dropped \subseteq Entry
  /\ cursor \in [Receivers -> Nat]

\* hub.rs:28-34: what is broadcast for one source and symbol was accepted at
\* instants at least one dedup window apart, although lookup, insert and send
\* are separate steps with time passing between them.
SpacedFeed ==
  \A i, j \in DOMAIN log :
    i < j /\ Key(log[i].msg) = Key(log[j].msg)
      => log[j].at >= log[i].at + Window

\* Receivers see the messages of one source in the order the source produced
\* them and none of them twice (main.rs:40-44 keeps the mpsc order).
SourceOrder ==
  \A i, j \in DOMAIN log :
    i < j /\ log[i].msg.src = log[j].msg.src
      => log[i].msg.seq < log[j].msg.seq

\* Where the message number n of source s is.
Reached(s, n) ==
  \/ \E i \in DOMAIN log : log[i].msg.src = s /\ log[i].msg.seq = n
  \/ \E d \in dropped : d.msg.src = s /\ d.msg.seq = n
InFlight(s, n) ==
  \/ \E i \in DOMAIN queue : queue[i].src = s /\ queue[i].seq = n
  \/ pc # "recv" /\ hand.src = s /\ hand.seq = n

\* A full mpsc channel makes the adapter wait, it loses nothing: each message
\* is still in flight, or was broadcast, or was suppressed, never two of these.
Accounted ==
  /\ \A s \in Sources, n \in 1 .. MaxEmit :
       n <= emitted[s] => (Reached(s, n) # InFlight(s, n))
  /\ \A d \in dropped, i \in DOMAIN log : d.msg # log[i].msg

\* hub.rs:29-33: a message is suppressed only when an older message of the same
\* source and symbol has already been broadcast, less than a window ago; a
\* suppressed update never leaves a symbol unheard and never cascades.
SuppressedIsCovered ==
  \A d \in dropped : \E i \in DOMAIN log :
    /\ Key(log[i].msg) = Key(d.msg)
    /\ log[i].msg.seq < d.msg.seq
    /\ d.at < log[i].at + Window

\* However slow the receivers are, and with no help from the clock, every
\* message an adapter produced is eventually broadcast or suppressed: the
\* broadcast ring overwrites, so receivers exert no backpressure.
EventuallyDecided ==
  \A s \in Sources, n \in 1 .. MaxEmit : emitted[s] >= n ~> Reached(s, n)

-----------------------------------------------------------------------------
(* The inductive invariant behind the safety properties above.             *)

Before(m, n) == m.src = n.src => m.seq < n.seq

\* Log and suppressed messages precede the forwarder's message, which precedes
\* the queue, which is sorted; nobody is ahead of its source's count.
PathOrder ==
  /\ \A i, j \in DOMAIN queue : i < j => Before(queue[i], queue[j])
  /\ \A j \in DOMAIN queue :
       /\ queue[j].seq <= emitted[queue[j].src]
       /\ pc # "recv" => Before(hand, queue[j])
       /\ \A i \in DOMAIN log : Before(log[i].msg, queue[j])
       /\ \A d \in dropped : Before(d.msg, queue[j])
  /\ pc # "recv" =>
       /\ hand.seq <= emitted[hand.src]
       /\ \A i \in DOMAIN log : Before(log[i].msg, hand)
       /\ \A d \in dropped : Before(d.msg, hand)
  /\ \A i \in DOMAIN log : log[i].msg.seq <= emitted[log[i].msg.src]
  /\ \A d \in dropped : d.msg.seq <= emitted[d.msg.src]
  /\ SourceOrder
  /\ \A d \in dropped, i \in DOMAIN log : d.msg # log[i].msg

\* latest holds the stamp of the newest broadcast of a key, except between
\* insert and send, when it runs ahead of the log by at least a window.
StampOrder ==
  /\ \A k \in Keys : latest[k] <= now
  /\ \A i \in DOMAIN log : log[i].at <= latest[Key(log[i].msg)]
  /\ pc = "insert" => ~Fresh(Key(hand))
  /\ pc = "send" =>
       \A i \in DOMAIN log :
         Key(log[i].msg) = Key(hand) => log[i].at + Window <= latest[Key(hand)]
  /\ SpacedFeed

\* Every stamp but the one about to be sent belongs to a message of the log.
StampsBroadcast ==
  /\ \A k \in Keys :
       latest[k] # Never /\ ~(pc = "send" /\ Key(hand) = k)
         => \E i \in DOMAIN log : Key(log[i].msg) = k /\ log[i].at = latest[k]
  /\ SuppressedIsCovered

NothingLost ==
  \A s \in Sources, n \in 1 .. MaxEmit :
    n <= emitted[s] => Reached(s, n) \/ InFlight(s, n)

\* The four parts are preserved together with TypeOK by every step.
PipelineInv == PathOrder /\ StampOrder /\ StampsBroadcast /\ NothingLost

-----------------------------------------------------------------------------
(* Refinement.                                                             *)

\* Everything the sources produced, wherever it is by now.
Offered ==
  {queue[i] : i \in DOMAIN queue}
    \union (IF pc = "recv" THEN {} ELSE {hand})
    \union {log[i].msg : i \in DOMAIN log}
    \union {d.msg : d \in dropped}

Feed == INSTANCE QuoteFeed
  WITH clock <- now, offered <- Offered, feed <- log, position <- cursor

\* The pipeline implements the feed its receivers rely on: queue, forwarder
\* and ring only delay, suppress and skip; none of them reorders, repeats,
\* invents or silences (main.rs:36-44, hub.rs:25-36).
ImplementsQuoteFeed == Feed!Spec
=============================================================================
