------------------------------ MODULE TcpSession -------------------------------
(***************************************************************************)
(* One TCP client of the quote server: two tasks share a subscription set  *)
(* and the write half of a socket.  send_loop filters the broadcast and    *)
(* writes DEPTH frames; recv_loop serves SUB, UNSUB and PING.  Each frame  *)
(* goes out in two parts, because write_all may suspend half way while it  *)
(* holds the writer lock.  The feed is the hub's broadcast as this session *)
(* sees it; its ring keeps BroadcastCap messages.                          *)
(***************************************************************************)
EXTENDS Integers, Sequences

CONSTANTS
  Symbols,
  BroadcastCap,  \* messages the broadcast ring keeps
  SocketCap,     \* frame parts the socket takes before the client reads
  MaxFeed,       \* bound: messages broadcast
  MaxRequests    \* bound: frames the client sends

ASSUME SessionAssumption ==
  /\ BroadcastCap \in Nat \ {0}
  /\ SocketCap \in Nat \ {0}
  /\ MaxFeed \in Nat
  /\ MaxRequests \in Nat

VARIABLES
  feed,      \* what the hub broadcast since the session was accepted
  cursor,    \* next feed position of the session's receiver
  subs,      \* TcpSession::subs
  pc,        \* where the two tasks are
  held,      \* feed position of the message send_loop works on
  open,      \* is_subscribed let it through because subs was empty
  lockq,     \* tokio's fair writer mutex: the holder, then the waiter
  parts,     \* parts of its current frame a task has written
  wire,      \* all parts written to the socket
  consumed,  \* how many of them the client has read
  inbox,     \* frames the client sent and recv_loop has not read
  requests,  \* how many frames the client has sent
  peer,      \* the client's end: "open", "closed", "reset" once a write failed
  ended,     \* run() returned
  lost,      \* history: feed positions skipped by Lagged
  changed    \* history: last request on a symbol, the feed length then, and
             \* whether the symbol was subscribed before it

vars == <<feed, cursor, subs, pc, held, open, lockq, parts, wire, consumed,
          inbox, requests, peer, ended, lost, changed>>
client == <<consumed, inbox, requests, peer>>
history == <<lost, changed>>

Tasks == {"send", "recv"}
FrameParts == 2
Message == [sym : Symbols, kind : {"depth", "other"}]

\* A SUB or UNSUB payload is a comma separated list; "other" stands for the
\* message types recv_loop ignores, "bad" for a header or length read_frame
\* refuses.
Request ==
  [type : {"SUB", "UNSUB"}, syms : SUBSET Symbols \ {{}}]
    \union [type : {"PING", "other", "bad"}, syms : {{}}]

Init ==
  /\ feed = <<>>
  /\ cursor = 1
  /\ subs = {}
  /\ pc = [t \in Tasks |-> "wait"]
  /\ held = 0
  /\ open = FALSE
  /\ lockq = <<>>
  /\ parts = [t \in Tasks |-> 0]
  /\ wire = <<>>
  /\ consumed = 0
  /\ inbox = <<>>
  /\ requests = 0
  /\ peer = "open"
  /\ ended = FALSE
  /\ lost = {}
  /\ changed = [s \in Symbols |-> [type |-> "none", at |-> 0, was |-> FALSE]]

-----------------------------------------------------------------------------
(* The hub and the client.                                                 *)

Publish(m) ==
  /\ ~ended
  /\ Len(feed) < MaxFeed
  /\ feed' = Append(feed, m)
  /\ UNCHANGED <<cursor, subs, pc, held, open, lockq, parts, wire, ended>>
  /\ UNCHANGED <<client, history>>

ClientSends(r) ==
  /\ ~ended
  /\ peer = "open"
  /\ requests < MaxRequests
  /\ inbox' = Append(inbox, r)
  /\ requests' = requests + 1
  /\ UNCHANGED <<feed, cursor, subs, pc, held, open, lockq, parts, wire>>
  /\ UNCHANGED <<consumed, peer, ended, history>>

ClientReads ==
  /\ ~ended
  /\ peer = "open"
  /\ consumed < Len(wire)
  /\ consumed' = consumed + 1
  /\ UNCHANGED <<feed, cursor, subs, pc, held, open, lockq, parts, wire>>
  /\ UNCHANGED <<inbox, requests, peer, ended, history>>

ClientCloses ==
  /\ ~ended
  /\ peer = "open"
  /\ peer' = "closed"
  /\ UNCHANGED <<feed, cursor, subs, pc, held, open, lockq, parts, wire>>
  /\ UNCHANGED <<consumed, inbox, requests, ended, history>>

-----------------------------------------------------------------------------
(* send_loop.                                                              *)

Oldest == IF Len(feed) > BroadcastCap THEN Len(feed) - BroadcastCap + 1 ELSE 1

\* Variant: jump to the newest message instead of reading in turn.
NextMessageNewest ==
  /\ pc["send"] = "wait"
  /\ cursor <= Len(feed)
  /\ cursor' = cursor + 1
  /\ held' = Len(feed)
  /\ pc' = [pc EXCEPT !["send"] = "check"]
  /\ UNCHANGED <<feed, subs, open, lockq, parts, wire, ended, client, history>>

\* rx.recv(): the next message, or Lagged, which is only logged.
NextMessage ==
  /\ pc["send"] = "wait"
  /\ cursor <= Len(feed)
  /\ IF cursor < Oldest
     THEN /\ cursor' = Oldest
          /\ lost' = lost \union cursor .. Oldest - 1
          /\ UNCHANGED <<pc, held>>
     ELSE /\ cursor' = cursor + 1
          /\ held' = cursor
          /\ pc' = [pc EXCEPT !["send"] = "check"]
          /\ UNCHANGED lost
  /\ UNCHANGED <<feed, subs, open, lockq, parts, wire, ended, client, changed>>

\* subs.is_empty() || subs.contains(&msg.symbol_key())
IsSubscribed(m) == subs = {} \/ m.sym \in subs

\* The subs lock is free again when send_loop queues for the writer lock.
Filter ==
  /\ pc["send"] = "check"
  /\ IF IsSubscribed(feed[held]) /\ feed[held].kind = "depth"
     THEN /\ pc' = [pc EXCEPT !["send"] = "write"]
          /\ lockq' = Append(lockq, "send")
          /\ open' = (subs = {})
     ELSE /\ pc' = [pc EXCEPT !["send"] = "wait"]
          /\ UNCHANGED <<lockq, open>>
  /\ UNCHANGED <<feed, cursor, subs, held, parts, wire, ended, client, history>>

-----------------------------------------------------------------------------
(* recv_loop.                                                              *)

Noted(r) ==
  changed' = [s \in Symbols |->
                IF s \in r.syms
                THEN [type |-> r.type, at |-> Len(feed), was |-> s \in subs]
                ELSE changed[s]]

\* Variants: SUB replaces the set; UNSUB takes its whole text as one name.
ReplaceSubscriptions(r) == subs' = r.syms
RemoveWholeText(r) == subs' = IF r.syms = subs THEN {} ELSE subs
AddSubscriptions(r) == subs' = subs \union r.syms
RemoveSubscriptions(r) == subs' = subs \ r.syms

HandleFrame ==
  /\ pc["recv"] = "wait"
  /\ inbox # <<>>
  /\ inbox' = Tail(inbox)
  /\ LET r == Head(inbox) IN
       \/ /\ r.type = "PING"
          /\ pc' = [pc EXCEPT !["recv"] = "write"]
          /\ lockq' = Append(lockq, "recv")
          /\ UNCHANGED <<subs, changed>>
       \/ /\ r.type = "SUB"
          /\ AddSubscriptions(r) /\ Noted(r)
          /\ UNCHANGED <<pc, lockq>>
       \/ /\ r.type = "UNSUB"
          /\ RemoveSubscriptions(r) /\ Noted(r)
          /\ UNCHANGED <<pc, lockq>>
       \/ /\ r.type = "other"
          /\ UNCHANGED <<subs, changed, pc, lockq>>
       \/ /\ r.type = "bad"
          /\ pc' = [pc EXCEPT !["recv"] = "done"]
          /\ UNCHANGED <<subs, changed, lockq>>
  /\ UNCHANGED <<feed, cursor, held, open, parts, wire, consumed, requests>>
  /\ UNCHANGED <<peer, ended, lost>>

\* End of stream, or a reset that discards what was not read yet.
ReadFails ==
  /\ pc["recv"] = "wait"
  /\ peer # "open"
  /\ pc' = [pc EXCEPT !["recv"] = "done"]
  /\ UNCHANGED <<feed, cursor, subs, held, open, lockq, parts, wire, ended>>
  /\ UNCHANGED <<client, history>>

-----------------------------------------------------------------------------
(* Writing, the same for both tasks.                                       *)

FrameOf(t) ==
  IF t = "send" THEN [type |-> "DEPTH", pos |-> held, open |-> open]
                ELSE [type |-> "PONG", pos |-> 0, open |-> FALSE]

HasLock(t) == lockq # <<>> /\ Head(lockq) = t

\* Variants: the lock is taken anew for each part; it is never given back by
\* send_loop; the count of written parts is not reset.
WritePartLockEach(t) ==
  /\ pc[t] = "write"
  /\ HasLock(t)
  /\ peer # "reset"
  /\ Len(wire) - consumed < SocketCap
  /\ wire' = Append(wire, [frame |-> FrameOf(t), part |-> parts[t] + 1])
  /\ parts' = [parts EXCEPT ![t] = (@ + 1) % FrameParts]
  /\ lockq' = IF parts'[t] = 0 THEN Tail(lockq) ELSE Append(Tail(lockq), t)
  /\ pc' = [pc EXCEPT ![t] = IF parts'[t] = 0 THEN "wait" ELSE @]
  /\ UNCHANGED <<feed, cursor, subs, held, open, ended, client, history>>

WritePartKeepLock(t) ==
  /\ pc[t] = "write"
  /\ HasLock(t)
  /\ peer # "reset"
  /\ Len(wire) - consumed < SocketCap
  /\ wire' = Append(wire, [frame |-> FrameOf(t), part |-> parts[t] + 1])
  /\ parts' = [parts EXCEPT ![t] = (@ + 1) % FrameParts]
  /\ lockq' = IF parts'[t] = 0 /\ t = "recv" THEN Tail(lockq) ELSE lockq
  /\ pc' = [pc EXCEPT ![t] = IF parts'[t] = 0 THEN "wait" ELSE @]
  /\ UNCHANGED <<feed, cursor, subs, held, open, ended, client, history>>

WritePartNoReset(t) ==
  /\ pc[t] = "write"
  /\ HasLock(t)
  /\ peer # "reset"
  /\ Len(wire) - consumed < SocketCap
  /\ wire' = Append(wire, [frame |-> FrameOf(t), part |-> parts[t] + 1])
  /\ parts' = [parts EXCEPT ![t] = @ + 1]
  /\ lockq' = IF parts'[t] = FrameParts THEN Tail(lockq) ELSE lockq
  /\ pc' = [pc EXCEPT ![t] = IF parts'[t] = FrameParts THEN "wait" ELSE @]
  /\ UNCHANGED <<feed, cursor, subs, held, open, ended, client, history>>

\* The kernel takes another part; the last one ends write_all and the lock.
WritePart(t) ==
  /\ pc[t] = "write"
  /\ HasLock(t)
  /\ peer # "reset"
  /\ Len(wire) - consumed < SocketCap
  /\ wire' = Append(wire, [frame |-> FrameOf(t), part |-> parts[t] + 1])
  /\ IF parts[t] + 1 = FrameParts
     THEN /\ parts' = [parts EXCEPT ![t] = 0]
          /\ lockq' = Tail(lockq)
          /\ pc' = [pc EXCEPT ![t] = "wait"]
     ELSE /\ parts' = [parts EXCEPT ![t] = @ + 1]
          /\ UNCHANGED <<lockq, pc>>
  /\ UNCHANGED <<feed, cursor, subs, held, open, ended, client, history>>

WriteFails(t) ==
  /\ pc[t] = "write"
  /\ HasLock(t)
  /\ peer # "open"
  /\ peer' = "reset"
  /\ lockq' = Tail(lockq)
  /\ pc' = [pc EXCEPT ![t] = "done"]
  /\ UNCHANGED <<feed, cursor, subs, held, open, parts, wire, ended>>
  /\ UNCHANGED <<consumed, inbox, requests, history>>

-----------------------------------------------------------------------------
\* Variant: join!, which waits for both tasks.
EndJoined ==
  /\ ~ended
  /\ \A t \in Tasks : pc[t] = "done"
  /\ ended' = TRUE
  /\ UNCHANGED <<feed, cursor, subs, pc, held, open, lockq, parts, wire>>
  /\ UNCHANGED <<client, history>>

\* select!: one task finished, the other is aborted at its next await.
End ==
  /\ ~ended
  /\ \E t \in Tasks : pc[t] = "done"
  /\ ended' = TRUE
  /\ pc' = [t \in Tasks |-> "done"]
  /\ lockq' = <<>>
  /\ UNCHANGED <<feed, cursor, subs, held, open, parts, wire, client, history>>

SendLoop == NextMessage \/ Filter \/ WritePart("send") \/ WriteFails("send")
RecvLoop == HandleFrame \/ ReadFails \/ WritePart("recv") \/ WriteFails("recv")

Next ==
  \/ \E m \in Message : Publish(m)
  \/ \E r \in Request : ClientSends(r)
  \/ ClientReads
  \/ ClientCloses
  \/ SendLoop
  \/ RecvLoop
  \/ End

\* Spawned tasks are polled whenever they can go on; the client owes nothing.
Fairness == WF_vars(SendLoop) /\ WF_vars(RecvLoop) /\ WF_vars(End)

Spec == Init /\ [][Next]_vars /\ Fairness

-----------------------------------------------------------------------------
Frame == [type : {"DEPTH", "PONG"}, pos : Nat, open : BOOLEAN]

TypeOK ==
  /\ feed \in Seq(Message)
  /\ cursor \in 1 .. MaxFeed + 1
  /\ subs \subseteq Symbols
  /\ pc \in [Tasks -> {"wait", "check", "write", "done"}]
  /\ held \in 0 .. Len(feed)
  /\ open \in BOOLEAN
  /\ lockq \in {<<>>, <<"send">>, <<"recv">>, <<"send", "recv">>, <<"recv", "send">>}
  /\ parts \in [Tasks -> 0 .. FrameParts - 1]
  /\ wire \in Seq([frame : Frame, part : 1 .. FrameParts])
  /\ consumed \in 0 .. Len(wire)
  /\ inbox \in Seq(Request)
  /\ requests \in 0 .. MaxRequests
  /\ peer \in {"open", "closed", "reset"}
  /\ ended \in BOOLEAN
  /\ lost \subseteq 1 .. MaxFeed
  /\ changed \in [Symbols -> [type : {"none", "SUB", "UNSUB"}, at : Nat, was : BOOLEAN]]

\* session.rs:62,83: PONG and DEPTH never interleave on the socket: its bytes
\* are whole frames one after the other, at most the last one cut short.
FramesWhole ==
  \A i \in DOMAIN wire :
    IF i % FrameParts = 1
    THEN wire[i].part = 1
    ELSE wire[i] = [frame |-> wire[i - 1].frame, part |-> FrameParts]

DepthParts == {i \in DOMAIN wire : wire[i].frame.type = "DEPTH" /\ wire[i].part = 1}

Phase ==
  CASE pc["send"] = "wait"  -> "idle"
    [] pc["send"] = "check" -> "read"
    [] pc["send"] = "write" -> "kept"
    [] pc["send"] = "done"  -> "lost"

WholeFrames ==
  [i \in 1 .. Len(wire) \div FrameParts |->
     [type |-> wire[i * FrameParts].frame.type, pos |-> wire[i * FrameParts].frame.pos]]

\* Two tasks, a shared set, a lock and writes that suspend look to the client like
\* one actor that sends whole frames: quotes in broadcast order, none twice, each
\* matched by the subscriptions at one moment, and one PONG for each PING.
Stream ==
  INSTANCE ClientStream WITH
    position <- held,
    phase <- Phase,
    pinged <- pc["recv"] = "write",
    frames <- WholeFrames,
    gone <- ended

ImplementsClientStream == Stream!Spec

\* session.rs:50-53 against 87-88: once UNSUB of a symbol was handled, nothing
\* broadcast later for it is pushed while other symbols stay subscribed, though
\* filter, lock and write are separate steps of another task.
SilentAfterUnsub ==
  \A i \in DepthParts :
    LET f == wire[i].frame
        c == changed[feed[f.pos].sym]
    IN  c.type = "UNSUB" /\ f.pos > c.at => f.open

\* docs/fastquote-protocol-spec.md:101-102: after Unsub a symbol that was
\* subscribed is not pushed any more.  session.rs:134 lets an empty set match
\* everything, so the Unsub of the last one does not silence it.
UnsubMeansSilence ==
  \A i \in DepthParts :
    LET c == changed[feed[wire[i].frame.pos].sym]
    IN  c.type = "UNSUB" /\ c.was => wire[i].frame.pos <= c.at

\* A subscribed symbol misses nothing but what the ring overwrote: what was
\* broadcast after its SUB is on the wire, in send_loop's hands, ahead of the
\* receiver, or was reported as lag.
SubscribedGetsAll ==
  pc["send"] # "done" =>
    \A p \in 1 .. cursor - 1 :
      LET c == changed[feed[p].sym] IN
        c.type = "SUB" /\ p > c.at /\ feed[p].kind = "depth"
          => \/ p \in lost
             \/ p = held
             \/ \E i \in DepthParts : wire[i].frame.pos = p

\* A client that goes away takes its session with it, whatever the two tasks
\* were waiting for: the next frame, the writer lock or a full socket.
CloseEndsSession == peer # "open" ~> ended

Pongs == {i \in DOMAIN wire : wire[i].frame.type = "PONG" /\ wire[i].part = FrameParts}

\* A client that goes on reading gets its PING answered, or the session ends:
\* send_loop cannot keep recv_loop from the writer lock.
PingAnswered ==
  []<>(consumed = Len(wire) \/ peer # "open")
    => (pc["recv"] = "write" ~> pc["recv"] # "write")
=============================================================================
