--------------------------- MODULE TcpSession_proofs ---------------------------
(***************************************************************************)
(* Proofs about TcpSession for every set of symbols, ring and socket       *)
(* capacity and bound.                                                     *)
(***************************************************************************)
EXTENDS TcpSession, SequenceTheorems, TLAPS

USE SessionAssumption DEF SessionAssumption

-----------------------------------------------------------------------------
(* Type correctness.                                                       *)

LockQueues == {<<>>, <<"send">>, <<"recv">>, <<"send", "recv">>, <<"recv", "send">>}

\* A task queues for the writer lock when it starts to write and leaves the
\* queue when it stops; once run() returned neither task does anything.
Queued(q, t) == q \in {<<t>>, <<"send", "recv">>, <<"recv", "send">>}

LockDiscipline ==
  /\ \A t \in Tasks : pc[t] = "write" <=> Queued(lockq, t)
  /\ ended => \A t \in Tasks : pc[t] = "done"

Typed ==
  /\ TypeOK
  /\ LockDiscipline
  /\ Len(feed) <= MaxFeed

\* Queues of at most two tasks.
LEMMA ShortQueues ==
  ASSUME NEW x, NEW y
  PROVE  /\ Append(<<>>, x) = <<x>>
         /\ Append(<<y>>, x) = <<y, x>>
         /\ Tail(<<x>>) = <<>> /\ Head(<<x>>) = x
         /\ Tail(<<x, y>>) = <<y>> /\ Head(<<x, y>>) = x
         /\ <<x>> # <<>> /\ <<x, y>> # <<>> /\ <<x, y>> # <<x>> /\ <<x, y>> # <<y>>
<1>1. Append(<<>>, x) = <<x>>
  OBVIOUS
<1>2. Append(<<y>>, x) = <<y, x>>
  <2> DEFINE a == Append(<<y>>, x)
             b == <<y, x>>
  <2>1. a \in Seq({x, y}) /\ b \in Seq({x, y})
    OBVIOUS
  <2>2. Len(a) = 2 /\ Len(b) = 2 /\ a[1] = y /\ b[1] = y /\ a[2] = x /\ b[2] = x
    OBVIOUS
  <2>3. \A i \in 1 .. Len(a) : a[i] = b[i]
    BY <2>2
  <2> HIDE DEF a, b
  <2>4. a = b
    BY <2>1, <2>2, <2>3, SeqEqual
  <2> QED BY <2>4 DEF a, b
<1>3. Tail(<<x>>) = <<>> /\ Head(<<x>>) = x
  OBVIOUS
<1>4. Tail(<<x, y>>) = <<y>> /\ Head(<<x, y>>) = x
  OBVIOUS
<1>5. <<x>> # <<>> /\ <<x, y>> # <<>> /\ <<x, y>> # <<x>> /\ <<x, y>> # <<y>>
  OBVIOUS
<1> QED BY <1>1, <1>2, <1>3, <1>4, <1>5

\* Only the task itself is added when it queues.
LEMMA QueueAppend ==
  ASSUME NEW q \in LockQueues, NEW t \in Tasks, ~Queued(q, t)
  PROVE  /\ Append(q, t) \in LockQueues
         /\ Append(q, t) # <<>>
         /\ q # <<>> => Head(Append(q, t)) = Head(q)
         /\ \A u \in Tasks : Queued(Append(q, t), u) <=> u = t \/ Queued(q, u)
<1>1. CASE q = <<>> /\ t = "send"
  BY <1>1, ShortQueues DEF Queued, LockQueues, Tasks
<1>2. CASE q = <<>> /\ t = "recv"
  BY <1>2, ShortQueues DEF Queued, LockQueues, Tasks
<1>3. CASE q = <<"recv">> /\ t = "send"
  BY <1>3, ShortQueues DEF Queued, LockQueues, Tasks
<1>4. CASE q = <<"send">> /\ t = "recv"
  BY <1>4, ShortQueues DEF Queued, LockQueues, Tasks
<1> QED BY <1>1, <1>2, <1>3, <1>4 DEF Queued, LockQueues, Tasks

\* Only the holder leaves when the lock is given back.
LEMMA QueueTail ==
  ASSUME NEW q \in LockQueues, q # <<>>
  PROVE  /\ Tail(q) \in LockQueues
         /\ Head(q) \in Tasks
         /\ Queued(q, Head(q))
         /\ \A u \in Tasks : Queued(Tail(q), u) <=> u # Head(q) /\ Queued(q, u)
<1>1. CASE q = <<"send">>
  BY <1>1, ShortQueues DEF Queued, LockQueues, Tasks
<1>2. CASE q = <<"recv">>
  BY <1>2, ShortQueues DEF Queued, LockQueues, Tasks
<1>3. CASE q = <<"send", "recv">>
  BY <1>3, ShortQueues DEF Queued, LockQueues, Tasks
<1>4. CASE q = <<"recv", "send">>
  BY <1>4, ShortQueues DEF Queued, LockQueues, Tasks
<1> QED BY <1>1, <1>2, <1>3, <1>4 DEF LockQueues

LEMMA NoneQueued == \A t \in Tasks : ~Queued(<<>>, t)
BY ShortQueues DEF Queued
LEMMA TypedInit == Init => Typed
<1> SUFFICES ASSUME Init PROVE Typed
  OBVIOUS
<1>1. TypeOK
  <2>1. feed \in Seq(Message) /\ wire \in Seq([frame : Frame, part : 1 .. FrameParts])
        /\ inbox \in Seq(Request)
    BY DEF Init
  <2>2. parts \in [Tasks -> 0 .. FrameParts - 1]
    BY DEF Init, FrameParts
  <2>3. changed \in [Symbols -> [type : {"none", "SUB", "UNSUB"}, at : Nat, was : BOOLEAN]]
    BY DEF Init
  <2>4. lockq \in {<<>>, <<"send">>, <<"recv">>, <<"send", "recv">>, <<"recv", "send">>}
        /\ pc \in [Tasks -> {"wait", "check", "write", "done"}]
    BY DEF Init
  <2>5. held \in 0 .. Len(feed) /\ consumed \in 0 .. Len(wire)
    BY DEF Init
  <2>6. /\ cursor \in 1 .. MaxFeed + 1 /\ requests \in 0 .. MaxRequests
        /\ subs \subseteq Symbols /\ lost \subseteq 1 .. MaxFeed
    BY DEF Init
  <2>7. open \in BOOLEAN /\ ended \in BOOLEAN /\ peer \in {"open", "closed", "reset"}
    BY DEF Init
  <2> QED BY <2>1, <2>2, <2>3, <2>4, <2>5, <2>6, <2>7 DEF TypeOK
<1>2. LockDiscipline
  BY NoneQueued DEF Init, LockDiscipline
<1> QED BY <1>1, <1>2 DEF Init, Typed

\* What the tasks write are frames.
LEMMA PartType ==
  ASSUME TypeOK, NEW t \in Tasks
  PROVE  [frame |-> FrameOf(t), part |-> parts[t] + 1] \in [frame : Frame, part : 1 .. FrameParts]
<1>1. parts[t] \in 0 .. 1
  BY DEF TypeOK, FrameParts
<1>2. parts[t] + 1 \in 1 .. FrameParts
  BY <1>1 DEF FrameParts
<1>3. FrameOf(t) \in Frame
  BY DEF TypeOK, FrameOf, Frame
<1> QED BY <1>2, <1>3

LEMMA RequestType ==
  ASSUME NEW r \in Request
  PROVE  r.syms \subseteq Symbols /\ r.type \in {"SUB", "UNSUB", "PING", "other", "bad"}
BY DEF Request

\* Starting to write keeps the lock discipline.
LEMMA QueuesUp ==
  ASSUME Typed, NEW t \in Tasks, pc[t] # "write", ~ended,
         pc' = [pc EXCEPT ![t] = "write"], lockq' = Append(lockq, t), ended' = ended
  PROVE  lockq' \in LockQueues /\ LockDiscipline'
<1>1. lockq \in LockQueues /\ ~Queued(lockq, t)
  BY DEF Typed, TypeOK, LockQueues, LockDiscipline
<1> QED BY <1>1, QueueAppend DEF Typed, TypeOK, LockDiscipline

\* So does stopping to write while holding the lock.
LEMMA GivesBack ==
  ASSUME Typed, NEW t \in Tasks, HasLock(t), NEW x \in {"wait", "done"}, ~ended,
         pc' = [pc EXCEPT ![t] = x], lockq' = Tail(lockq), ended' = ended
  PROVE  lockq' \in LockQueues /\ LockDiscipline'
<1>1. lockq \in LockQueues
  BY DEF Typed, TypeOK, LockQueues
<1> QED BY <1>1, QueueTail DEF Typed, TypeOK, LockDiscipline, HasLock

\* Any other move of a task leaves the queue alone.
LEMMA MovesOn ==
  ASSUME Typed, NEW t \in Tasks, pc[t] # "write", ~ended,
         NEW x \in {"wait", "check", "done"},
         pc' = [pc EXCEPT ![t] = x], lockq' = lockq, ended' = ended
  PROVE  LockDiscipline'
BY DEF Typed, TypeOK, LockDiscipline

\* Every step of the hub, the client and the two tasks keeps the types and the
\* lock discipline.
LEMMA TypedStep == Typed /\ [Next]_vars => Typed'
<1> SUFFICES ASSUME Typed, [Next]_vars PROVE Typed'
  OBVIOUS
<1> USE DEF Typed, TypeOK
<1>t. "send" \in Tasks /\ "recv" \in Tasks
  BY DEF Tasks
<1>q. UNCHANGED <<pc, lockq, ended>> => LockDiscipline'
  BY DEF LockDiscipline
<1>1. ASSUME NEW m \in Message, Publish(m) PROVE Typed'
  <2>1. feed' \in Seq(Message) /\ Len(feed') = Len(feed) + 1
    BY <1>1 DEF Publish
  <2> QED BY <1>1, <1>q, <2>1 DEF Publish, client, history
<1>2. ASSUME NEW r \in Request, ClientSends(r) PROVE Typed'
  BY <1>2, <1>q DEF ClientSends, history
<1>3. CASE ClientReads
  BY <1>3, <1>q DEF ClientReads, history
<1>4. CASE ClientCloses
  BY <1>4, <1>q DEF ClientCloses, history
<1>5. CASE NextMessage
  <2>1. Oldest \in 1 .. Len(feed)
    BY <1>5 DEF NextMessage, Oldest
  <2>2. CASE cursor < Oldest
    <3>1. cursor' = Oldest /\ lost' = lost \union cursor .. Oldest - 1
          /\ UNCHANGED <<pc, held, feed, subs, open, lockq, parts, wire, ended>>
          /\ UNCHANGED <<consumed, inbox, requests, peer, changed>>
      BY <1>5, <2>2 DEF NextMessage, client
    <3>2. cursor' \in 1 .. MaxFeed + 1 /\ lost' \subseteq 1 .. MaxFeed
      BY <2>1, <3>1
    <3> QED BY <1>q, <3>1, <3>2
  <2>3. CASE ~(cursor < Oldest)
    <3>1. LockDiscipline'
      BY <1>5, <1>t, <2>3, MovesOn DEF NextMessage, LockDiscipline
    <3>2. cursor' = cursor + 1 /\ held' = cursor /\ cursor <= Len(feed)
          /\ pc' = [pc EXCEPT !["send"] = "check"]
          /\ UNCHANGED <<lost, feed, subs, open, lockq, parts, wire, ended>>
          /\ UNCHANGED <<consumed, inbox, requests, peer, changed>>
      BY <1>5, <2>3 DEF NextMessage, client
    <3>3. cursor' \in 1 .. MaxFeed + 1 /\ held' \in 0 .. Len(feed)
      BY <3>2
    <3> QED BY <3>1, <3>2, <3>3
  <2> QED BY <2>2, <2>3
<1>6. CASE Filter
  <2>1. CASE IsSubscribed(feed[held]) /\ feed[held].kind = "depth"
    <3>1. lockq' \in LockQueues /\ LockDiscipline'
      BY <1>6, <1>t, <2>1, QueuesUp DEF Filter, LockDiscipline
    <3> QED BY <1>6, <2>1, <3>1 DEF Filter, client, history, LockQueues
  <2>2. CASE ~(IsSubscribed(feed[held]) /\ feed[held].kind = "depth")
    <3>1. LockDiscipline'
      BY <1>6, <1>t, <2>2, MovesOn DEF Filter, LockDiscipline
    <3> QED BY <1>6, <2>2, <3>1 DEF Filter, client, history
  <2> QED BY <2>1, <2>2
<1>7. CASE HandleFrame
  <2> DEFINE r == Head(inbox)
  <2>1. r \in Request /\ inbox' \in Seq(Request)
    BY <1>7 DEF HandleFrame
  <2>2. r.syms \subseteq Symbols
    BY <2>1, RequestType
  <2> HIDE DEF r
  <2>3. CASE r.type = "PING" /\ pc' = [pc EXCEPT !["recv"] = "write"]
             /\ lockq' = Append(lockq, "recv") /\ UNCHANGED <<subs, changed>>
    <3>1. lockq' \in LockQueues /\ LockDiscipline'
      BY <1>7, <1>t, <2>3, QueuesUp DEF HandleFrame, LockDiscipline
    <3> QED BY <1>7, <2>1, <2>3, <3>1 DEF HandleFrame, LockQueues
  <2>4. CASE r.type = "SUB" /\ AddSubscriptions(r) /\ Noted(r) /\ UNCHANGED <<pc, lockq>>
    BY <1>7, <1>q, <2>1, <2>2, <2>4 DEF HandleFrame, AddSubscriptions, Noted
  <2>5. CASE r.type = "UNSUB" /\ RemoveSubscriptions(r) /\ Noted(r) /\ UNCHANGED <<pc, lockq>>
    BY <1>7, <1>q, <2>1, <2>2, <2>5 DEF HandleFrame, RemoveSubscriptions, Noted
  <2>6. CASE UNCHANGED <<subs, changed, pc, lockq>>
    BY <1>7, <1>q, <2>1, <2>6 DEF HandleFrame
  <2>7. CASE pc' = [pc EXCEPT !["recv"] = "done"] /\ UNCHANGED <<subs, changed, lockq>>
    <3>1. LockDiscipline'
      BY <1>7, <1>t, <2>7, MovesOn DEF HandleFrame, LockDiscipline
    <3> QED BY <1>7, <2>1, <2>7, <3>1 DEF HandleFrame
  <2> QED BY <1>7, <2>3, <2>4, <2>5, <2>6, <2>7 DEF HandleFrame, r
<1>8. CASE ReadFails
  <2>1. LockDiscipline'
    BY <1>8, <1>t, MovesOn DEF ReadFails, LockDiscipline
  <2> QED BY <1>8, <2>1 DEF ReadFails, client, history
<1>9. ASSUME NEW t \in Tasks, WritePart(t) PROVE Typed'
  <2>p. parts \in [Tasks -> 0 .. 1] /\ parts[t] \in 0 .. 1
    BY DEF FrameParts
  <2>1. [frame |-> FrameOf(t), part |-> parts[t] + 1] \in [frame : Frame, part : 1 .. FrameParts]
    BY PartType
  <2>2. wire' \in Seq([frame : Frame, part : 1 .. FrameParts]) /\ Len(wire') = Len(wire) + 1
    BY <1>9, <2>1 DEF WritePart
  <2>3. ~ended
    BY <1>9 DEF WritePart, LockDiscipline
  <2>4. CASE parts[t] + 1 = FrameParts
    <3>1. lockq' \in LockQueues /\ LockDiscipline'
      BY <1>9, <2>3, <2>4, GivesBack DEF WritePart
    <3>2. parts' = [parts EXCEPT ![t] = 0]
      BY <1>9, <2>4 DEF WritePart
    <3>3. parts' \in [Tasks -> 0 .. 1]
      BY <2>p, <3>2
    <3>4. parts' \in [Tasks -> 0 .. FrameParts - 1]
      BY <3>3 DEF FrameParts
    <3>5. pc' \in [Tasks -> {"wait", "check", "write", "done"}]
      BY <1>9, <2>4 DEF WritePart
    <3>6. consumed' \in 0 .. Len(wire')
      BY <1>9, <2>2 DEF WritePart, client
    <3> QED
      BY <1>9, <2>2, <3>1, <3>4, <3>5, <3>6 DEF WritePart, client, history, LockQueues
  <2>5. CASE parts[t] + 1 # FrameParts
    <3>1. parts[t] + 1 \in 0 .. 1 /\ parts' = [parts EXCEPT ![t] = parts[t] + 1]
      BY <1>9, <2>5, <2>p DEF WritePart, FrameParts
    <3>2. parts' \in [Tasks -> 0 .. 1]
      BY <2>p, <3>1
    <3>3. parts' \in [Tasks -> 0 .. FrameParts - 1]
      BY <3>2 DEF FrameParts
    <3> QED BY <1>9, <1>q, <2>2, <2>5, <3>3 DEF WritePart, client, history
  <2> QED BY <2>4, <2>5
<1>10. ASSUME NEW t \in Tasks, WriteFails(t) PROVE Typed'
  <2>1. ~ended
    BY <1>10 DEF WriteFails, LockDiscipline
  <2>2. lockq' \in LockQueues /\ LockDiscipline'
    BY <1>10, <2>1, GivesBack DEF WriteFails
  <2> QED BY <1>10, <2>2 DEF WriteFails, history, LockQueues
<1>11. CASE End
  <2>1. LockDiscipline'
    BY <1>11, NoneQueued DEF End, LockDiscipline
  <2> QED BY <1>11, <2>1 DEF End, client, history
<1>12. CASE UNCHANGED vars
  BY <1>12, <1>q DEF vars
<1> QED
  BY <1>1, <1>2, <1>3, <1>4, <1>5, <1>6, <1>7, <1>8, <1>9, <1>10, <1>11, <1>12
     DEF Next, SendLoop, RecvLoop, Tasks

LEMMA TypedAlways == Spec => []Typed
BY TypedInit, TypedStep, PTL DEF Spec

\* Each variable of the session keeps its type.
THEOREM TypeCorrect == Spec => []TypeOK
<1>1. Typed => TypeOK
  BY DEF Typed
<1> QED BY <1>1, TypedAlways, PTL
-----------------------------------------------------------------------------
(* Whole frames.                                                           *)

\* While writes can still succeed the socket ends in half a frame exactly when
\* a task has written one part; that task holds the lock and the half frame is
\* the one it goes on with.
HalfFrameIsHolders ==
  ~ended /\ peer # "reset" =>
    /\ Len(wire) % FrameParts = parts["send"] + parts["recv"]
    /\ \A t \in Tasks :
         parts[t] = 1 => HasLock(t) /\ wire[Len(wire)] = [frame |-> FrameOf(t), part |-> 1]

WholeInv == Typed /\ HalfFrameIsHolders /\ FramesWhole

LEMMA HolderWrites ==
  ASSUME Typed, NEW t \in Tasks, HasLock(t)
  PROVE  pc[t] = "write" /\ ~ended
<1>1. lockq \in LockQueues /\ lockq # <<>> /\ Head(lockq) = t
  BY DEF Typed, TypeOK, LockQueues, HasLock
<1>2. Queued(lockq, t)
  BY <1>1, QueueTail
<1> QED BY <1>2 DEF Typed, LockDiscipline

LEMMA SeqElements ==
  ASSUME NEW S, NEW q \in Seq(S)
  PROVE  \A i \in DOMAIN q : q[i] \in S
OBVIOUS

\* An appended part is the last one; the others stay where they are.
LEMMA AppendedPart ==
  ASSUME TypeOK, NEW e \in [frame : Frame, part : 1 .. FrameParts],
         wire' = Append(wire, e)
  PROVE  /\ Len(wire) \in Nat /\ DOMAIN wire = 1 .. Len(wire)
         /\ Len(wire') = Len(wire) + 1 /\ DOMAIN wire' = 1 .. Len(wire) + 1
         /\ wire'[Len(wire) + 1] = e
         /\ \A i \in DOMAIN wire : wire'[i] = wire[i]
BY DEF TypeOK

\* A step that does not write keeps the half frame, if the lock stays where it
\* is and the frame under way stays the same.
LEMMA HalfFrameKept ==
  ASSUME WholeInv,
         UNCHANGED <<wire, parts>>, ~ended' => ~ended, peer' # "reset" => peer # "reset",
         \A t \in Tasks : parts[t] = 1 /\ HasLock(t) => HasLock(t)' /\ FrameOf(t)' = FrameOf(t)
  PROVE  HalfFrameIsHolders' /\ FramesWhole'
BY DEF WholeInv, HalfFrameIsHolders, FramesWhole

LEMMA QueueingKeepsHolder ==
  ASSUME Typed, NEW u \in Tasks, pc[u] # "write", lockq' = Append(lockq, u)
  PROVE  \A t \in Tasks : HasLock(t) => HasLock(t)'
<1>1. lockq \in LockQueues /\ ~Queued(lockq, u)
  BY DEF Typed, TypeOK, LockQueues, LockDiscipline
<1> QED BY <1>1, QueueAppend DEF HasLock

LEMMA WholeInit == Init => WholeInv
<1> SUFFICES ASSUME Init PROVE WholeInv
  OBVIOUS
<1>1. Typed
  BY TypedInit
<1>2. HalfFrameIsHolders /\ FramesWhole
  BY DEF Init, HalfFrameIsHolders, FramesWhole, FrameParts, Tasks
<1> QED BY <1>1, <1>2 DEF WholeInv

\* Writing a part extends the half frame to a whole one or starts a new one.
LEMMA WritePartWhole ==
  ASSUME WholeInv, Typed', NEW t \in Tasks, WritePart(t)
  PROVE  HalfFrameIsHolders' /\ FramesWhole'
<1> DEFINE n == Len(wire)
           e == [frame |-> FrameOf(t), part |-> parts[t] + 1]
<1>1. /\ HasLock(t) /\ peer # "reset" /\ peer' = peer /\ ended' = ended /\ ~ended
      /\ wire' = Append(wire, e) /\ UNCHANGED <<held, open>>
  <2>1. HasLock(t) /\ ~ended
    BY HolderWrites DEF WritePart, WholeInv
  <2> QED BY <2>1 DEF WritePart, client
<1>2. /\ n \in Nat /\ DOMAIN wire = 1 .. n /\ Len(wire') = n + 1 /\ DOMAIN wire' = 1 .. n + 1
      /\ wire'[n + 1] = e /\ \A i \in 1 .. n : wire'[i] = wire[i]
  BY <1>1, AppendedPart, PartType DEF WholeInv, Typed
<1>3. /\ parts \in [Tasks -> 0 .. 1] /\ parts' \in [Tasks -> 0 .. 1]
      /\ "send" \in Tasks /\ "recv" \in Tasks
      /\ \A u \in Tasks : u = "send" \/ u = "recv"
  BY DEF WholeInv, Typed, TypeOK, FrameParts, Tasks
<1>4. \A u \in Tasks : u # t => parts[u] = 0 /\ ~HasLock(u)
  <2>1. \A u \in Tasks : u # t => ~HasLock(u)
    BY <1>1 DEF HasLock
  <2>2. \A u \in Tasks : parts[u] = 1 => HasLock(u)
    BY <1>1 DEF WholeInv, HalfFrameIsHolders
  <2>3. \A u \in Tasks : parts[u] = 0 \/ parts[u] = 1
    BY <1>3
  <2> QED BY <2>1, <2>2, <2>3
<1>5. n % 2 = parts[t]
  BY <1>1, <1>3, <1>4 DEF WholeInv, HalfFrameIsHolders, FrameParts
<1>6. parts[t] = 1 => n # 0 /\ wire[n] = [frame |-> FrameOf(t), part |-> 1]
  BY <1>1, <1>2, <1>5 DEF WholeInv, HalfFrameIsHolders
<1>7. FrameOf(t)' = FrameOf(t)
  BY <1>1 DEF FrameOf
<1>8. parts' = [parts EXCEPT ![t] = 1 - parts[t]]
  BY <1>3 DEF WritePart, FrameParts
<1>9. HalfFrameIsHolders'
  <2>1. (n + 1) % 2 = 1 - parts[t]
    BY <1>2, <1>3, <1>5
  <2>2. (n + 1) % 2 = parts'["send"] + parts'["recv"]
    BY <2>1, <1>3, <1>4, <1>8
  <2>3. ASSUME NEW u \in Tasks, parts'[u] = 1
        PROVE  HasLock(u)' /\ wire'[n + 1] = [frame |-> FrameOf(u)', part |-> 1]
    <3>1. u = t /\ parts[t] = 0
      BY <2>3, <1>3, <1>4, <1>8
    <3>2. lockq' = lockq
      BY <3>1 DEF WritePart, FrameParts
    <3> QED BY <3>1, <3>2, <1>1, <1>2, <1>7 DEF HasLock
  <2> QED BY <1>2, <2>2, <2>3 DEF HalfFrameIsHolders, FrameParts
<1>10. FramesWhole'
  <2> SUFFICES ASSUME NEW i \in 1 .. n + 1
               PROVE  IF i % 2 = 1 THEN wire'[i].part = 1
                      ELSE wire'[i] = [frame |-> wire'[i - 1].frame, part |-> 2]
    BY <1>2 DEF FramesWhole, FrameParts
  <2>1. CASE i \in 1 .. n
    <3>1. IF i % 2 = 1 THEN wire[i].part = 1
          ELSE wire[i] = [frame |-> wire[i - 1].frame, part |-> 2]
      BY <2>1, <1>2 DEF WholeInv, FramesWhole, FrameParts
    <3>2. i % 2 # 1 => i - 1 \in 1 .. n
      BY <2>1, <1>2
    <3> QED BY <3>1, <3>2, <2>1, <1>2
  <2>2. CASE i = n + 1 /\ parts[t] = 0
    <3>1. i % 2 = 1
      BY <2>2, <1>2, <1>5
    <3> QED BY <3>1, <2>2, <1>2
  <2>3. CASE i = n + 1 /\ parts[t] = 1
    <3>1. i % 2 = 0
      BY <2>3, <1>2, <1>5
    <3>2. wire'[i - 1] = wire[n]
      BY <2>3, <1>2, <1>6
    <3> QED BY <3>1, <3>2, <2>3, <1>2, <1>6
  <2> QED BY <2>1, <2>2, <2>3, <1>2, <1>3
<1> QED BY <1>9, <1>10

\* Every step keeps the frames whole.
LEMMA WholeStep == WholeInv /\ [Next]_vars => WholeInv'
<1> SUFFICES ASSUME WholeInv, [Next]_vars PROVE WholeInv'
  OBVIOUS
<1>t. Typed /\ Typed'
  BY TypedStep DEF WholeInv
<1> SUFFICES HalfFrameIsHolders' /\ FramesWhole'
  BY <1>t DEF WholeInv
<1> USE HalfFrameKept
<1>1. ASSUME NEW m \in Message, Publish(m) PROVE HalfFrameIsHolders' /\ FramesWhole'
  BY <1>1 DEF Publish, client, HasLock, FrameOf
<1>2. ASSUME NEW r \in Request, ClientSends(r) PROVE HalfFrameIsHolders' /\ FramesWhole'
  BY <1>2 DEF ClientSends, HasLock, FrameOf
<1>3. CASE ClientReads
  BY <1>3 DEF ClientReads, HasLock, FrameOf
<1>4. CASE ClientCloses
  BY <1>4 DEF ClientCloses, HasLock, FrameOf
<1>5. CASE NextMessage
  <2>1. ~HasLock("send")
    BY <1>5, <1>t, HolderWrites DEF NextMessage, Tasks
  <2> QED BY <1>5, <2>1 DEF NextMessage, client, HasLock, FrameOf, Tasks
<1>6. CASE Filter
  <2>1. ~HasLock("send") /\ pc["send"] # "write"
    BY <1>6, <1>t, HolderWrites DEF Filter, Tasks
  <2>2. \A t \in Tasks : HasLock(t) => HasLock(t)'
    BY <1>6, <1>t, <2>1, QueueingKeepsHolder DEF Filter, Tasks, HasLock
  <2> QED BY <1>6, <2>1, <2>2 DEF Filter, client, FrameOf, Tasks
<1>7. CASE HandleFrame
  <2>1. lockq' = lockq \/ (lockq' = Append(lockq, "recv") /\ pc["recv"] # "write")
    BY <1>7 DEF HandleFrame
  <2>2. \A t \in Tasks : HasLock(t) => HasLock(t)'
    BY <1>t, <2>1, QueueingKeepsHolder DEF Tasks, HasLock
  <2> QED BY <1>7, <2>2 DEF HandleFrame, FrameOf
<1>8. CASE ReadFails
  BY <1>8 DEF ReadFails, client, HasLock, FrameOf
<1>9. ASSUME NEW t \in Tasks, WritePart(t) PROVE HalfFrameIsHolders' /\ FramesWhole'
  BY <1>9, <1>t, WritePartWhole
<1>10. ASSUME NEW t \in Tasks, WriteFails(t) PROVE HalfFrameIsHolders' /\ FramesWhole'
  BY <1>10 DEF WriteFails, WholeInv, HalfFrameIsHolders, FramesWhole
<1>11. CASE End
  BY <1>11 DEF End, WholeInv, HalfFrameIsHolders, FramesWhole
<1>12. CASE UNCHANGED vars
  BY <1>12 DEF vars, HasLock, FrameOf
<1> QED
  BY <1>1, <1>2, <1>3, <1>4, <1>5, <1>6, <1>7, <1>8, <1>9, <1>10, <1>11, <1>12
     DEF Next, SendLoop, RecvLoop, Tasks

LEMMA WholeAlways == Spec => []WholeInv
BY WholeInit, WholeStep, PTL DEF Spec

\* session.rs:62,83: the bytes on the socket are whole frames one after the
\* other, whatever the two tasks and the client do in between.
THEOREM FramesStayWhole == Spec => []FramesWhole
<1>1. WholeInv => FramesWhole
  BY DEF WholeInv
<1> QED BY <1>1, WholeAlways, PTL

-----------------------------------------------------------------------------
(* Subscriptions.                                                          *)

\* Feed positions the session works with; only quotes that were broadcast.
Positions ==
  /\ held < cursor /\ cursor <= Len(feed) + 1
  /\ pc["send"] \in {"check", "write"} => held # 0
  /\ pc["send"] = "write" => feed[held].kind = "depth"
  /\ \A i \in DOMAIN wire :
       wire[i].frame.type = "DEPTH" => wire[i].frame.pos \in 1 .. Len(feed)

\* The set agrees with the last request on each symbol.
SetFollowsRequests ==
  \A s \in Symbols :
    /\ changed[s].at <= Len(feed)
    /\ changed[s].type = "SUB" => s \in subs
    /\ changed[s].type = "UNSUB" => s \notin subs

\* A quote on its way to the socket was let through by the set, or by its being
\* empty, when send_loop looked.
LetThrough ==
  pc["send"] = "write" =>
    LET c == changed[feed[held].sym] IN c.type = "UNSUB" /\ held > c.at => open

\* What send_loop is through with it has written.
Delivered ==
  pc["send"] # "done" =>
    \A p \in 1 .. cursor - 1 :
      LET c == changed[feed[p].sym] IN
        c.type = "SUB" /\ p > c.at /\ feed[p].kind = "depth"
          => \/ p \in lost
             \/ p = held /\ pc["send"] # "wait"
             \/ \E i \in DepthParts : wire[i].frame.pos = p

\* The steps as the subscriptions see them.
Quiet ==
  /\ UNCHANGED <<feed, cursor, subs, held, open, wire, lost, changed>>
  /\ pc'["send"] \in {pc["send"], "done"}

Published(m) ==
  /\ feed' = Append(feed, m)
  /\ UNCHANGED <<cursor, subs, held, open, wire, lost, changed, pc>>

Requested(r) ==
  /\ \/ r.type = "SUB" /\ AddSubscriptions(r)
     \/ r.type = "UNSUB" /\ RemoveSubscriptions(r)
  /\ Noted(r)
  /\ UNCHANGED <<feed, cursor, held, open, wire, lost, pc>>

Lags ==
  /\ pc["send"] = "wait"
  /\ cursor < Oldest
  /\ cursor' = Oldest
  /\ lost' = lost \union cursor .. Oldest - 1
  /\ UNCHANGED <<feed, subs, held, open, wire, changed, pc>>

Takes ==
  /\ pc["send"] = "wait"
  /\ cursor <= Len(feed)
  /\ cursor' = cursor + 1
  /\ held' = cursor
  /\ pc'["send"] = "check"
  /\ UNCHANGED <<feed, subs, open, wire, lost, changed>>

Keeps ==
  /\ pc["send"] = "check"
  /\ IsSubscribed(feed[held]) /\ feed[held].kind = "depth"
  /\ pc'["send"] = "write"
  /\ open' = (subs = {})
  /\ UNCHANGED <<feed, cursor, subs, held, wire, lost, changed>>

Skips ==
  /\ pc["send"] = "check"
  /\ ~(IsSubscribed(feed[held]) /\ feed[held].kind = "depth")
  /\ pc'["send"] = "wait"
  /\ UNCHANGED <<feed, cursor, subs, held, open, wire, lost, changed>>

Writes(t) ==
  /\ pc[t] = "write"
  /\ wire' = Append(wire, [frame |-> FrameOf(t), part |-> parts[t] + 1])
  /\ \/ pc' = pc
     \/ parts[t] = 1 /\ pc' = [pc EXCEPT ![t] = "wait"]
  /\ ~ended /\ peer # "reset"
  /\ UNCHANGED <<feed, cursor, subs, held, open, lost, changed>>

LEMMA SessionSteps ==
  ASSUME Typed, [Next]_vars
  PROVE  \/ Quiet \/ Lags \/ Takes \/ Keeps \/ Skips
         \/ \E m \in Message : Published(m)
         \/ \E r \in Request : Requested(r)
         \/ \E t \in Tasks : Writes(t)
<1> USE DEF client, history
<1>p. pc \in [Tasks -> {"wait", "check", "write", "done"}] /\ "send" \in Tasks /\ "recv" \in Tasks
  BY DEF Typed, TypeOK, Tasks
<1>1. ASSUME NEW m \in Message, Publish(m) PROVE Published(m)
  BY <1>1 DEF Publish, Published
<1>2. ASSUME NEW r \in Request, ClientSends(r) PROVE Quiet
  BY <1>2 DEF ClientSends, Quiet
<1>3. CASE ClientReads
  BY <1>3 DEF ClientReads, Quiet
<1>4. CASE ClientCloses
  BY <1>4 DEF ClientCloses, Quiet
<1>5. CASE NextMessage
  BY <1>5, <1>p DEF NextMessage, Lags, Takes
<1>6. CASE Filter
  BY <1>6, <1>p DEF Filter, Keeps, Skips
<1>7. CASE HandleFrame
  <2> DEFINE r == Head(inbox)
  <2>1. r \in Request
    BY <1>7 DEF HandleFrame, Typed, TypeOK
  <2>2. Requested(r) \/ (UNCHANGED <<subs, changed>> /\ pc'["send"] = pc["send"])
    BY <1>7, <1>p DEF HandleFrame, Requested
  <2> QED BY <1>7, <2>1, <2>2 DEF HandleFrame, Quiet
<1>8. CASE ReadFails
  BY <1>8, <1>p DEF ReadFails, Quiet
<1>9. ASSUME NEW t \in Tasks, WritePart(t) PROVE Writes(t)
  <2>1. ~ended
    BY <1>9, HolderWrites DEF WritePart
  <2>2. parts[t] + 1 = FrameParts => parts[t] = 1
    BY DEF FrameParts, Typed, TypeOK
  <2> QED BY <1>9, <2>1, <2>2 DEF WritePart, Writes
<1>10. ASSUME NEW t \in Tasks, WriteFails(t) PROVE Quiet
  BY <1>10, <1>p DEF WriteFails, Quiet
<1>11. CASE End
  BY <1>11, <1>p DEF End, Quiet
<1>12. CASE UNCHANGED vars
  BY <1>12 DEF vars, Quiet
<1> QED
  BY <1>1, <1>2, <1>3, <1>4, <1>5, <1>6, <1>7, <1>8, <1>9, <1>10, <1>11, <1>12
     DEF Next, SendLoop, RecvLoop, Tasks

SubsInv == WholeInv /\ Positions /\ SetFollowsRequests

\* Broadcasting leaves what was broadcast in its place.
LEMMA FeedGrows ==
  ASSUME Typed, NEW m \in Message, feed' = Append(feed, m)
  PROVE  /\ Len(feed) \in Nat /\ Len(feed') = Len(feed) + 1
         /\ \A p \in 1 .. Len(feed) : feed'[p] = feed[p]
BY DEF Typed, TypeOK

LEMMA FeedElements ==
  ASSUME Typed, NEW p \in 1 .. Len(feed)
  PROVE  feed[p] \in Message /\ feed[p].sym \in Symbols
<1>1. feed[p] \in Message
  BY DEF Typed, TypeOK
<1> QED BY <1>1 DEF Message

LEMMA NotedChange ==
  ASSUME Typed, NEW r \in Request, Noted(r), NEW s \in Symbols
  PROVE  changed'[s] = IF s \in r.syms
                       THEN [type |-> r.type, at |-> Len(feed), was |-> s \in subs]
                       ELSE changed[s]
BY DEF Noted

LEMMA SubsInit == Init => SubsInv
<1> SUFFICES ASSUME Init PROVE SubsInv
  OBVIOUS
<1>1. WholeInv
  BY WholeInit
<1>2. Positions /\ SetFollowsRequests
  BY DEF Init, Positions, SetFollowsRequests, Tasks
<1> QED BY <1>1, <1>2 DEF SubsInv

LEMMA PositionsStep == SubsInv /\ [Next]_vars => Positions'
<1> SUFFICES ASSUME SubsInv, [Next]_vars PROVE Positions'
  OBVIOUS
<1>t. /\ Typed /\ TypeOK /\ Len(feed) \in Nat /\ cursor \in Nat /\ held \in Nat
      /\ held < cursor /\ cursor <= Len(feed) + 1
  <2>1. Typed /\ TypeOK
    BY DEF SubsInv, WholeInv, Typed
  <2>2. held < cursor /\ cursor <= Len(feed) + 1
    BY DEF SubsInv, Positions
  <2>3. Len(feed) \in Nat /\ cursor \in Nat /\ held \in Nat
    BY <2>1 DEF TypeOK
  <2> QED BY <2>1, <2>2, <2>3
<1> USE DEF Positions
<1>1. CASE Quiet
  BY <1>1 DEF Quiet, SubsInv
<1>2. CASE Lags
  BY <1>2, <1>t DEF Lags, SubsInv, Oldest
<1>3. CASE Takes
  BY <1>3, <1>t DEF Takes, SubsInv
<1>4. CASE Keeps
  BY <1>4 DEF Keeps, SubsInv
<1>5. CASE Skips
  BY <1>5 DEF Skips, SubsInv
<1>6. ASSUME NEW m \in Message, Published(m) PROVE Positions'
  <2>1. Len(feed') = Len(feed) + 1 /\ \A p \in 1 .. Len(feed) : feed'[p] = feed[p]
    BY <1>6, <1>t, FeedGrows DEF Published
  <2>2. pc["send"] \in {"check", "write"} => held \in 1 .. Len(feed)
    BY <1>t DEF SubsInv
  <2>3. \A p \in 1 .. Len(feed) : p \in 1 .. Len(feed')
    BY <1>t, <2>1
  <2> QED BY <1>6, <1>t, <2>1, <2>2, <2>3 DEF Published, SubsInv
<1>7. ASSUME NEW r \in Request, Requested(r) PROVE Positions'
  BY <1>7 DEF Requested, SubsInv
<1>8. ASSUME NEW t \in Tasks, Writes(t) PROVE Positions'
  <2>1. /\ DOMAIN wire' = DOMAIN wire \union {Len(wire) + 1}
        /\ wire'[Len(wire) + 1].frame = FrameOf(t)
        /\ \A i \in DOMAIN wire : wire'[i] = wire[i]
    BY <1>8, <1>t, AppendedPart, PartType DEF Writes
  <2>2. FrameOf(t).type = "DEPTH" => FrameOf(t).pos \in 1 .. Len(feed)
    BY <1>8, <1>t DEF Writes, FrameOf, Tasks, SubsInv
  <2>3. pc'["send"] \in {pc["send"], "wait"}
    BY <1>8, <1>t DEF Writes, TypeOK, Tasks
  <2> QED BY <1>8, <2>1, <2>2, <2>3 DEF Writes, SubsInv
<1> QED
  BY <1>1, <1>2, <1>3, <1>4, <1>5, <1>6, <1>7, <1>8, <1>t, SessionSteps

LEMMA SetFollowsStep == SubsInv /\ [Next]_vars => SetFollowsRequests'
<1> SUFFICES ASSUME SubsInv, [Next]_vars, NEW s \in Symbols
             PROVE  /\ changed'[s].at <= Len(feed')
                    /\ changed'[s].type = "SUB" => s \in subs'
                    /\ changed'[s].type = "UNSUB" => s \notin subs'
  BY DEF SetFollowsRequests
<1>t. Typed /\ Len(feed) \in Nat /\ changed[s].at \in Nat
  BY DEF SubsInv, WholeInv, Typed, TypeOK
<1>s. /\ changed[s].at <= Len(feed)
      /\ changed[s].type = "SUB" => s \in subs
      /\ changed[s].type = "UNSUB" => s \notin subs
  BY DEF SubsInv, SetFollowsRequests
<1>1. ASSUME NEW m \in Message, Published(m) PROVE changed[s].at <= Len(feed')
  BY <1>1, <1>t, <1>s, FeedGrows DEF Published
<1>2. CASE \E r \in Request : Requested(r)
  <2> PICK r \in Request : Requested(r)
    BY <1>2
  <2>1. changed'[s] = IF s \in r.syms
                      THEN [type |-> r.type, at |-> Len(feed), was |-> s \in subs]
                      ELSE changed[s]
    BY <1>t, NotedChange DEF Requested
  <2> QED
    BY <2>1, <1>t, <1>s DEF Requested, AddSubscriptions, RemoveSubscriptions
<1>3. CASE UNCHANGED <<feed, subs, changed>>
  BY <1>3, <1>s
<1> QED
  BY <1>1, <1>2, <1>3, <1>t, <1>s, SessionSteps
     DEF Quiet, Lags, Takes, Keeps, Skips, Published, Writes

LEMMA SubsStep == SubsInv /\ [Next]_vars => SubsInv'
BY PositionsStep, SetFollowsStep, WholeStep DEF SubsInv

LEMMA SubsAlways == Spec => []SubsInv
BY SubsInit, SubsStep, PTL DEF Spec

-----------------------------------------------------------------------------
(* What UNSUB silences.                                                    *)

SilentInv == SubsInv /\ LetThrough /\ SilentAfterUnsub

Silenced(f) ==
  changed[feed[f.pos].sym].type = "UNSUB" /\ f.pos > changed[feed[f.pos].sym].at => f.open

LEMMA SilentInit == Init => SilentInv
<1> SUFFICES ASSUME Init PROVE SilentInv
  OBVIOUS
<1>1. SubsInv
  BY SubsInit
<1>2. LetThrough /\ SilentAfterUnsub
  BY DEF Init, LetThrough, SilentAfterUnsub, DepthParts, Tasks
<1> QED BY <1>1, <1>2 DEF SilentInv

\* A step never takes a quote's excuse away: an UNSUB comes after everything
\* broadcast so far.
LEMMA SilencedStays ==
  ASSUME SubsInv, SubsInv', [Next]_vars,
         NEW f \in Frame, f.pos \in 1 .. Len(feed), Silenced(f)
  PROVE  Silenced(f)'
<1>t. /\ Typed /\ Len(feed) \in Nat /\ f.pos \in Nat
      /\ feed[f.pos].sym \in Symbols
  BY FeedElements DEF SubsInv, WholeInv
<1>1. feed'[f.pos] = feed[f.pos]
  BY <1>t, FeedGrows, SessionSteps
     DEF Quiet, Lags, Takes, Keeps, Skips, Published, Requested, Writes
<1>2. CASE changed' = changed
  BY <1>1, <1>2 DEF Silenced
<1>3. ASSUME NEW r \in Request, Requested(r) PROVE Silenced(f)'
  <2>1. \/ changed'[feed[f.pos].sym] = changed[feed[f.pos].sym]
        \/ changed'[feed[f.pos].sym] =
             [type |-> r.type, at |-> Len(feed), was |-> feed[f.pos].sym \in subs]
    BY <1>3, <1>t, NotedChange DEF Requested
  <2> QED BY <1>1, <1>t, <2>1 DEF Silenced
<1> QED
  BY <1>2, <1>3, <1>t, SessionSteps DEF Quiet, Lags, Takes, Keeps, Skips, Published, Writes

LEMMA SilentStep == SilentInv /\ [Next]_vars => SilentInv'
<1> SUFFICES ASSUME SilentInv, [Next]_vars PROVE SilentInv'
  OBVIOUS
<1>t. SubsInv /\ SubsInv' /\ Typed /\ Typed' /\ TypeOK /\ TypeOK'
  BY SubsStep DEF SilentInv, SubsInv, WholeInv, Typed
<1>f. FrameOf("send") \in Frame /\ FrameOf("send").type = "DEPTH"
      /\ FrameOf("send").pos = held /\ FrameOf("send").open = open
  BY <1>t DEF FrameOf, Frame, TypeOK
<1>h. pc["send"] \in {"check", "write"} => held \in 1 .. Len(feed)
  BY <1>t DEF SubsInv, Positions, TypeOK
<1>1. LetThrough'
  <2> SUFFICES ASSUME pc'["send"] = "write" PROVE Silenced(FrameOf("send"))'
    BY DEF LetThrough, Silenced, FrameOf
  <2>1. CASE Keeps
    <3>1. feed[held].sym \in Symbols
      BY <1>t, <1>h, <2>1, FeedElements DEF Keeps
    <3>2. changed[feed[held].sym].type = "UNSUB" => feed[held].sym \notin subs
      BY <1>t, <3>1 DEF SubsInv, SetFollowsRequests
    <3> QED BY <2>1, <3>2 DEF Keeps, IsSubscribed, Silenced, FrameOf
  <2>2. CASE ~Keeps
    <3>1. pc["send"] = "write" /\ UNCHANGED <<held, open>>
      BY <2>2, <1>t, SessionSteps
         DEF Quiet, Lags, Takes, Skips, Published, Requested, Writes, TypeOK, Tasks
    <3>2. Silenced(FrameOf("send"))
      BY <3>1 DEF SilentInv, LetThrough, Silenced, FrameOf
    <3> QED BY <3>1, <3>2, <1>t, <1>f, <1>h, SilencedStays DEF Silenced, FrameOf
  <2> QED BY <2>1, <2>2
<1>2. SilentAfterUnsub'
  <2> SUFFICES ASSUME NEW i \in DepthParts' PROVE Silenced(wire[i].frame)'
    BY DEF SilentAfterUnsub, Silenced
  <2>d. \A j \in DOMAIN wire : wire[j].frame \in Frame
    <3>1. \A j \in DOMAIN wire : wire[j] \in [frame : Frame, part : 1 .. FrameParts]
      BY <1>t, SeqElements DEF TypeOK
    <3> QED BY <3>1
  <2>1. CASE wire' = wire
    <3>1. i \in DepthParts
      BY <2>1 DEF DepthParts
    <3>2. Silenced(wire[i].frame) /\ wire[i].frame \in Frame
          /\ wire[i].frame.pos \in 1 .. Len(feed)
      BY <3>1, <2>d, <1>t DEF SilentInv, SilentAfterUnsub, Silenced, SubsInv, Positions, DepthParts
    <3> QED BY <3>2, <2>1, <1>t, SilencedStays DEF Silenced
  <2>2. ASSUME NEW t \in Tasks, Writes(t) PROVE Silenced(wire[i].frame)'
    <3>1. /\ DOMAIN wire = 1 .. Len(wire) /\ DOMAIN wire' = 1 .. Len(wire) + 1
          /\ wire'[Len(wire) + 1].frame = FrameOf(t)
          /\ \A j \in DOMAIN wire : wire'[j] = wire[j]
      BY <2>2, <1>t, AppendedPart, PartType DEF Writes
    <3>2. CASE i \in DOMAIN wire
      <4>1. i \in DepthParts
        BY <3>1, <3>2 DEF DepthParts
      <4>2. Silenced(wire[i].frame) /\ wire[i].frame \in Frame
            /\ wire[i].frame.pos \in 1 .. Len(feed)
        BY <4>1, <2>d, <1>t DEF SilentInv, SilentAfterUnsub, Silenced, SubsInv, Positions, DepthParts
      <4> QED BY <4>2, <3>1, <3>2, <1>t, SilencedStays DEF Silenced
    <3>3. CASE i = Len(wire) + 1
      <4>1. t = "send"
        BY <3>1, <3>3 DEF DepthParts, FrameOf, Tasks
      <4>2. Silenced(FrameOf("send"))
        BY <4>1, <2>2 DEF SilentInv, LetThrough, Silenced, FrameOf, Writes
      <4> QED
        BY <3>1, <3>3, <4>1, <4>2, <2>2, <1>f, <1>h, <1>t, SilencedStays
           DEF Silenced, Writes
    <3>4. i \in 1 .. Len(wire) + 1 /\ Len(wire) \in Nat
      BY <3>1, <1>t DEF DepthParts, TypeOK
    <3>5. i \in DOMAIN wire \/ i = Len(wire) + 1
      BY <3>1, <3>4
    <3> QED BY <3>2, <3>3, <3>5
  <2> QED
    BY <2>1, <2>2, <1>t, SessionSteps DEF Quiet, Lags, Takes, Keeps, Skips, Published, Requested
<1> QED BY <1>1, <1>2, <1>t DEF SilentInv

LEMMA SilentAlways == Spec => []SilentInv
BY SilentInit, SilentStep, PTL DEF Spec

\* session.rs:50-53,87-88: once UNSUB of a symbol was handled, no quote broadcast
\* later for it is on the socket, unless the set was empty when send_loop looked.
THEOREM UnsubSilences == Spec => []SilentAfterUnsub
<1>1. SilentInv => SilentAfterUnsub
  BY DEF SilentInv
<1> QED BY <1>1, SilentAlways, PTL

-----------------------------------------------------------------------------
(* What SUB delivers.                                                      *)

DeliveredInv == SubsInv /\ Delivered

Due(p) ==
  LET c == changed[feed[p].sym] IN c.type = "SUB" /\ p > c.at /\ feed[p].kind = "depth"

Written(p) == \E i \in DepthParts : wire[i].frame.pos = p

LEMMA DeliveredInit == Init => DeliveredInv
<1> SUFFICES ASSUME Init PROVE DeliveredInv
  OBVIOUS
<1>1. SubsInv
  BY SubsInit
<1>2. Delivered
  BY DEF Init, Delivered
<1> QED BY <1>1, <1>2 DEF DeliveredInv

\* Nothing of the past becomes due: a SUB counts from the messages after it.
LEMMA DueBefore ==
  ASSUME SubsInv, [Next]_vars, NEW p \in 1 .. Len(feed), Due(p)'
  PROVE  Due(p)
<1>t. Typed /\ Len(feed) \in Nat /\ feed[p].sym \in Symbols
  BY FeedElements DEF SubsInv, WholeInv, Typed, TypeOK
<1>1. feed'[p] = feed[p]
  BY <1>t, FeedGrows, SessionSteps
     DEF Quiet, Lags, Takes, Keeps, Skips, Published, Requested, Writes
<1>2. CASE changed' = changed
  BY <1>1, <1>2 DEF Due
<1>3. ASSUME NEW r \in Request, Requested(r) PROVE Due(p)
  <2>1. \/ changed'[feed[p].sym] = changed[feed[p].sym]
        \/ changed'[feed[p].sym] =
             [type |-> r.type, at |-> Len(feed), was |-> feed[p].sym \in subs]
    BY <1>3, <1>t, NotedChange DEF Requested
  <2> QED BY <1>1, <1>t, <2>1 DEF Due
<1> QED
  BY <1>2, <1>3, <1>t, SessionSteps DEF Quiet, Lags, Takes, Keeps, Skips, Published, Writes

\* What is on the socket stays there.
LEMMA WrittenStays ==
  ASSUME Typed, [Next]_vars, NEW p, Written(p)
  PROVE  Written(p)'
<1>1. CASE wire' = wire
  BY <1>1 DEF Written, DepthParts
<1>2. ASSUME NEW t \in Tasks, Writes(t) PROVE Written(p)'
  <2>1. DOMAIN wire \subseteq DOMAIN wire' /\ \A j \in DOMAIN wire : wire'[j] = wire[j]
    BY <1>2, AppendedPart, PartType DEF Writes, Typed
  <2> QED BY <2>1 DEF Written, DepthParts
<1> QED
  BY <1>1, <1>2, SessionSteps DEF Quiet, Lags, Takes, Keeps, Skips, Published, Requested

LEMMA DeliveredStep == DeliveredInv /\ [Next]_vars => DeliveredInv'
<1> SUFFICES ASSUME DeliveredInv, [Next]_vars PROVE DeliveredInv'
  OBVIOUS
<1>t. /\ SubsInv /\ SubsInv' /\ WholeInv /\ Typed /\ TypeOK
      /\ pc["send"] \in {"wait", "check", "write", "done"}
  BY SubsStep DEF DeliveredInv, SubsInv, WholeInv, Typed, TypeOK, Tasks
<1>n. cursor \in Nat /\ held \in Nat /\ Len(feed) \in Nat
      /\ held < cursor /\ cursor <= Len(feed) + 1
  <2>1. held < cursor /\ cursor <= Len(feed) + 1
    BY <1>t DEF SubsInv, Positions
  <2>2. cursor \in Nat /\ held \in Nat /\ Len(feed) \in Nat
    BY <1>t DEF TypeOK
  <2> QED BY <2>1, <2>2
<1> SUFFICES ASSUME pc'["send"] # "done", NEW p \in 1 .. cursor' - 1, Due(p)'
             PROVE  p \in lost' \/ (p = held' /\ pc'["send"] # "wait") \/ Written(p)'
  BY <1>t DEF DeliveredInv, Delivered, Due, Written
<1>a. pc["send"] # "done"
  BY <1>t, SessionSteps DEF Quiet, Lags, Takes, Keeps, Skips, Published, Requested, Writes,
        TypeOK, Tasks
<1>b. ASSUME p < cursor
      PROVE  Due(p) /\ (p \in lost \/ (p = held /\ pc["send"] # "wait") \/ Written(p)')
  <2>1. p \in 1 .. Len(feed) /\ p \in 1 .. cursor - 1
    BY <1>b, <1>n, <1>t DEF SubsInv, Positions
  <2>2. Due(p)
    BY <2>1, <1>t, DueBefore
  <2>3. p \in lost \/ (p = held /\ pc["send"] # "wait") \/ Written(p)
    BY <2>1, <2>2, <1>a DEF DeliveredInv, Delivered, Due, Written
  <2> QED BY <2>2, <2>3, <1>t, WrittenStays
<1>1. CASE Lags
  BY <1>1, <1>n, <1>b DEF Lags
<1>2. CASE Takes
  BY <1>2, <1>n, <1>b DEF Takes
<1>3. CASE Skips
  <2>1. p < cursor
    BY <1>3, <1>n DEF Skips
  <2>2. p # held
    <3> SUFFICES ASSUME p = held PROVE FALSE
      OBVIOUS
    <3>1. Due(held) /\ held \in 1 .. Len(feed)
      BY <2>1, <1>b, <1>n
    <3>2. feed[held].sym \in subs
      BY <3>1, <1>t, FeedElements DEF Due, SubsInv, SetFollowsRequests
    <3> QED BY <3>1, <3>2, <1>3 DEF Skips, Due, IsSubscribed
  <2> QED BY <2>1, <2>2, <1>b, <1>3 DEF Skips
<1>4. ASSUME NEW t \in Tasks, Writes(t)
      PROVE  p \in lost' \/ (p = held' /\ pc'["send"] # "wait") \/ Written(p)'
  <2>1. p < cursor
    BY <1>4, <1>n DEF Writes
  <2>2. CASE pc'["send"] = pc["send"]
    BY <2>1, <2>2, <1>b, <1>4 DEF Writes
  <2>3. CASE pc'["send"] # pc["send"] /\ p = held
    <3>1. t = "send" /\ parts["send"] = 1
      BY <2>3, <1>4, <1>t DEF Writes, Tasks, TypeOK
    <3>2. wire[Len(wire)] = [frame |-> FrameOf("send"), part |-> 1] /\ Len(wire) \in DOMAIN wire
      <4>1. /\ Len(wire) % 2 = parts["send"] + parts["recv"]
            /\ wire[Len(wire)] = [frame |-> FrameOf("send"), part |-> 1]
        BY <3>1, <1>4, <1>t DEF WholeInv, HalfFrameIsHolders, Writes, Tasks, FrameParts
      <4>2. parts["recv"] \in {0, 1} /\ Len(wire) \in Nat /\ DOMAIN wire = 1 .. Len(wire)
        BY <1>t DEF TypeOK, FrameParts, Tasks
      <4> QED BY <3>1, <4>1, <4>2
    <3>3. Written(held)
      BY <3>2 DEF Written, DepthParts, FrameOf
    <3> QED BY <2>3, <3>3, <1>t, WrittenStays
  <2>4. CASE p # held
    BY <2>1, <2>4, <1>b, <1>4 DEF Writes
  <2> QED BY <2>2, <2>3, <2>4
<1>5. CASE Quiet
  BY <1>5, <1>n, <1>b DEF Quiet
<1>6. CASE Keeps
  BY <1>6, <1>n, <1>b DEF Keeps
<1>7. ASSUME NEW m \in Message, Published(m)
      PROVE  p \in lost' \/ (p = held' /\ pc'["send"] # "wait") \/ Written(p)'
  BY <1>7, <1>n, <1>b DEF Published
<1>8. ASSUME NEW r \in Request, Requested(r)
      PROVE  p \in lost' \/ (p = held' /\ pc'["send"] # "wait") \/ Written(p)'
  BY <1>8, <1>n, <1>b DEF Requested
<1> QED
  BY <1>1, <1>2, <1>3, <1>4, <1>5, <1>6, <1>7, <1>8, <1>t, SessionSteps

LEMMA DeliveredAlways == Spec => []DeliveredInv
BY DeliveredInit, DeliveredStep, PTL DEF Spec

\* session.rs:50-53,83: a quote broadcast after the SUB of its symbol is on the
\* socket, in send_loop's hands, ahead of the receiver, or was reported as lag.
THEOREM SubDelivers == Spec => []SubscribedGetsAll
<1>1. DeliveredInv => SubscribedGetsAll
  BY DEF DeliveredInv, Delivered, SubscribedGetsAll
<1> QED BY <1>1, DeliveredAlways, PTL
-----------------------------------------------------------------------------
(* The stream the client sees.                                             *)

LEMMA PhaseOf ==
  /\ pc["send"] = "wait" => Phase = "idle"
  /\ pc["send"] = "check" => Phase = "read"
  /\ pc["send"] = "write" => Phase = "kept"
  /\ pc["send"] = "done" => Phase = "lost"
BY DEF Phase

LEMMA PhaseOfNext ==
  /\ pc'["send"] = "wait" => Phase' = "idle"
  /\ pc'["send"] = "check" => Phase' = "read"
  /\ pc'["send"] = "write" => Phase' = "kept"
  /\ pc'["send"] = "done" => Phase' = "lost"
BY DEF Phase

LEMMA PhaseKept == pc'["send"] = pc["send"] => Phase' = Phase
BY DEF Phase

LEMMA FramesKept == wire' = wire => WholeFrames' = WholeFrames
BY DEF WholeFrames

LEMMA StreamInit == Init => Stream!Init
<1> SUFFICES ASSUME Init PROVE Stream!Init
  OBVIOUS
<1>1. Phase = "idle"
  BY PhaseOf DEF Init, Tasks
<1>2. WholeFrames = <<>>
  <2>1. Len(wire) \div FrameParts = 0
    BY DEF Init, FrameParts
  <2> QED BY <2>1 DEF WholeFrames
<1>3. (pc["recv"] = "write") = FALSE
  BY DEF Init, Tasks
<1> QED BY <1>1, <1>2, <1>3 DEF Init, Stream!Init

\* A sequence with one more element at its end.
LEMMA OneMore ==
  ASSUME NEW S, NEW q \in Seq(S), NEW x \in S, NEW k \in Nat, Len(q) = k,
         NEW h, h = [i \in 1 .. k + 1 |-> h[i]],
         \A i \in 1 .. k : h[i] = q[i], h[k + 1] = x
  PROVE  h = Append(q, x)
<1>1. \A i \in 1 .. k + 1 : i \in 1 .. k \/ i = k + 1
  OBVIOUS
<1>2. \A i \in 1 .. k : q[i] \in S
  OBVIOUS
<1>3. \A i \in 1 .. k + 1 : h[i] \in S
  BY <1>1, <1>2
<1>4. h \in Seq(S) /\ Len(h) = k + 1
  BY <1>3
<1>5. /\ Append(q, x) \in Seq(S) /\ Len(Append(q, x)) = k + 1
      /\ Append(q, x)[k + 1] = x
      /\ \A i \in 1 .. k : Append(q, x)[i] = q[i]
  BY AppendProperties
<1>6. \A i \in 1 .. k + 1 : h[i] = Append(q, x)[i]
  BY <1>1, <1>5
<1> QED BY <1>4, <1>5, <1>6, SeqEqual

\* The first part of a frame is not seen yet; the second shows the frame.
LEMMA WritePartFrames ==
  ASSUME WholeInv, Typed', NEW t \in Tasks, WritePart(t)
  PROVE  WholeFrames' = IF parts[t] = 0 THEN WholeFrames
                        ELSE Append(WholeFrames, [type |-> FrameOf(t).type, pos |-> FrameOf(t).pos])
<1> DEFINE n == Len(wire)
           F == [type : {"DEPTH", "PONG"}, pos : Nat]
           g(i) == [type |-> wire[i * 2].frame.type, pos |-> wire[i * 2].frame.pos]
           x == [type |-> FrameOf(t).type, pos |-> FrameOf(t).pos]
<1>1. /\ n \in Nat /\ DOMAIN wire = 1 .. n /\ Len(wire') = n + 1
      /\ wire'[n + 1].frame = FrameOf(t)
      /\ \A i \in 1 .. n : wire'[i] = wire[i] /\ wire[i].frame \in Frame
  <2>1. wire' = Append(wire, [frame |-> FrameOf(t), part |-> parts[t] + 1])
    BY DEF WritePart
  <2>2. \A i \in DOMAIN wire : wire[i] \in [frame : Frame, part : 1 .. FrameParts]
    BY SeqElements DEF WholeInv, Typed, TypeOK
  <2> QED BY <2>1, <2>2, AppendedPart, PartType DEF WholeInv, Typed
<1>2. parts[t] \in {0, 1} /\ n % 2 = parts[t]
  <2>1. HasLock(t) /\ ~ended /\ peer # "reset"
    BY HolderWrites DEF WritePart, WholeInv
  <2>2. \A u \in Tasks : parts[u] = 0 \/ parts[u] = 1
    BY DEF WholeInv, Typed, TypeOK, FrameParts
  <2>3. \A u \in Tasks : u # t => parts[u] = 0
    BY <2>1, <2>2 DEF WholeInv, HalfFrameIsHolders, HasLock
  <2> QED BY <2>1, <2>2, <2>3 DEF WholeInv, HalfFrameIsHolders, FrameParts, Tasks
<1>3. WholeFrames = [i \in 1 .. n \div 2 |-> g(i)]
  BY DEF WholeFrames, FrameParts
<1>4. WholeFrames' = [i \in 1 .. (n + 1) \div 2 |->
                        [type |-> wire'[i * 2].frame.type, pos |-> wire'[i * 2].frame.pos]]
  BY <1>1 DEF WholeFrames, FrameParts
<1>5. \A i \in 1 .. n \div 2 : i * 2 \in 1 .. n
  BY <1>1
<1>6. CASE parts[t] = 0
  <2>1. (n + 1) \div 2 = n \div 2
    BY <1>1, <1>2, <1>6
  <2>2. \A i \in 1 .. n \div 2 : wire'[i * 2] = wire[i * 2]
    BY <1>1, <1>5
  <2> QED BY <1>3, <1>4, <1>6, <2>1, <2>2
<1>7. CASE parts[t] = 1
  <2>1. /\ (n + 1) \div 2 = n \div 2 + 1 /\ (n \div 2 + 1) * 2 = n + 1
        /\ n \div 2 \in Nat
    BY <1>1, <1>2, <1>7
  <2>2. \A i \in 1 .. n \div 2 : wire'[i * 2] = wire[i * 2] /\ wire[i * 2].frame \in Frame
    BY <1>1, <1>5
  <2>3. x \in F /\ \A i \in 1 .. n \div 2 : g(i) \in F
    <3>1. FrameOf(t) \in Frame
      BY DEF WholeInv, Typed, TypeOK, FrameOf, Frame
    <3> QED BY <3>1, <2>2 DEF Frame
  <2>4. /\ WholeFrames \in Seq(F) /\ Len(WholeFrames) = n \div 2
        /\ \A i \in 1 .. n \div 2 : WholeFrames[i] = g(i)
    BY <1>3, <2>1, <2>3
  <2>5. /\ WholeFrames' = [i \in 1 .. n \div 2 + 1 |-> WholeFrames'[i]]
        /\ \A i \in 1 .. n \div 2 : WholeFrames'[i] = WholeFrames[i]
        /\ WholeFrames'[n \div 2 + 1] = x
    <3>1. \A i \in 1 .. n \div 2 : i \in 1 .. n \div 2 + 1
      BY <2>1
    <3>2. WholeFrames' = [i \in 1 .. n \div 2 + 1 |->
                            [type |-> wire'[i * 2].frame.type, pos |-> wire'[i * 2].frame.pos]]
      BY <1>4, <2>1
    <3>3. n \div 2 + 1 \in 1 .. n \div 2 + 1
      BY <2>1
    <3>4. WholeFrames'[n \div 2 + 1] = x
      BY <1>1, <2>1, <3>2, <3>3
    <3>5. \A i \in 1 .. n \div 2 : WholeFrames'[i] = WholeFrames[i]
      BY <2>2, <2>4, <3>1, <3>2
    <3>6. WholeFrames' = [i \in 1 .. n \div 2 + 1 |-> WholeFrames'[i]]
      BY <3>2
    <3> QED BY <3>4, <3>5, <3>6
  <2> HIDE DEF n, F, x, g
  <2>6. WholeFrames' = Append(WholeFrames, x)
    BY <2>1, <2>3, <2>4, <2>5, OneMore
  <2> QED BY <2>6, <1>7 DEF x
<1> QED BY <1>2, <1>6, <1>7
\* The hub and the client: a broadcast, or nothing the stream shows.
LEMMA EnvironmentStep ==
  ASSUME Typed
  PROVE  /\ \A m \in Message : Publish(m) => Stream!Publish(m)
         /\ (\E r \in Request : ClientSends(r)) \/ ClientReads \/ ClientCloses \/ UNCHANGED vars
              => UNCHANGED Stream!vars
<1>1. ASSUME NEW m \in Message, Publish(m) PROVE Stream!Publish(m)
  BY <1>1, PhaseKept, FramesKept DEF Publish, client, Stream!Publish
<1>2. ASSUME \/ \E r \in Request : ClientSends(r)
             \/ ClientReads \/ ClientCloses \/ UNCHANGED vars
      PROVE  UNCHANGED Stream!vars
  <2>1. UNCHANGED <<feed, subs, held, pc, wire, ended>>
    BY <1>2 DEF ClientSends, ClientReads, ClientCloses, vars
  <2> QED BY <2>1, PhaseKept, FramesKept DEF Stream!vars
<1> QED BY <1>1, <1>2

\* send_loop reads forward, over a gap unseen, and keeps or skips.
LEMMA ReadStep ==
  ASSUME SubsInv, NextMessage
  PROVE  UNCHANGED Stream!vars \/ \E p \in DOMAIN feed : Stream!Read(p)
<1>t. /\ pc \in [Tasks -> {"wait", "check", "write", "done"}] /\ "send" \in Tasks /\ "recv" \in Tasks
      /\ cursor \in Nat \ {0} /\ held < cursor /\ DOMAIN feed = 1 .. Len(feed) /\ Len(feed) \in Nat
  <2>1. held < cursor
    BY DEF SubsInv, Positions
  <2> QED BY <2>1 DEF SubsInv, WholeInv, Typed, TypeOK, Tasks
<1>1. UNCHANGED <<feed, subs, wire, ended>> /\ WholeFrames' = WholeFrames /\ pc["send"] = "wait"
      /\ cursor <= Len(feed)
  BY FramesKept DEF NextMessage
<1>2. CASE cursor < Oldest
  <2>1. UNCHANGED <<held, pc>>
    BY <1>2 DEF NextMessage
  <2> QED BY <1>1, <2>1, PhaseKept DEF Stream!vars
<1>3. CASE ~(cursor < Oldest)
  <2>1. held' = cursor /\ pc' = [pc EXCEPT !["send"] = "check"]
    BY <1>3 DEF NextMessage
  <2>2. pc'["send"] = "check" /\ pc'["recv"] = pc["recv"]
    BY <1>t, <2>1
  <2>3. Phase = "idle" /\ Phase' = "read"
    BY <1>1, <2>2, PhaseOf, PhaseOfNext
  <2>4. cursor \in DOMAIN feed
    BY <1>1, <1>t
  <2>5. Stream!Read(cursor)
    BY <1>1, <1>t, <2>1, <2>2, <2>3 DEF Stream!Read
  <2> QED BY <2>4, <2>5
<1> QED BY <1>2, <1>3

LEMMA FilterStep ==
  ASSUME Typed, Filter
  PROVE  Stream!Keep \/ Stream!Skip
<1>t. pc \in [Tasks -> {"wait", "check", "write", "done"}] /\ "send" \in Tasks /\ "recv" \in Tasks
  BY DEF Typed, TypeOK, Tasks
<1>1. UNCHANGED <<feed, subs, held, wire, ended>> /\ WholeFrames' = WholeFrames
      /\ pc["send"] = "check" /\ pc'["recv"] = pc["recv"] /\ Phase = "read"
  BY <1>t, FramesKept, PhaseOf DEF Filter
<1>2. CASE IsSubscribed(feed[held]) /\ feed[held].kind = "depth"
  <2>1. Phase' = "kept"
    BY <1>2, <1>t, PhaseOfNext DEF Filter
  <2> QED BY <1>1, <1>2, <2>1 DEF Stream!Keep, IsSubscribed
<1>3. CASE ~(IsSubscribed(feed[held]) /\ feed[held].kind = "depth")
  <2>1. Phase' = "idle"
    BY <1>3, <1>t, PhaseOfNext DEF Filter
  <2> QED BY <1>1, <1>3, <2>1 DEF Stream!Skip, IsSubscribed
<1> QED BY <1>2, <1>3

\* recv_loop changes the set, notes a PING, or does nothing the stream shows.
LEMMA RequestStep ==
  ASSUME Typed, HandleFrame \/ ReadFails
  PROVE  \/ UNCHANGED Stream!vars
         \/ Stream!Ping
         \/ \E S \in SUBSET Symbols : Stream!Subscribe(S)
<1>t. pc \in [Tasks -> {"wait", "check", "write", "done"}] /\ "send" \in Tasks /\ "recv" \in Tasks
  BY DEF Typed, TypeOK, Tasks
<1>1. UNCHANGED <<feed, held, wire, ended>> /\ pc["recv"] = "wait"
  BY DEF HandleFrame, ReadFails
<1>2. pc'["send"] = pc["send"]
  BY <1>t DEF HandleFrame, ReadFails
<1>3. WholeFrames' = WholeFrames /\ Phase' = Phase
  BY <1>1, <1>2, FramesKept, PhaseKept
<1>4. CASE subs' = subs
  <2>1. CASE pc'["recv"] = "write"
    BY <1>1, <1>3, <1>4, <2>1 DEF Stream!Ping
  <2>2. CASE pc'["recv"] # "write"
    BY <1>1, <1>3, <1>4, <2>2 DEF Stream!vars
  <2> QED BY <2>1, <2>2
<1>5. CASE subs' # subs
  <2> DEFINE r == Head(inbox)
  <2>1. HandleFrame /\ r \in Request
    BY <1>5 DEF HandleFrame, ReadFails, Typed, TypeOK
  <2>2. r.syms \in SUBSET Symbols
    BY <2>1, RequestType
  <2>3. pc' = pc /\ subs' \in {subs \union r.syms, subs \ r.syms}
    BY <2>1, <1>5 DEF HandleFrame, AddSubscriptions, RemoveSubscriptions
  <2>4. Stream!Subscribe(r.syms)
    BY <1>1, <1>3, <2>3 DEF Stream!Subscribe
  <2> QED BY <2>2, <2>4
<1> QED BY <1>4, <1>5

\* A frame appears with its second part; a failed write gives it up.
LEMMA WriteStep ==
  ASSUME WholeInv, Typed', NEW t \in Tasks, WritePart(t) \/ WriteFails(t)
  PROVE  UNCHANGED Stream!vars \/ Stream!SendDepth \/ Stream!SendPong \/ Stream!GiveUp
<1>t. pc \in [Tasks -> {"wait", "check", "write", "done"}] /\ "send" \in Tasks /\ "recv" \in Tasks
      /\ t \in {"send", "recv"} /\ parts[t] \in {0, 1}
  BY DEF WholeInv, Typed, TypeOK, Tasks, FrameParts
<1>1. UNCHANGED <<feed, subs, held, ended>> /\ pc[t] = "write"
      /\ (t = "send" => Phase = "kept")
  BY PhaseOf DEF WritePart, WriteFails, client, history
<1>2. CASE WritePart(t) /\ parts[t] = 0
  <2>1. pc' = pc /\ WholeFrames' = WholeFrames
    <3>1. WholeFrames' = WholeFrames
      BY <1>2, WritePartFrames
    <3>2. parts[t] + 1 # FrameParts
      BY <1>2 DEF FrameParts
    <3> QED BY <1>2, <3>1, <3>2 DEF WritePart
  <2> QED BY <1>1, <2>1, PhaseKept DEF Stream!vars
<1>3. CASE WritePart(t) /\ parts[t] = 1
  <2>1. /\ pc' = [pc EXCEPT ![t] = "wait"]
        /\ WholeFrames' = Append(WholeFrames, [type |-> FrameOf(t).type, pos |-> FrameOf(t).pos])
    BY <1>3, WritePartFrames DEF WritePart, FrameParts
  <2>2. CASE t = "send"
    <3>1. pc'["send"] = "wait" /\ pc'["recv"] = pc["recv"] /\ Phase' = "idle"
      BY <1>t, <2>1, <2>2, PhaseOfNext
    <3> QED BY <1>1, <2>1, <2>2, <3>1 DEF Stream!SendDepth, FrameOf
  <2>3. CASE t = "recv"
    <3>1. pc'["recv"] = "wait" /\ pc'["send"] = pc["send"] /\ Phase' = Phase
      BY <1>t, <2>1, <2>3, PhaseKept
    <3> QED BY <1>1, <2>1, <2>3, <3>1 DEF Stream!SendPong, FrameOf
  <2> QED BY <1>t, <2>2, <2>3
<1>4. CASE WriteFails(t)
  <2>1. pc' = [pc EXCEPT ![t] = "done"] /\ WholeFrames' = WholeFrames
    BY <1>4, FramesKept DEF WriteFails
  <2>2. CASE t = "send"
    <3>1. pc'["send"] = "done" /\ pc'["recv"] = pc["recv"] /\ Phase' = "lost"
      BY <1>t, <2>1, <2>2, PhaseOfNext
    <3> QED BY <1>1, <2>1, <2>2, <3>1 DEF Stream!GiveUp
  <2>3. CASE t = "recv"
    <3>1. pc'["recv"] = "done" /\ pc'["send"] = pc["send"] /\ Phase' = Phase
      BY <1>t, <2>1, <2>3, PhaseKept
    <3> QED BY <1>1, <2>1, <2>3, <3>1 DEF Stream!GiveUp
  <2> QED BY <1>t, <2>2, <2>3
<1> QED BY <1>t, <1>2, <1>3, <1>4

LEMMA EndStep ==
  ASSUME End
  PROVE  Stream!Leave
<1>1. UNCHANGED <<feed, subs, held, wire>> /\ ~ended /\ ended' = TRUE
      /\ pc'["send"] = "done" /\ pc'["recv"] = "done"
  BY DEF End, Tasks
<1>2. Phase' = "lost" /\ WholeFrames' = WholeFrames
  BY <1>1, PhaseOfNext, FramesKept
<1> QED BY <1>1, <1>2 DEF Stream!Leave

\* Every step of the session is one of the stream or a stutter there.
LEMMA StreamStep == SubsInv /\ SubsInv' /\ [Next]_vars => [Stream!Next]_(Stream!vars)
<1> SUFFICES ASSUME SubsInv, SubsInv', [Next]_vars PROVE [Stream!Next]_(Stream!vars)
  OBVIOUS
<1>t. WholeInv /\ Typed /\ Typed'
  BY DEF SubsInv, WholeInv
<1>1. ASSUME NEW m \in Message, Publish(m) PROVE Stream!Next
  BY <1>1, <1>t, EnvironmentStep DEF Stream!Next, Message
<1>2. CASE \/ \E r \in Request : ClientSends(r)
           \/ ClientReads \/ ClientCloses \/ UNCHANGED vars
  BY <1>2, <1>t, EnvironmentStep
<1>3. CASE NextMessage
  BY <1>3, ReadStep DEF Stream!Next
<1>4. CASE Filter
  BY <1>4, <1>t, FilterStep DEF Stream!Next
<1>5. CASE HandleFrame \/ ReadFails
  BY <1>5, <1>t, RequestStep DEF Stream!Next
<1>6. ASSUME NEW t \in Tasks, WritePart(t) \/ WriteFails(t)
      PROVE  [Stream!Next]_(Stream!vars)
  BY <1>6, <1>t, WriteStep DEF Stream!Next
<1>7. CASE End
  BY <1>7, EndStep DEF Stream!Next
<1> QED
  BY <1>1, <1>2, <1>3, <1>4, <1>5, <1>6, <1>7 DEF Next, SendLoop, RecvLoop, Tasks

\* session.rs:41-144: two tasks that share a set, a lock and a socket look to the
\* client like one actor that sends whole frames in broadcast order.
THEOREM SessionImplementsStream == Spec => ImplementsClientStream
BY StreamInit, StreamStep, SubsAlways, PTL DEF Spec, Stream!Spec, ImplementsClientStream
=============================================================================
