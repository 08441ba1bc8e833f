------------------------------- MODULE Persister -------------------------------
(***************************************************************************)
(* The persister: one task that takes messages off the hub's broadcast and *)
(* writes each first to Redis, then to the database.  Both outlive the     *)
(* process; every call to them may fail, and a failed call may or may not  *)
(* have been applied.  Failures are only logged.  A stored value is named  *)
(* by the feed position of the message it came from.                       *)
(***************************************************************************)
EXTENDS Integers, Sequences, FiniteSets

CONSTANTS
  Sources, Symbols, Times,
  Values,        \* what else a bar holds, as far as two bars can differ
  BroadcastCap,  \* messages the broadcast ring keeps
  Keep,          \* bars a sorted set keeps (5000 in redis_store.rs)
  MaxFeed,       \* bound: messages broadcast
  MaxCrashes     \* bound: ends of the process

ASSUME PersisterAssumption ==
  /\ BroadcastCap \in Nat \ {0}
  /\ Keep \in Nat \ {0}
  /\ Times \subseteq Nat /\ Values \subseteq Nat
  /\ MaxFeed \in Nat /\ MaxCrashes \in Nat

VARIABLES
  feed,      \* everything the hub broadcast
  cursor,    \* next feed position of the persister's receiver
  pc,        \* where run() is; "down" while there is no process
  held,      \* feed position of the message being written
  hasRedis,  \* Persister::redis is Some
  hasDb,     \* Persister::database is Some
  snapshot,  \* Redis hashes quote:depth and quote:index
  bars,      \* Redis sorted sets quote:kline
  rows,      \* database tables depth_tick, kline, index_quote
  crashes,   \* how often the process ended
  missed,    \* history: positions the database cannot be expected to have
  slips,     \* history: bars added since the last trim that went through
  added      \* history: bars Redis ever took

vars == <<feed, cursor, pc, held, hasRedis, hasDb, snapshot, bars, rows,
          crashes, missed, slips, added>>
redis == <<snapshot, bars, slips, added>>
process == <<hasRedis, hasDb, crashes>>

\* Financial data has no store.
Message == [kind : {"depth", "kline", "index", "financial"}, src : Sources,
            sym : Symbols, time : Times, val : Values]

\* Hashes have neither source nor time in their key, tables have both.
HashKey(m) == <<m.kind, m.sym>>
HashKeys == {"depth", "index"} \X Symbols
RowKey(m) == <<m.kind, m.src, m.sym, m.time>>
RowKeys == {"depth", "kline", "index"} \X Sources \X Symbols \X Times

\* Variant: the member is the whole message, its source included.
BarWithSource(m) == [time |-> m.time, val |-> m.val, src |-> m.src]

\* A member of the sorted set is the whole bar, its score the opening time.
Bar(m) == [time |-> m.time, val |-> m.val]
Bars == [time : Times, val : Values]
Below(b, c) == b.time < c.time \/ (b.time = c.time /\ b.val < c.val)

Init ==
  /\ feed = <<>>
  /\ cursor = 1
  /\ pc = "down"
  /\ held = 0
  /\ hasRedis = FALSE /\ hasDb = FALSE
  /\ snapshot = [k \in HashKeys |-> 0]
  /\ bars = [s \in Symbols |-> {}]
  /\ rows = [k \in RowKeys |-> 0]
  /\ crashes = 0
  /\ missed = {}
  /\ slips = [s \in Symbols |-> 0]
  /\ added = [s \in Symbols |-> {}]

-----------------------------------------------------------------------------
\* Variant: the schema is dropped and created again at each start.
StartWiping ==
  /\ pc = "down"
  /\ pc' = "recv"
  /\ hasRedis' \in BOOLEAN
  /\ hasDb' \in BOOLEAN
  /\ cursor' = Len(feed) + 1
  /\ rows' = IF hasDb' THEN [k \in RowKeys |-> 0] ELSE rows
  /\ UNCHANGED <<feed, held, redis, crashes, missed>>

\* Persister::new: a store that cannot be reached now stays None for good.
Start ==
  /\ pc = "down"
  /\ pc' = "recv"
  /\ hasRedis' \in BOOLEAN
  /\ hasDb' \in BOOLEAN
  /\ cursor' = Len(feed) + 1
  /\ UNCHANGED <<feed, held, redis, rows, crashes, missed>>

\* The process ends; what the receiver had not finished is gone.
Crash ==
  /\ pc # "down"
  /\ crashes < MaxCrashes
  /\ pc' = "down"
  /\ crashes' = crashes + 1
  /\ missed' = missed \union (cursor .. Len(feed))
                 \union (IF pc = "recv" THEN {} ELSE {held})
  /\ hasRedis' = FALSE /\ hasDb' = FALSE
  /\ cursor' = Len(feed) + 1
  /\ UNCHANGED <<feed, held, redis, rows>>

\* The hub only runs while the process does.
Publish(m) ==
  /\ pc # "down"
  /\ Len(feed) < MaxFeed
  /\ feed' = Append(feed, m)
  /\ UNCHANGED <<cursor, pc, held, redis, rows, process, missed>>

-----------------------------------------------------------------------------
(* run().                                                                  *)

Oldest == IF Len(feed) > BroadcastCap THEN Len(feed) - BroadcastCap + 1 ELSE 1

Take ==
  /\ pc = "recv"
  /\ cursor <= Len(feed)
  /\ IF cursor < Oldest
     THEN /\ cursor' = Oldest
          /\ missed' = missed \union (cursor .. Oldest - 1)
          /\ UNCHANGED <<pc, held>>
     ELSE /\ cursor' = cursor + 1
          /\ held' = cursor
          /\ pc' = "redis"
          /\ UNCHANGED missed
  /\ UNCHANGED <<feed, redis, rows, process>>

\* No Redis, or nothing to write there.
SkipRedis ==
  /\ pc = "redis"
  /\ ~hasRedis \/ feed[held].kind = "financial"
  /\ pc' = "db"
  /\ UNCHANGED <<feed, cursor, held, redis, rows, process, missed>>

\* Variant: an error of Redis is passed on with ?, before the database is tried.
WriteSnapshotOrGiveUp ==
  /\ pc = "redis"
  /\ hasRedis
  /\ feed[held].kind \in {"depth", "index"}
  /\ \/ snapshot' = [snapshot EXCEPT ![HashKey(feed[held])] = held] /\ pc' = "db"
     \/ snapshot' = snapshot /\ pc' = "recv"
  /\ UNCHANGED <<feed, cursor, held, bars, slips, added, rows, process, missed>>

\* HSET overwrites the snapshot of the symbol, whichever source it came from.
WriteSnapshot ==
  /\ pc = "redis"
  /\ hasRedis
  /\ feed[held].kind \in {"depth", "index"}
  /\ snapshot' \in {snapshot, [snapshot EXCEPT ![HashKey(feed[held])] = held]}
  /\ pc' = "db"
  /\ UNCHANGED <<feed, cursor, held, bars, slips, added, rows, process, missed>>

\* ZADD of the bar, then ZREMRANGEBYRANK: two calls.  An error of the first
\* skips the second, also when the bar was added.
AddBar ==
  /\ pc = "redis"
  /\ hasRedis
  /\ feed[held].kind = "kline"
  /\ LET s == feed[held].sym IN
       /\ \/ UNCHANGED <<bars, slips, added>> /\ pc' = "db"
          \/ /\ bars' = [bars EXCEPT ![s] = @ \union {Bar(feed[held])}]
             /\ added' = [added EXCEPT ![s] = @ \union {Bar(feed[held])}]
             /\ slips' = [slips EXCEPT ![s] = @ + 1]
             /\ pc' \in {"trim", "db"}
  /\ UNCHANGED <<feed, cursor, held, snapshot, rows, process, missed>>

\* Variant: one rank too many is kept.
NewestAndOne(S) == {b \in S : Cardinality({c \in S : Below(b, c)}) <= Keep}
Newest(S) == {b \in S : Cardinality({c \in S : Below(b, c)}) < Keep}

TrimBars ==
  /\ pc = "trim"
  /\ LET s == feed[held].sym IN
       \/ UNCHANGED <<bars, slips>>
       \/ /\ bars' = [bars EXCEPT ![s] = Newest(@)]
          /\ slips' = [slips EXCEPT ![s] = 0]
  /\ pc' = "db"
  /\ UNCHANGED <<feed, cursor, held, snapshot, added, rows, process, missed>>

SkipDatabase ==
  /\ pc = "db"
  /\ ~hasDb \/ feed[held].kind = "financial"
  /\ pc' = "recv"
  /\ missed' = missed \union {held}
  /\ UNCHANGED <<feed, cursor, held, redis, rows, process>>

\* Variant: a message whose row failed is written again from the start.
WriteRowAgain ==
  /\ pc = "db"
  /\ hasDb
  /\ feed[held].kind # "financial"
  /\ \/ rows' = [rows EXCEPT ![RowKey(feed[held])] = held] /\ pc' = "recv"
     \/ rows' = rows /\ pc' = "redis"
  /\ UNCHANGED <<feed, cursor, held, redis, process, missed>>

\* INSERT ... ON CONFLICT DO UPDATE on source, market, code and time.
WriteRow ==
  /\ pc = "db"
  /\ hasDb
  /\ feed[held].kind # "financial"
  /\ \/ rows' = [rows EXCEPT ![RowKey(feed[held])] = held] /\ UNCHANGED missed
     \/ rows' = rows /\ missed' = missed \union {held}
  /\ pc' = "recv"
  /\ UNCHANGED <<feed, cursor, held, redis, process>>

Run ==
  Take \/ SkipRedis \/ WriteSnapshot \/ AddBar \/ TrimBars \/ SkipDatabase \/ WriteRow

Next ==
  \/ Start
  \/ Crash
  \/ \E m \in Message : Publish(m)
  \/ Run

\* The task is polled while the process runs and calls to the stores return,
\* with success or with an error; nothing brings a dead process back.
Fairness == WF_vars(Run)

Spec == Init /\ [][Next]_vars /\ Fairness

-----------------------------------------------------------------------------
Positions == 0 .. MaxFeed

TypeOK ==
  /\ feed \in Seq(Message) /\ Len(feed) <= MaxFeed
  /\ cursor \in 1 .. Len(feed) + 1
  /\ pc \in {"down", "recv", "redis", "trim", "db"}
  /\ held \in 0 .. Len(feed)
  /\ hasRedis \in BOOLEAN /\ hasDb \in BOOLEAN
  /\ snapshot \in [HashKeys -> Positions]
  /\ bars \in [Symbols -> SUBSET Bars]
  /\ rows \in [RowKeys -> Positions]
  /\ crashes \in 0 .. MaxCrashes
  /\ missed \subseteq Positions
  /\ slips \in [Symbols -> Nat]
  /\ added \in [Symbols -> SUBSET Bars]

\* Neither lag nor errors nor a restart makes a stored snapshot or row older
\* than it was: writes reach both stores in feed order.
StoresNeverGoBack ==
  [][/\ \A k \in HashKeys : snapshot'[k] >= snapshot[k]
     /\ \A k \in RowKeys : rows'[k] >= rows[k]]_vars

\* persister.rs:43-48: the database has every message the persister took while
\* it was connected, or a later one under the same key, whatever happened to the
\* Redis write of that message; only lag, a database error or a crash costs one.
DatabaseComplete ==
  \A p \in 1 .. cursor - 1 :
    p \in missed
    \/ (pc # "recv" /\ p = held)
    \/ rows[RowKey(feed[p])] >= p

\* redis_store.rs:40-47: whatever fails or ends between adding and trimming, a
\* sorted set holds the newest of all bars it ever took, and exceeds what it keeps
\* by no more than the additions since its last successful trim.
BarsAreNewest ==
  \A s \in Symbols :
    /\ Newest(added[s]) \subseteq bars[s]
    /\ Cardinality(bars[s]) <= Keep + slips[s]

\* However the stores fail, the persister gets past every message or the process
\* has ended: no error makes it stop or try for ever.
PersisterGoesOn ==
  \A p \in 1 .. MaxFeed : Len(feed) >= p ~> cursor > p \/ pc = "down"

IsDepth(p) == p \in DOMAIN feed /\ feed[p].kind = "depth"

\* docs/superpowers/specs/2026-05-18-fastquote-design.md:237: every quote goes
\* to Redis in real time, so that the latest state can be queried.  A failed
\* write is logged and not repeated, and a Redis that was away when the process
\* started is never tried again.
SnapshotCatchesUp ==
  \A p \in 1 .. MaxFeed :
    IsDepth(p) ~> pc = "down" \/ (IsDepth(p) /\ snapshot[HashKey(feed[p])] >= p)
=============================================================================
