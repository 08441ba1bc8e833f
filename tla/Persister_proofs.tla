--------------------------- MODULE Persister_proofs ----------------------------
(***************************************************************************)
(* Proofs about Persister for every set of sources, symbols and times,     *)
(* every ring, retention and bound, and every pattern of failed calls and  *)
(* ends of the process.                                                    *)
(***************************************************************************)
EXTENDS Persister, FiniteSetTheorems, WellFoundedInduction, TLAPS

USE PersisterAssumption DEF PersisterAssumption

-----------------------------------------------------------------------------
(* Type correctness, and which message is in hand.                         *)

Writing == pc \in {"redis", "trim", "db"}

\* While a message is being written it is the last one taken; a process that is
\* down has nothing left to read.
InHand ==
  /\ held < cursor
  /\ Writing => held # 0
  /\ pc = "down" => cursor = Len(feed) + 1

Typed == TypeOK /\ InHand

LEMMA FeedElement ==
  ASSUME Typed, Writing
  PROVE  /\ held \in 1 .. Len(feed) /\ held \in Positions /\ feed[held] \in Message
         /\ feed[held].sym \in Symbols /\ Bar(feed[held]) \in Bars
         /\ feed[held].kind \in {"depth", "index"} => HashKey(feed[held]) \in HashKeys
<1>1. held \in 1 .. Len(feed) /\ held \in Positions /\ feed[held] \in Message
  BY DEF Typed, TypeOK, InHand, Positions
<1>2. ASSUME NEW m \in Message
      PROVE  /\ m.sym \in Symbols /\ Bar(m) \in Bars
             /\ m.kind \in {"depth", "index"} => HashKey(m) \in HashKeys
  BY DEF Message, Bar, Bars, HashKey, HashKeys
<1> QED BY <1>1, <1>2

LEMMA RowKeyOf ==
  ASSUME NEW m \in Message, m.kind # "financial"
  PROVE  RowKey(m) \in RowKeys
BY DEF Message, RowKey, RowKeys

LEMMA TypedInit == Init => Typed
<1> SUFFICES ASSUME Init PROVE Typed
  OBVIOUS
<1>1. hasRedis \in BOOLEAN /\ hasDb \in BOOLEAN
  BY DEF Init
<1>2. /\ feed \in Seq(Message) /\ Len(feed) = 0 /\ cursor = 1 /\ held = 0 /\ pc = "down"
      /\ crashes \in 0 .. MaxCrashes /\ missed \subseteq Positions
  BY DEF Init
<1>3. /\ snapshot \in [HashKeys -> Positions] /\ rows \in [RowKeys -> Positions]
      /\ bars \in [Symbols -> SUBSET Bars] /\ added \in [Symbols -> SUBSET Bars]
      /\ slips \in [Symbols -> Nat]
  BY DEF Init, Positions
<1>4. TypeOK
  BY <1>1, <1>2, <1>3 DEF TypeOK
<1> QED BY <1>2, <1>4 DEF Typed, InHand, Writing

LEMMA TypedStep == Typed /\ [Next]_vars => Typed'
<1> SUFFICES ASSUME Typed, [Next]_vars PROVE Typed'
  OBVIOUS
<1> USE DEF redis, process
<1>t. /\ TypeOK /\ held \in Nat /\ cursor \in Nat \ {0} /\ Len(feed) \in Nat
      /\ held < cursor /\ cursor <= Len(feed) + 1 /\ Len(feed) <= MaxFeed
  BY DEF Typed, TypeOK, InHand
<1>i. /\ Writing => held # 0
      /\ pc = "down" => cursor = Len(feed) + 1
  BY DEF Typed, InHand
<1>1. CASE Start
  <2>1. hasRedis' \in BOOLEAN /\ hasDb' \in BOOLEAN
    BY <1>1 DEF Start
  <2>2. cursor' \in 1 .. Len(feed') + 1 /\ held' < cursor' /\ ~Writing' /\ pc' = "recv"
    BY <1>1, <1>t DEF Start, Writing
  <2> QED BY <1>1, <1>t, <2>1, <2>2 DEF Start, Typed, TypeOK, InHand
<1>2. CASE Crash
  <2>1. hasRedis' \in BOOLEAN /\ hasDb' \in BOOLEAN
    BY <1>2 DEF Crash
  <2>2. /\ cursor' \in 1 .. Len(feed') + 1 /\ held' < cursor' /\ ~Writing' /\ pc' = "down"
        /\ cursor' = Len(feed') + 1 /\ crashes' \in 0 .. MaxCrashes
    BY <1>2, <1>t DEF Crash, Writing, TypeOK
  <2>3. missed' \subseteq Positions
    <3>1. missed \subseteq Positions /\ cursor .. Len(feed) \subseteq Positions /\ held \in Positions
      BY <1>t DEF TypeOK, Positions
    <3>2. missed' \subseteq missed \union (cursor .. Len(feed)) \union {held}
      BY <1>2 DEF Crash
    <3> QED BY <3>1, <3>2
  <2> QED BY <1>2, <1>t, <2>1, <2>2, <2>3 DEF Crash, Typed, TypeOK, InHand
<1>3. ASSUME NEW m \in Message, Publish(m) PROVE Typed'
  <2>1. feed' \in Seq(Message) /\ Len(feed') = Len(feed) + 1 /\ Len(feed') <= MaxFeed
    BY <1>3, <1>t DEF Publish, TypeOK
  <2>2. cursor' \in 1 .. Len(feed') + 1 /\ held' \in 0 .. Len(feed')
    BY <1>3, <1>t, <2>1 DEF Publish, TypeOK
  <2> QED BY <1>3, <1>t, <1>i, <2>1, <2>2 DEF Publish, Typed, TypeOK, InHand, Writing
<1>4. CASE Take
  <2>1. Oldest \in 1 .. Len(feed)
    BY <1>4, <1>t DEF Take, Oldest
  <2>2. CASE cursor < Oldest
    <3>1. cursor' = Oldest /\ missed' = missed \union (cursor .. Oldest - 1)
      BY <1>4, <2>2 DEF Take
    <3>2. cursor' \in 1 .. Len(feed) + 1 /\ held < cursor' /\ missed' \subseteq Positions
      BY <1>t, <2>1, <2>2, <3>1 DEF TypeOK, Positions
    <3> QED BY <1>4, <1>t, <2>2, <3>2 DEF Take, Typed, TypeOK, InHand, Writing
  <2>3. CASE ~(cursor < Oldest)
    <3>1. /\ cursor' = cursor + 1 /\ held' = cursor /\ pc' = "redis" /\ missed' = missed
          /\ cursor <= Len(feed)
      BY <1>4, <2>3 DEF Take
    <3>2. cursor' \in 1 .. Len(feed) + 1 /\ held' \in 0 .. Len(feed) /\ held' # 0 /\ held' < cursor'
      BY <1>t, <3>1
    <3> QED BY <1>4, <1>t, <3>1, <3>2 DEF Take, Typed, TypeOK, InHand, Writing
  <2> QED BY <2>2, <2>3
<1>5. CASE SkipRedis
  BY <1>5, <1>t, <1>i DEF SkipRedis, Typed, TypeOK, InHand, Writing
<1>6. CASE WriteSnapshot
  <2>1. Writing
    BY <1>6 DEF WriteSnapshot, Writing
  <2>2. snapshot' \in [HashKeys -> Positions]
    BY <1>6, <1>t, <2>1, FeedElement DEF WriteSnapshot, TypeOK
  <2> QED BY <1>6, <1>t, <1>i, <2>2 DEF WriteSnapshot, Typed, TypeOK, InHand, Writing
<1>7. CASE AddBar
  <2>1. Writing
    BY <1>7 DEF AddBar, Writing
  <2>2. feed[held].sym \in Symbols /\ Bar(feed[held]) \in Bars
    BY <2>1, FeedElement
  <2>3. bars' \in [Symbols -> SUBSET Bars] /\ added' \in [Symbols -> SUBSET Bars]
    <3> DEFINE s == feed[held].sym
               b == Bar(feed[held])
    <3>1. \/ UNCHANGED <<bars, added>>
          \/ /\ bars' = [bars EXCEPT ![s] = bars[s] \union {b}]
             /\ added' = [added EXCEPT ![s] = added[s] \union {b}]
      BY <1>7 DEF AddBar
    <3>2. bars \in [Symbols -> SUBSET Bars] /\ added \in [Symbols -> SUBSET Bars]
      BY <1>t DEF TypeOK
    <3>3. bars[s] \union {b} \in SUBSET Bars /\ added[s] \union {b} \in SUBSET Bars
      BY <2>2, <3>2
    <3> HIDE DEF s, b
    <3> QED BY <3>1, <3>2, <3>3
  <2>4. slips' \in [Symbols -> Nat]
    BY <1>7, <1>t, <2>2 DEF AddBar, TypeOK
  <2> QED BY <1>7, <1>t, <1>i, <2>3, <2>4 DEF AddBar, Typed, TypeOK, InHand, Writing
<1>8. CASE TrimBars
  <2>1. bars' \in [Symbols -> SUBSET Bars]
    <3>1. \/ bars' = bars
          \/ bars' = [bars EXCEPT ![feed[held].sym] = Newest(bars[feed[held].sym])]
      BY <1>8 DEF TrimBars
    <3>2. \A S \in SUBSET Bars : Newest(S) \in SUBSET Bars
      BY DEF Newest
    <3>3. feed[held].sym \in Symbols
      BY <1>8, FeedElement DEF TrimBars, Writing
    <3>4. bars \in [Symbols -> SUBSET Bars]
      BY <1>t DEF TypeOK
    <3>5. Newest(bars[feed[held].sym]) \in SUBSET Bars
      BY <3>2, <3>3, <3>4
    <3> QED BY <3>1, <3>4, <3>5
  <2>2. slips' \in [Symbols -> Nat]
    BY <1>8, <1>t DEF TrimBars, TypeOK
  <2> QED BY <1>8, <1>t, <1>i, <2>1, <2>2 DEF TrimBars, Typed, TypeOK, InHand, Writing
<1>9. CASE SkipDatabase \/ WriteRow
  <2>1. Writing
    BY <1>9 DEF SkipDatabase, WriteRow, Writing
  <2>2. held \in Positions
    BY <2>1, FeedElement
  <2>3. rows' \in [RowKeys -> Positions] /\ missed' \subseteq Positions
    BY <1>9, <1>t, <2>2 DEF SkipDatabase, WriteRow, TypeOK
  <2> QED
    BY <1>9, <1>t, <2>3 DEF SkipDatabase, WriteRow, Typed, TypeOK, InHand, Writing
<1>10. CASE UNCHANGED vars
  BY <1>10, <1>t, <1>i DEF vars, Typed, TypeOK, InHand, Writing
<1> QED
  BY <1>1, <1>2, <1>3, <1>4, <1>5, <1>6, <1>7, <1>8, <1>9, <1>10 DEF Next, Run

LEMMA TypedAlways == Spec => []Typed
BY TypedInit, TypedStep, PTL DEF Spec

\* Each variable of the persister and of the two stores keeps its type.
THEOREM TypeCorrect == Spec => []TypeOK
<1>1. Typed => TypeOK
  BY DEF Typed
<1> QED BY <1>1, TypedAlways, PTL
-----------------------------------------------------------------------------
(* The database.                                                           *)

\* Nothing stored is newer than the message in hand, and every message the
\* persister is through with is in the database, excused, or overtaken under its
\* key.  Unlike DatabaseComplete it does not excuse the last message of a process
\* that ended: the next one starts without a word about it.
Behind ==
  /\ \A k \in HashKeys : snapshot[k] <= held
  /\ \A k \in RowKeys : rows[k] <= held

Settled(p) ==
  \/ p \in missed
  \/ Writing /\ p = held
  \/ feed[p].kind # "financial" /\ rows[RowKey(feed[p])] >= p

DatabaseInv ==
  /\ Typed
  /\ Behind
  /\ \A p \in 1 .. cursor - 1 : Settled(p)

LEMMA DatabaseInit == Init => DatabaseInv
<1> SUFFICES ASSUME Init PROVE DatabaseInv
  OBVIOUS
<1>1. Typed
  BY TypedInit
<1>2. Behind /\ \A p \in 1 .. cursor - 1 : Settled(p)
  BY DEF Init, Behind
<1> QED BY <1>1, <1>2 DEF DatabaseInv

LEMMA Facts ==
  ASSUME Typed
  PROVE  /\ held \in Nat /\ cursor \in Nat \ {0} /\ Len(feed) \in Nat
         /\ held < cursor /\ cursor <= Len(feed) + 1
         /\ snapshot \in [HashKeys -> Positions] /\ rows \in [RowKeys -> Positions]
         /\ \A p \in Positions : p \in Nat
         /\ pc = "down" => cursor = Len(feed) + 1
<1>1. held < cursor /\ pc = "down" => cursor = Len(feed) + 1
  BY DEF Typed, InHand
<1> QED BY <1>1 DEF Typed, TypeOK, InHand, Positions

\* A step leaves a message of the past settled unless it stops writing it.
LEMMA StaysSettled ==
  ASSUME Typed, [Next]_vars, NEW p \in 1 .. cursor - 1, Settled(p),
         missed \subseteq missed', feed'[p] = feed[p],
         \A k \in RowKeys : rows'[k] >= rows[k],
         Writing /\ p = held => p \in missed' \/ (Writing' /\ p = held')
  PROVE  Settled(p)'
<1>1. p \in Nat /\ feed[p] \in Message
  BY Facts DEF Typed, TypeOK
<1>2. feed[p].kind # "financial" => RowKey(feed[p]) \in RowKeys
  BY <1>1, RowKeyOf
<1>3. Typed'
  BY TypedStep
<1>4. CASE feed[p].kind # "financial" /\ rows[RowKey(feed[p])] >= p
  <2> DEFINE k == RowKey(feed[p])
  <2>1. k \in RowKeys /\ rows[k] \in Nat /\ rows'[k] \in Nat /\ rows[k] >= p
    <3>1. rows' \in [RowKeys -> Positions] /\ rows \in [RowKeys -> Positions]
      BY <1>3 DEF Typed, TypeOK
    <3> QED BY <1>2, <1>4, <3>1 DEF Positions
  <2>2. rows'[k] >= p
    BY <2>1, <1>1
  <2> QED BY <1>4, <2>2 DEF Settled
<1> QED BY <1>4 DEF Settled

LEMMA TakeStep ==
  ASSUME DatabaseInv, Typed', Take
  PROVE  DatabaseInv'
<1>t. Typed /\ [Next]_vars /\ pc = "recv" /\ cursor <= Len(feed)
  BY DEF DatabaseInv, Next, Run, Take
<1> USE Facts
<1>1. UNCHANGED <<feed, snapshot, rows>> /\ missed \subseteq missed' /\ held' >= held
      /\ ~Writing
  BY <1>t DEF Take, redis, Writing
<1>2. Behind'
  <2>1. held' \in Nat
    BY <1>t DEF Typed, TypeOK
  <2>2. ASSUME NEW k \in HashKeys PROVE snapshot[k] \in Nat /\ snapshot[k] <= held
    BY <1>t, <2>2 DEF DatabaseInv, Behind
  <2>3. ASSUME NEW k \in RowKeys PROVE rows[k] \in Nat /\ rows[k] <= held
    BY <1>t, <2>3 DEF DatabaseInv, Behind
  <2> QED BY <1>1, <1>t, <2>1, <2>2, <2>3 DEF Behind
<1>3. ASSUME NEW p \in 1 .. cursor - 1 PROVE Settled(p)'
  <2>1. \A k \in RowKeys : rows'[k] >= rows[k]
    BY <1>1, <1>t
  <2> QED BY <1>1, <1>t, <2>1, StaysSettled DEF DatabaseInv
<1>4. ASSUME NEW p \in 1 .. cursor' - 1, p >= cursor PROVE Settled(p)'
  BY <1>4, <1>t DEF Take, Settled, Writing, Oldest
<1>5. cursor' \in Nat
  BY DEF Typed, TypeOK
<1>6. \A p \in 1 .. cursor' - 1 : p \in 1 .. cursor - 1 \/ p >= cursor
  BY <1>5, <1>t
<1> QED BY <1>2, <1>3, <1>4, <1>6 DEF DatabaseInv
\* Writing the message in hand to either store, or failing to, moves nothing back
\* and settles the message when the persister goes on to the next.
LEMMA WriteStep ==
  ASSUME DatabaseInv, Typed',
         SkipRedis \/ WriteSnapshot \/ AddBar \/ TrimBars \/ SkipDatabase \/ WriteRow
  PROVE  DatabaseInv' /\ (\A k \in HashKeys : snapshot'[k] >= snapshot[k])
                      /\ (\A k \in RowKeys : rows'[k] >= rows[k])
<1>t. Typed /\ [Next]_vars /\ Writing
  BY DEF DatabaseInv, Next, Run, Writing, SkipRedis, WriteSnapshot, AddBar, TrimBars,
         SkipDatabase, WriteRow
<1>f. /\ held \in Positions /\ feed[held] \in Message
      /\ feed[held].kind \in {"depth", "index"} => HashKey(feed[held]) \in HashKeys
  BY <1>t, FeedElement
<1>1. UNCHANGED <<feed, cursor, held>> /\ missed \subseteq missed'
  BY DEF SkipRedis, WriteSnapshot, AddBar, TrimBars, SkipDatabase, WriteRow, redis, process
<1>2. \/ snapshot' = snapshot
      \/ /\ feed[held].kind \in {"depth", "index"}
         /\ snapshot' = [snapshot EXCEPT ![HashKey(feed[held])] = held]
  BY DEF SkipRedis, WriteSnapshot, AddBar, TrimBars, SkipDatabase, WriteRow, redis
<1>3. \/ rows' = rows
      \/ /\ feed[held].kind # "financial"
         /\ rows' = [rows EXCEPT ![RowKey(feed[held])] = held]
  BY DEF SkipRedis, WriteSnapshot, AddBar, TrimBars, SkipDatabase, WriteRow
<1>4. \/ Writing'
      \/ held \in missed'
      \/ feed[held].kind # "financial" /\ rows' = [rows EXCEPT ![RowKey(feed[held])] = held]
  BY DEF SkipRedis, WriteSnapshot, AddBar, TrimBars, SkipDatabase, WriteRow, Writing
<1>5. ASSUME NEW k \in HashKeys
      PROVE  snapshot'[k] >= snapshot[k] /\ snapshot'[k] <= held
  BY <1>2, <1>5, <1>t, Facts DEF DatabaseInv, Behind, Positions
<1>6. ASSUME NEW k \in RowKeys
      PROVE  rows'[k] >= rows[k] /\ rows'[k] <= held
  BY <1>3, <1>6, <1>t, Facts DEF DatabaseInv, Behind, Positions
<1>7. ASSUME NEW p \in 1 .. cursor - 1 PROVE Settled(p)'
  <2>1. CASE p = held /\ ~Writing' /\ held \notin missed'
    <3>1. RowKey(feed[held]) \in RowKeys /\ feed[held].kind # "financial"
          /\ rows' = [rows EXCEPT ![RowKey(feed[held])] = held]
      BY <1>4, <1>f, <2>1, RowKeyOf
    <3>2. rows'[RowKey(feed[held])] = held
      BY <3>1, <1>t, Facts
    <3> QED BY <1>1, <1>t, <2>1, <3>1, <3>2, Facts DEF Settled
  <2>2. CASE ~(p = held /\ ~Writing' /\ held \notin missed')
    <3>1. Settled(p) /\ feed'[p] = feed[p]
      BY <1>1 DEF DatabaseInv
    <3>2. p = held => p \in missed' \/ (Writing' /\ p = held')
      BY <1>1, <2>2
    <3> QED BY <1>1, <1>6, <1>t, <3>1, <3>2, StaysSettled
  <2> QED BY <2>1, <2>2
<1> QED BY <1>1, <1>5, <1>6, <1>7 DEF DatabaseInv, Behind

\* The process starts, ends or broadcasts: the stores keep what they have.
LEMMA ProcessStep ==
  ASSUME DatabaseInv, Typed',
         Start \/ Crash \/ (\E m \in Message : Publish(m)) \/ UNCHANGED vars
  PROVE  DatabaseInv'
<1>t. Typed /\ [Next]_vars
  BY DEF DatabaseInv, Next
<1>1. UNCHANGED <<held, snapshot, rows>> /\ missed \subseteq missed'
  BY DEF Start, Crash, Publish, vars, redis
<1>2. Behind'
  BY <1>1 DEF DatabaseInv, Behind
<1>3. ASSUME NEW p \in 1 .. cursor - 1 PROVE Settled(p)'
  <2>1. feed'[p] = feed[p]
    <3>1. feed' = feed \/ \E m \in Message : feed' = Append(feed, m)
      BY DEF Start, Crash, Publish, vars
    <3>2. feed \in Seq(Message) /\ p \in 1 .. Len(feed)
      BY <1>t, Facts DEF Typed, TypeOK
    <3> QED BY <3>1, <3>2
  <2>2. \A k \in RowKeys : rows'[k] >= rows[k]
    BY <1>1, <1>t, Facts
  <2>3. Writing => held \in missed' \/ Writing'
    BY DEF Start, Crash, Publish, vars, Writing
  <2>4. Settled(p)
    BY DEF DatabaseInv
  <2> QED BY <1>1, <1>t, <2>1, <2>2, <2>3, <2>4, StaysSettled
<1>4. CASE Crash
  <2>1. cursor' = Len(feed) + 1 /\ (cursor .. Len(feed)) \subseteq missed'
    BY <1>4 DEF Crash
  <2>2. \A p \in 1 .. cursor' - 1 : p \in 1 .. cursor - 1 \/ p \in missed'
    BY <1>t, <2>1, Facts
  <2> QED BY <1>2, <1>3, <2>2 DEF DatabaseInv, Settled
<1>5. CASE Start \/ (\E m \in Message : Publish(m)) \/ UNCHANGED vars
  <2>1. cursor' = cursor
    BY <1>5, <1>t, Facts DEF Start, Publish, vars
  <2> QED BY <1>2, <1>3, <2>1 DEF DatabaseInv
<1> QED BY <1>4, <1>5

LEMMA DatabaseStep == DatabaseInv /\ [Next]_vars => DatabaseInv'
<1> SUFFICES ASSUME DatabaseInv, [Next]_vars PROVE DatabaseInv'
  OBVIOUS
<1>1. Typed'
  BY TypedStep DEF DatabaseInv
<1> QED BY <1>1, TakeStep, WriteStep, ProcessStep DEF Next, Run

LEMMA DatabaseAlways == Spec => []DatabaseInv
BY DatabaseInit, DatabaseStep, PTL DEF Spec

\* persister.rs:43-48: only lag, a database error or the end of the process costs
\* the database a message; the outcome of its Redis write never does.
THEOREM DatabaseStaysComplete == Spec => []DatabaseComplete
<1>1. DatabaseInv => DatabaseComplete
  BY DEF DatabaseInv, DatabaseComplete, Settled, Writing
<1> QED BY <1>1, DatabaseAlways, PTL

\* Snapshots and rows are only replaced by those of later messages, across lag,
\* failed calls and restarts.
THEOREM NothingGoesBack == Spec => StoresNeverGoBack
<1>1. DatabaseInv /\ [Next]_vars
        => [/\ \A k \in HashKeys : snapshot'[k] >= snapshot[k]
            /\ \A k \in RowKeys : rows'[k] >= rows[k]]_vars
  <2> SUFFICES ASSUME DatabaseInv, Next
               PROVE  /\ \A k \in HashKeys : snapshot'[k] >= snapshot[k]
                      /\ \A k \in RowKeys : rows'[k] >= rows[k]
    OBVIOUS
  <2>1. Typed /\ Typed'
    BY TypedStep DEF DatabaseInv
  <2>2. CASE SkipRedis \/ WriteSnapshot \/ AddBar \/ TrimBars \/ SkipDatabase \/ WriteRow
    BY <2>1, <2>2, WriteStep
  <2>3. CASE Start \/ Crash \/ (\E m \in Message : Publish(m)) \/ Take
    <3>1. UNCHANGED <<snapshot, rows>>
      BY <2>3 DEF Start, Crash, Publish, Take, redis
    <3>2. /\ \A k \in HashKeys : snapshot[k] \in Nat
          /\ \A k \in RowKeys : rows[k] \in Nat
      BY <2>1, Facts
    <3> QED BY <3>1, <3>2
  <2> QED BY <2>2, <2>3 DEF Next, Run
<1> QED BY <1>1, DatabaseAlways, PTL DEF Spec, StoresNeverGoBack
-----------------------------------------------------------------------------
(* The sorted sets.  Which bars count as newest is a question of how many   *)
(* are above each, so the proofs rest on cardinalities of finite sets.      *)

\* A nonempty set of natural numbers has a least element.
LEMMA Least ==
  ASSUME NEW T \in SUBSET Nat, T # {}
  PROVE  \E x \in T : \A y \in T : x <= y
<1> DEFINE R == {p \in Nat \X Nat : p[1] < p[2]}
<1>1. IsWellFoundedOn(R, Nat)
  BY NatLessThanWellFounded DEF OpToRel
<1>2. \E x \in T : \A y \in T : <<y, x>> \notin R
  <2> HIDE DEF R
  <2> QED BY <1>1, WFMin
<1>3. \A x, y \in Nat : <<y, x>> \notin R => x <= y
  OBVIOUS
<1> QED BY <1>2, <1>3

\* The bars of S that rank above b.
Above(S, b) == {c \in S : Below(b, c)}

\* Among fewer bars, one that was among the newest still is.
LEMMA NewestOfFewer ==
  ASSUME NEW T \in SUBSET Bars, IsFiniteSet(T), NEW S \in SUBSET T
  PROVE  Newest(T) \cap S \subseteq Newest(S)
<1> SUFFICES ASSUME NEW b \in S, b \in Newest(T) PROVE b \in Newest(S)
  OBVIOUS
<1>1. Above(S, b) \subseteq Above(T, b) /\ IsFiniteSet(Above(T, b))
  BY FS_Subset DEF Above
<1>2. /\ Cardinality(Above(S, b)) \in Nat /\ Cardinality(Above(T, b)) \in Nat
      /\ Cardinality(Above(S, b)) <= Cardinality(Above(T, b))
  BY <1>1, FS_Subset, FS_CardinalityType
<1>3. Cardinality(Above(T, b)) < Keep
  BY DEF Newest, Above
<1> QED BY <1>2, <1>3 DEF Newest, Above

\* Two bars that Below does not tell apart are the same bar.
LEMMA BarFields ==
  /\ \A b \in Bars : b.time \in Nat /\ b.val \in Nat
  /\ \A b, c \in Bars : b.time = c.time /\ b.val = c.val => b = c
<1>1. ASSUME NEW b \in Bars PROVE b.time \in Nat /\ b.val \in Nat
  <2>1. b.time \in Times /\ b.val \in Values
    BY DEF Bars
  <2> QED BY <2>1
<1>2. ASSUME NEW b \in Bars, NEW c \in Bars, b.time = c.time, b.val = c.val
      PROVE  b = c
  BY <1>2 DEF Bars
<1> QED BY <1>1, <1>2

\* A nonempty set of bars has an oldest one: every other bar of it is above.
LEMMA LowestBar ==
  ASSUME NEW S \in SUBSET Bars, S # {}
  PROVE  \E b \in S : \A c \in S \ {b} : Below(b, c)
<1> DEFINE at == {b.time : b \in S}
<1>1. /\ \A b \in S : b.time \in Nat /\ b.val \in Nat
      /\ \A b, c \in S : b.time = c.time /\ b.val = c.val => b = c
  BY BarFields
<1>2. PICK t \in at : \A u \in at : t <= u
  <2>1. at \in SUBSET Nat /\ at # {}
    BY <1>1
  <2> HIDE DEF at
  <2> QED BY <2>1, Least
<1> DEFINE vals == {b.val : b \in {c \in S : c.time = t}}
<1>3. PICK v \in vals : \A w \in vals : v <= w
  <2>1. vals \in SUBSET Nat /\ vals # {}
    BY <1>1, <1>2
  <2> HIDE DEF vals
  <2> QED BY <2>1, Least
<1>4. PICK b \in S : b.time = t /\ b.val = v
  BY <1>3
<1>5. ASSUME NEW c \in S \ {b} PROVE Below(b, c)
  <2>1. t <= c.time /\ (c.time = t => v <= c.val)
    BY <1>2, <1>3
  <2>2. c.time # b.time \/ c.val # b.val
    BY <1>1
  <2> QED BY <1>1, <1>4, <2>1, <2>2 DEF Below
<1> QED BY <1>5

\* There are at most Keep newest bars: the lowest of them has all the others
\* above it.
LEMMA NewestAreFew ==
  ASSUME NEW S \in SUBSET Bars, IsFiniteSet(S)
  PROVE  /\ IsFiniteSet(Newest(S))
         /\ Cardinality(Newest(S)) <= Keep
<1> DEFINE N == Newest(S)
<1>1. N \in SUBSET S /\ N \in SUBSET Bars /\ IsFiniteSet(N)
  <2>1. N \in SUBSET S
    BY DEF Newest
  <2> QED BY <2>1, FS_Subset
<1>2. CASE N = {}
  BY <1>1, <1>2, FS_EmptySet
<1>3. CASE N # {}
  <2>1. PICK b \in N : \A c \in N \ {b} : Below(b, c)
    <3> HIDE DEF N
    <3> QED BY <1>1, <1>3, LowestBar
  <2>2. Cardinality(N \ {b}) = Cardinality(N) - 1 /\ Cardinality(N) \in Nat
    <3> HIDE DEF N
    <3> QED BY <1>1, FS_RemoveElement, FS_CardinalityType
  <2>3. N \ {b} \subseteq Above(S, b) /\ IsFiniteSet(Above(S, b))
    BY <1>1, <2>1, FS_Subset DEF Above
  <2>4. Cardinality(N \ {b}) <= Cardinality(Above(S, b)) /\ Cardinality(Above(S, b)) \in Nat
    <3> HIDE DEF N
    <3> QED BY <2>3, FS_Subset, FS_CardinalityType
  <2>5. Cardinality(Above(S, b)) < Keep
    BY <2>1 DEF Newest, Above
  <2> HIDE DEF N
  <2>6. Cardinality(N) <= Keep
    BY <2>2, <2>4, <2>5
  <2> QED BY <1>1, <2>6 DEF N
<1> QED BY <1>2, <1>3

\* A sorted set holds the newest of all bars Redis took for the symbol, and only
\* bars it took: a trim that ranks within the set ranks no bar lower than it
\* ranks among all of them.
SortedSet(s) ==
  /\ IsFiniteSet(added[s])
  /\ bars[s] \subseteq added[s]
  /\ Newest(added[s]) \subseteq bars[s]
  /\ Cardinality(bars[s]) <= Keep + slips[s]

BarsInv == Typed /\ \A s \in Symbols : SortedSet(s)

LEMMA BarsInit == Init => BarsInv
<1> SUFFICES ASSUME Init PROVE BarsInv
  OBVIOUS
<1>1. ASSUME NEW s \in Symbols PROVE SortedSet(s)
  <2>1. added[s] = {} /\ bars[s] = {} /\ slips[s] = 0
    BY DEF Init
  <2>2. Newest(added[s]) \subseteq added[s]
    BY DEF Newest
  <2> QED BY <2>1, <2>2, FS_EmptySet DEF SortedSet
<1> QED BY <1>1, TypedInit DEF BarsInv

\* One more bar, in the set and among those ever taken.
LEMMA OneMoreBar ==
  ASSUME NEW A \in SUBSET Bars, NEW B \in SUBSET A, IsFiniteSet(A), Newest(A) \subseteq B,
         NEW b \in Bars
  PROVE  /\ IsFiniteSet(A \union {b})
         /\ Newest(A \union {b}) \subseteq B \union {b}
         /\ Cardinality(B) \in Nat /\ Cardinality(B \union {b}) \in Nat
         /\ Cardinality(B \union {b}) <= Cardinality(B) + 1
<1>1. IsFiniteSet(A \union {b}) /\ IsFiniteSet(B) /\ IsFiniteSet(B \union {b})
  BY FS_AddElement, FS_Subset
<1>2. Newest(A \union {b}) \cap A \subseteq Newest(A)
  BY <1>1, NewestOfFewer
<1>3. Newest(A \union {b}) \subseteq A \union {b}
  BY DEF Newest
<1>4. Cardinality(B) \in Nat /\ Cardinality(B \union {b}) \in Nat
  BY <1>1, FS_CardinalityType
<1>5. Cardinality(B \union {b}) <= Cardinality(B) + 1
  BY <1>1, <1>4, FS_AddElement
<1> QED BY <1>1, <1>2, <1>3, <1>4, <1>5

\* A trim that goes through.
LEMMA TrimmedSet ==
  ASSUME NEW A \in SUBSET Bars, NEW B \in SUBSET A, IsFiniteSet(A), Newest(A) \subseteq B
  PROVE  /\ Newest(B) \subseteq A /\ Newest(A) \subseteq Newest(B)
         /\ Cardinality(Newest(B)) <= Keep
<1>1. IsFiniteSet(B) /\ B \in SUBSET Bars
  BY FS_Subset
<1>2. Newest(A) \cap B \subseteq Newest(B)
  BY NewestOfFewer
<1>3. Newest(B) \subseteq B
  BY DEF Newest
<1> QED BY <1>1, <1>2, <1>3, NewestAreFew

LEMMA BarsStep == BarsInv /\ [Next]_vars => BarsInv'
<1> SUFFICES ASSUME BarsInv, [Next]_vars, NEW s \in Symbols PROVE SortedSet(s)'
  BY TypedStep DEF BarsInv
<1>t. Typed /\ Typed' /\ SortedSet(s)
  BY TypedStep DEF BarsInv
<1>a. /\ added \in [Symbols -> SUBSET Bars] /\ bars \in [Symbols -> SUBSET Bars]
      /\ slips \in [Symbols -> Nat]
  BY <1>t DEF Typed, TypeOK
<1> DEFINE d == feed[held].sym
           b == Bar(feed[held])
<1>1. CASE UNCHANGED <<bars, added, slips>>
  BY <1>1, <1>t DEF SortedSet
<1>2. CASE AddBar /\ ~ UNCHANGED <<bars, added, slips>>
  <2>1. d \in Symbols /\ b \in Bars
    BY <1>t, <1>2, FeedElement DEF AddBar, Writing
  <2>2. /\ bars' = [bars EXCEPT ![d] = bars[d] \union {b}]
        /\ added' = [added EXCEPT ![d] = added[d] \union {b}]
        /\ slips' = [slips EXCEPT ![d] = slips[d] + 1]
    BY <1>2 DEF AddBar
  <2> HIDE DEF d, b
  <2>3. CASE s = d
    <3>1. /\ bars'[s] = bars[s] \union {b} /\ added'[s] = added[s] \union {b}
          /\ slips'[s] = slips[s] + 1 /\ slips[s] \in Nat
      BY <1>a, <2>2, <2>3
    <3>2. /\ IsFiniteSet(added[s] \union {b})
          /\ Newest(added[s] \union {b}) \subseteq bars[s] \union {b}
          /\ Cardinality(bars[s]) \in Nat /\ Cardinality(bars[s] \union {b}) \in Nat
          /\ Cardinality(bars[s] \union {b}) <= Cardinality(bars[s]) + 1
      <4>1. /\ added[s] \in SUBSET Bars /\ bars[s] \in SUBSET added[s]
            /\ IsFiniteSet(added[s]) /\ Newest(added[s]) \subseteq bars[s]
        BY <1>a, <1>t DEF SortedSet
      <4> QED BY <2>1, <4>1, OneMoreBar
    <3>3. Cardinality(bars[s] \union {b}) <= Keep + (slips[s] + 1)
      BY <1>t, <3>1, <3>2 DEF SortedSet
    <3> QED BY <1>t, <3>1, <3>2, <3>3 DEF SortedSet
  <2>4. CASE s # d
    BY <1>a, <1>t, <2>2, <2>4 DEF SortedSet
  <2> QED BY <2>3, <2>4
<1>3. CASE TrimBars /\ ~ UNCHANGED <<bars, slips>>
  <2>1. d \in Symbols
    BY <1>t, <1>3, FeedElement DEF TrimBars, Writing
  <2>2. /\ bars' = [bars EXCEPT ![d] = Newest(bars[d])]
        /\ slips' = [slips EXCEPT ![d] = 0]
        /\ added' = added
    BY <1>3 DEF TrimBars
  <2> HIDE DEF d
  <2>3. CASE s = d
    <3>1. bars'[s] = Newest(bars[s]) /\ added'[s] = added[s] /\ slips'[s] = 0
      BY <1>a, <2>2, <2>3
    <3>2. /\ added[s] \in SUBSET Bars /\ bars[s] \in SUBSET added[s]
          /\ IsFiniteSet(added[s]) /\ Newest(added[s]) \subseteq bars[s]
      BY <1>a, <1>t DEF SortedSet
    <3>3. /\ Newest(bars[s]) \subseteq added[s] /\ Newest(added[s]) \subseteq Newest(bars[s])
          /\ Cardinality(Newest(bars[s])) <= Keep
      BY <3>2, TrimmedSet
    <3> QED BY <3>1, <3>2, <3>3 DEF SortedSet
  <2>4. CASE s # d
    BY <1>a, <1>t, <2>2, <2>4 DEF SortedSet
  <2> QED BY <2>3, <2>4
<1>4. \/ UNCHANGED <<bars, added, slips>>
      \/ AddBar /\ ~ UNCHANGED <<bars, added, slips>>
      \/ TrimBars /\ ~ UNCHANGED <<bars, slips>>
  <2>1. CASE Start \/ Crash \/ (\E m \in Message : Publish(m)) \/ Take \/ SkipRedis
              \/ WriteSnapshot \/ SkipDatabase \/ WriteRow \/ UNCHANGED vars
    BY <2>1 DEF Start, Crash, Publish, Take, SkipRedis, WriteSnapshot, SkipDatabase,
                WriteRow, vars, redis
  <2>2. CASE AddBar \/ TrimBars
    BY <2>2 DEF AddBar, TrimBars
  <2> QED BY <2>1, <2>2 DEF Next, Run
<1> QED BY <1>1, <1>2, <1>3, <1>4

LEMMA BarsAlways == Spec => []BarsInv
BY BarsInit, BarsStep, PTL DEF Spec

\* redis_store.rs:40-47: no failure between adding a bar and trimming the set
\* loses one of the newest bars, and what a set holds beyond its limit is at most
\* one bar for each addition since the last trim that went through.
THEOREM NewestBarsKept == Spec => []BarsAreNewest
<1>1. BarsInv => BarsAreNewest
  BY DEF BarsInv, BarsAreNewest, SortedSet
<1> QED BY <1>1, BarsAlways, PTL
=============================================================================
