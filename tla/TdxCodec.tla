-------------------------------- MODULE TdxCodec -------------------------------
(***************************************************************************)
(* What decode_depth makes of the body of a quote push: a count, then one  *)
(* record per stock.  A push is known by whether each of its stocks is     *)
(* active and by how many whole records the body really holds.  Stocks are *)
(* numbered by their place; 0 is a stock read from the middle of a record, *)
(* whose bytes may say anything.                                           *)
(***************************************************************************)
EXTENDS Integers, Sequences

CONSTANTS
  MaxBatch,   \* bound: stocks of one push
  RecordLen   \* bytes of a record: header, prices, what follows

\* market, unknown, code, active flag
HeaderLen == 10
\* last, close, open, high, low
PricesLen == 20
Guard == 8 + 24

ASSUME CodecAssumption ==
  /\ MaxBatch \in Nat
  /\ RecordLen \in Nat /\ RecordLen >= HeaderLen + PricesLen

Push == UNION {[active : [1 .. n -> BOOLEAN], held : 0 .. n] : n \in 0 .. MaxBatch}

\* An inactive record is left after its header, so this is where the k-th header
\* is read, counted from the first, as long as no active one came before it.
HeaderAt(k) == HeaderLen * (k - 1)
Remaining(p, k) == p.held * RecordLen - HeaderAt(k)
Read(p) == {k \in DOMAIN p.active : Remaining(p, k) >= Guard}

Genuine(k) == HeaderAt(k) % RecordLen = 0
StockAt(k) == HeaderAt(k) \div RecordLen + 1

\* The first header read as active takes the five prices after it and then every
\* word up to the end of the body, so nothing is left for another record.
First(p, k) == <<IF Genuine(k) THEN StockAt(k) ELSE 0>>
IsActive(p, k) == Genuine(k) /\ p.active[StockAt(k)]
Unread(p, k) == \A j \in Read(p) : IsActive(p, j) => j >= k

\* All results decode_depth may have.
DecodeDepth(p) ==
  {First(p, k) : k \in {j \in Read(p) : Unread(p, j) /\ (IsActive(p, j) \/ ~Genuine(j))}}
    \union (IF \E k \in Read(p) : IsActive(p, k) THEN {} ELSE {<<>>})

\* The active stocks among the records the body holds.
ActiveStocks(p) ==
  SelectSeq([k \in 1 .. p.held |-> k], LAMBDA k : p.active[k])
=============================================================================
