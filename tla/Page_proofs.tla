------------------------------ MODULE Page_proofs -------------------------------
(***************************************************************************)
(* Proofs about Page for every set of rows and of times, every length of   *)
(* the history, and every order of messages, breaks and clicks.            *)
(***************************************************************************)
EXTENDS Page, FiniteSetTheorems, SequenceTheorems, WellFoundedInduction, TLAPS

USE PageAssumption DEF PageAssumption

-----------------------------------------------------------------------------
(* The sort: every point gets a place of its own, and a later place never   *)
(* has an earlier time.                                                     *)

Before(s, j, i) == s[j] < s[i] \/ (s[j] = s[i] /\ j <= i)

LEMMA RankOf ==
  ASSUME NEW n \in Nat, NEW s \in [1 .. n -> Nat], NEW i \in 1 .. n
  PROVE  Rank(s, i) \in 1 .. n
<1> DEFINE J == {j \in 1 .. n : Before(s, j, i)}
<1>1. Rank(s, i) = Cardinality(J)
  BY DEF Rank, Before
<1>2. IsFiniteSet(1 .. n) /\ Cardinality(1 .. n) = n
  BY FS_Interval
<1>3. J \in SUBSET (1 .. n) /\ J # {}
  <2>1. Before(s, i, i)
    BY DEF Before
  <2> QED BY <2>1
<1> HIDE DEF J
<1>4. IsFiniteSet(J) /\ Cardinality(J) <= n /\ Cardinality(J) \in Nat
  <2>1. IsFiniteSet(J) /\ Cardinality(J) <= Cardinality(1 .. n)
    BY <1>2, <1>3, FS_Subset
  <2> QED BY <1>2, <2>1, FS_CardinalityType
<1>5. Cardinality(J) # 0
  BY <1>3, <1>4, FS_EmptySet
<1> QED BY <1>1, <1>4, <1>5

LEMMA RankGrows ==
  ASSUME NEW n \in Nat, NEW s \in [1 .. n -> Nat], NEW i \in 1 .. n, NEW j \in 1 .. n,
         Before(s, j, i), i # j
  PROVE  Rank(s, j) < Rank(s, i)
<1> DEFINE I == {k \in 1 .. n : Before(s, k, i)}
           J == {k \in 1 .. n : Before(s, k, j)}
<1>1. Rank(s, i) = Cardinality(I) /\ Rank(s, j) = Cardinality(J)
  BY DEF Rank, Before
<1>2. IsFiniteSet(1 .. n)
  BY FS_Interval
<1>3. I \in SUBSET (1 .. n) /\ J \in SUBSET (1 .. n)
  OBVIOUS
<1>4. J \subseteq I
  BY DEF Before
<1>5. i \in I \ J
  BY DEF Before
<1> HIDE DEF I, J
<1>6. IsFiniteSet(I) /\ IsFiniteSet(J)
  BY <1>2, <1>3, FS_Subset
<1>7. Cardinality(J) <= Cardinality(I) /\ Cardinality(J) # Cardinality(I)
  BY <1>4, <1>5, <1>6, FS_Subset
<1>8. Cardinality(I) \in Nat /\ Cardinality(J) \in Nat
  BY <1>6, FS_CardinalityType
<1> QED BY <1>1, <1>7, <1>8

\* Some point has each place, and only one.
LEMMA RankIsBijective ==
  ASSUME NEW n \in Nat, NEW s \in [1 .. n -> Nat]
  PROVE  /\ \A i, j \in 1 .. n : Rank(s, i) = Rank(s, j) => i = j
         /\ \A r \in 1 .. n : \E i \in 1 .. n : Rank(s, i) = r
<1>1. ASSUME NEW i \in 1 .. n, NEW j \in 1 .. n, Rank(s, i) = Rank(s, j) PROVE i = j
  <2>1. Before(s, i, j) \/ Before(s, j, i)
    BY DEF Before
  <2>2. Rank(s, i) \in 1 .. n /\ Rank(s, j) \in 1 .. n
    BY RankOf
  <2> QED BY <1>1, <2>1, <2>2, RankGrows
<1> DEFINE f == [i \in 1 .. n |-> Rank(s, i)]
<1>2. f \in Injection(1 .. n, 1 .. n)
  <2>1. f \in [1 .. n -> 1 .. n]
    BY RankOf
  <2> QED BY <1>1, <2>1 DEF Injection, IsInjective
<1>3. f \in Surjection(1 .. n, 1 .. n)
  <2> HIDE DEF f
  <2> QED BY <1>2, FS_Interval, FS_Injection
<1>4. \A r \in 1 .. n : \E i \in 1 .. n : f[i] = r
  <2> HIDE DEF f
  <2> QED BY <1>3 DEF Surjection
<1> QED BY <1>1, <1>4

\* A sorted history has the same points, each as often as before, by time.
LEMMA SortedOf ==
  ASSUME NEW T \in SUBSET Nat, NEW s \in Seq(T)
  PROVE  /\ Sorted(s) \in Seq(T) /\ Len(Sorted(s)) = Len(s)
         /\ ToSet(Sorted(s)) = ToSet(s)
         /\ IsInjective(s) => IsInjective(Sorted(s))
         /\ \A m, n \in 1 .. Len(s) : m < n => Sorted(s)[m] <= Sorted(s)[n]
<1> DEFINE n == Len(s)
           at(r) == CHOOSE i \in 1 .. n : Rank(s, i) = r
<1>1. n \in Nat /\ DOMAIN s = 1 .. n /\ s \in [1 .. n -> T] /\ s \in [1 .. n -> Nat]
  BY LenProperties
<1>2. Sorted(s) = [r \in 1 .. n |-> s[at(r)]]
  BY <1>1 DEF Sorted
<1>r. /\ \A i, j \in 1 .. n : Rank(s, i) = Rank(s, j) => i = j
      /\ \A r \in 1 .. n : \E i \in 1 .. n : Rank(s, i) = r
      /\ \A i \in 1 .. n : Rank(s, i) \in 1 .. n
  <2> HIDE DEF n
  <2> QED BY <1>1, RankIsBijective, RankOf
<1>3. \A r \in 1 .. n : at(r) \in 1 .. n /\ Rank(s, at(r)) = r
  BY <1>r
<1>4. \A i \in 1 .. n : at(Rank(s, i)) = i
  BY <1>r, <1>3
<1> HIDE DEF at
<1>5. Sorted(s) \in Seq(T) /\ Len(Sorted(s)) = n /\ DOMAIN Sorted(s) = 1 .. n
  <2>1. Sorted(s) \in [1 .. n -> T]
    BY <1>1, <1>2, <1>3
  <2>2. DOMAIN Sorted(s) = 1 .. n
    BY <1>2
  <2> QED BY <1>1, <2>1, <2>2, SeqDef, LenProperties
<1>6. ToSet(Sorted(s)) = ToSet(s)
  <2>1. ASSUME NEW r \in 1 .. n PROVE Sorted(s)[r] \in ToSet(s)
    BY <1>1, <1>2, <1>3 DEF ToSet
  <2>2. ASSUME NEW i \in 1 .. n PROVE s[i] \in ToSet(Sorted(s))
    BY <1>2, <1>4, <1>5, <1>r DEF ToSet
  <2> QED BY <1>1, <1>5, <2>1, <2>2 DEF ToSet
<1>7. ASSUME IsInjective(s) PROVE IsInjective(Sorted(s))
  <2> SUFFICES ASSUME NEW a \in 1 .. n, NEW b \in 1 .. n, Sorted(s)[a] = Sorted(s)[b]
               PROVE  a = b
    BY <1>5 DEF IsInjective
  <2>1. at(a) = at(b)
    BY <1>1, <1>2, <1>3, <1>7 DEF IsInjective
  <2> QED BY <1>3, <2>1
<1>8. ASSUME NEW a \in 1 .. n, NEW b \in 1 .. n, a < b PROVE Sorted(s)[a] <= Sorted(s)[b]
  <2>1. /\ at(a) \in 1 .. n /\ at(b) \in 1 .. n
        /\ Rank(s, at(a)) = a /\ Rank(s, at(b)) = b
    BY <1>3
  <2>2. ~ Before(s, at(b), at(a))
    <3>1. at(a) # at(b)
      BY <1>8, <2>1
    <3> HIDE DEF n
    <3> QED BY <1>1, <1>8, <2>1, <3>1, RankGrows
  <2>3. s[at(a)] \in Nat /\ s[at(b)] \in Nat
    BY <1>1, <2>1
  <2>4. s[at(a)] <= s[at(b)]
    BY <2>1, <2>2, <2>3 DEF Before
  <2> QED BY <1>2, <2>4
<1> QED BY <1>5, <1>6, <1>7, <1>8
-----------------------------------------------------------------------------
(* The price history of a row.                                             *)

Points == Ticks \union Minutes

LEMMA HistoryIs ==
  ASSUME NEW h
  PROVE  h \in History <=> h \in Seq(Points) /\ Len(h) <= MaxHistory
<1>1. ASSUME h \in History PROVE h \in Seq(Points) /\ Len(h) <= MaxHistory
  <2>1. PICK n \in 0 .. MaxHistory : h \in [1 .. n -> Points]
    BY <1>1 DEF History, Points
  <2>2. n \in Nat
    OBVIOUS
  <2> QED BY <2>1, <2>2, SeqDef, LenProperties
<1>2. ASSUME h \in Seq(Points), Len(h) <= MaxHistory PROVE h \in History
  <2>1. Len(h) \in 0 .. MaxHistory /\ h \in [1 .. Len(h) -> Points]
    BY <1>2, LenProperties
  <2> QED BY <2>1 DEF History, Points
<1> QED BY <1>1, <1>2

\* A row's history holds the points it got, each once, and as many as it can.
Holds(h, S) ==
  /\ h \in Seq(Points) /\ IsInjective(h)
  /\ IsFiniteSet(S) /\ ToSet(h) \subseteq S
  /\ Len(h) = Min({MaxHistory, Cardinality(S)})

LEMMA MinOf ==
  ASSUME NEW a \in Nat, NEW b \in Nat
  PROVE  Min({a, b}) = IF a <= b THEN a ELSE b
<1>1. \E x \in {a, b} : \A y \in {a, b} : x <= y
  BY a <= b \/ b <= a
<1>2. Min({a, b}) \in {a, b} /\ \A y \in {a, b} : Min({a, b}) <= y
  BY <1>1 DEF Min
<1> QED BY <1>2

\* Without a repetition there are as many points as places.
LEMMA CountOf ==
  ASSUME NEW T, NEW h \in Seq(T), IsInjective(h)
  PROVE  IsFiniteSet(ToSet(h)) /\ Cardinality(ToSet(h)) = Len(h)
<1>1. Len(h) \in Nat /\ h \in [1 .. Len(h) -> T] /\ DOMAIN h = 1 .. Len(h)
  BY LenProperties
<1>2. h \in Injection(1 .. Len(h), ToSet(h)) /\ h \in Surjection(1 .. Len(h), ToSet(h))
  <2>1. h \in [1 .. Len(h) -> ToSet(h)]
    BY <1>1 DEF ToSet
  <2>2. \A t \in ToSet(h) : \E i \in 1 .. Len(h) : h[i] = t
    BY <1>1 DEF ToSet
  <2> QED BY <2>1, <2>2 DEF Injection, Surjection
<1>3. IsFiniteSet(1 .. Len(h)) /\ Cardinality(1 .. Len(h)) = Len(h)
  BY <1>1, FS_Interval
<1>4. IsFiniteSet(ToSet(h)) /\ Cardinality(ToSet(h)) = Cardinality(1 .. Len(h))
  BY <1>2, <1>3, FS_Surjection
<1> QED BY <1>3, <1>4

LEMMA AppendedPoint ==
  ASSUME NEW T, NEW h \in Seq(T), NEW t \in T
  PROVE  /\ Append(h, t) \in Seq(T) /\ Len(Append(h, t)) = Len(h) + 1
         /\ ToSet(Append(h, t)) = ToSet(h) \union {t}
         /\ IsInjective(h) /\ t \notin ToSet(h) => IsInjective(Append(h, t))
<1>1. Len(h) \in Nat /\ DOMAIN h = 1 .. Len(h)
  BY LenProperties
<1>2. /\ Append(h, t) \in Seq(T) /\ Len(Append(h, t)) = Len(h) + 1
      /\ \A i \in 1 .. Len(h) : Append(h, t)[i] = h[i]
      /\ Append(h, t)[Len(h) + 1] = t
  BY AppendProperties
<1>3. DOMAIN Append(h, t) = 1 .. Len(h) + 1
  BY <1>2, LenProperties
<1>4. 1 .. Len(h) + 1 = (1 .. Len(h)) \union {Len(h) + 1}
  BY <1>1
<1>5. ToSet(Append(h, t)) = ToSet(h) \union {t}
  BY <1>1, <1>2, <1>3, <1>4 DEF ToSet
<1>6. ASSUME IsInjective(h), t \notin ToSet(h) PROVE IsInjective(Append(h, t))
  <2>1. \A i \in 1 .. Len(h) : h[i] # t
    BY <1>1, <1>6 DEF ToSet
  <2> QED BY <1>1, <1>2, <1>3, <1>4, <1>6, <2>1 DEF IsInjective
<1> QED BY <1>2, <1>5, <1>6

LEMMA LatestOf ==
  ASSUME NEW T, NEW s \in Seq(T), Len(s) > MaxHistory
  PROVE  /\ Latest(s) \in Seq(T) /\ Len(Latest(s)) = MaxHistory
         /\ ToSet(Latest(s)) \subseteq ToSet(s)
         /\ IsInjective(s) => IsInjective(Latest(s))
<1> DEFINE m == Len(s) - MaxHistory + 1
<1>1. Len(s) \in Nat /\ DOMAIN s = 1 .. Len(s) /\ m \in 1 .. Len(s) /\ Len(s) - m + 1 = MaxHistory
  BY LenProperties
<1>2. \A i \in m .. Len(s) : s[i] \in T
  BY <1>1, ElementOfSeq
<1>3. /\ Latest(s) \in Seq(T) /\ Len(Latest(s)) = MaxHistory
      /\ \A i \in 1 .. MaxHistory : Latest(s)[i] = s[m + i - 1]
  <2>1. Latest(s) = SubSeq(s, m, Len(s))
    BY DEF Latest
  <2> HIDE DEF m
  <2> QED BY <1>1, <1>2, <2>1, SubSeqProperties
<1>4. DOMAIN Latest(s) = 1 .. MaxHistory
  BY <1>3, LenProperties
<1>5. \A i \in 1 .. MaxHistory : m + i - 1 \in 1 .. Len(s)
  BY <1>1
<1> HIDE DEF m
<1>6. ToSet(Latest(s)) \subseteq ToSet(s)
  BY <1>1, <1>3, <1>4, <1>5 DEF ToSet
<1>7. ASSUME IsInjective(s) PROVE IsInjective(Latest(s))
  <2> SUFFICES ASSUME NEW a \in 1 .. MaxHistory, NEW b \in 1 .. MaxHistory,
                      Latest(s)[a] = Latest(s)[b]
               PROVE  a = b
    BY <1>4 DEF IsInjective
  <2>1. m + a - 1 = m + b - 1
    BY <1>1, <1>3, <1>5, <1>7 DEF IsInjective
  <2> QED BY <1>1, <2>1
<1> QED BY <1>3, <1>6, <1>7

\* A quote of a new time.
LEMMA PushOf ==
  ASSUME NEW h, NEW S, NEW t \in Points, Holds(h, S), t \notin S
  PROVE  Holds(PushHistory(h, t), S \union {t})
<1> DEFINE longer == Append(h, t)
<1>1. /\ longer \in Seq(Points) /\ Len(longer) = Len(h) + 1
      /\ ToSet(longer) = ToSet(h) \union {t} /\ IsInjective(longer)
  BY AppendedPoint DEF Holds
<1>2. IsFiniteSet(S \union {t}) /\ Cardinality(S \union {t}) = Cardinality(S) + 1
  BY FS_AddElement DEF Holds
<1>3. Cardinality(S) \in Nat /\ Cardinality(S \union {t}) \in Nat
  BY <1>2, FS_CardinalityType DEF Holds
<1>4. Len(h) = (IF MaxHistory <= Cardinality(S) THEN MaxHistory ELSE Cardinality(S))
  BY <1>3, MinOf DEF Holds
<1>5. ToSet(longer) \subseteq S \union {t}
  BY <1>1 DEF Holds
<1>m. Min({MaxHistory, Cardinality(S \union {t})}) =
        (IF MaxHistory <= Cardinality(S) + 1 THEN MaxHistory ELSE Cardinality(S) + 1)
  <2>1. Cardinality(S) + 1 \in Nat /\ MaxHistory \in Nat
    BY <1>3
  <2> QED BY <1>2, <2>1, MinOf
<1> HIDE DEF longer
<1>6. CASE Len(longer) > MaxHistory
  <2>1. Len(longer) = MaxHistory + 1 /\ MaxHistory <= Cardinality(S)
    BY <1>1, <1>3, <1>4, <1>6
  <2>2. longer # <<>>
    BY <2>1
  <2>3. Tail(longer) = Latest(longer)
    BY <1>1, <2>1, <2>2, TailIsSubSeq DEF Latest
  <2>4. PushHistory(h, t) = Latest(longer)
    BY <1>6, <2>3 DEF PushHistory, longer
  <2>5. /\ Latest(longer) \in Seq(Points) /\ Len(Latest(longer)) = MaxHistory
        /\ ToSet(Latest(longer)) \subseteq S \union {t} /\ IsInjective(Latest(longer))
    BY <1>1, <1>5, <1>6, LatestOf
  <2>6. Min({MaxHistory, Cardinality(S \union {t})}) = MaxHistory
    BY <1>3, <1>m, <2>1
  <2> QED BY <1>2, <2>4, <2>5, <2>6 DEF Holds
<1>7. CASE ~ (Len(longer) > MaxHistory)
  <2>1. PushHistory(h, t) = longer
    BY <1>7 DEF PushHistory, longer
  <2>2. Len(longer) = Min({MaxHistory, Cardinality(S \union {t})})
    BY <1>1, <1>3, <1>4, <1>7, <1>m
  <2> QED BY <1>1, <1>2, <1>5, <2>1, <2>2 DEF Holds
<1> QED BY <1>6, <1>7

\* A bar, also one the row got before, and one it dropped since.
LEMMA ReplaceOf ==
  ASSUME NEW h, NEW S, NEW t \in Points, Holds(h, S)
  PROVE  Holds(ReplaceKlineHistory(h, t), S \union {t})
<1> DEFINE arr == IF Contains(h, t) THEN h ELSE Append(h, t)
           after == S \union {t}
<1>p. Points \in SUBSET Nat
  BY DEF Points
<1>c. Contains(h, t) <=> t \in ToSet(h)
  BY LenProperties DEF Contains, ToSet, Holds
<1>1. /\ arr \in Seq(Points) /\ IsInjective(arr) /\ ToSet(arr) = ToSet(h) \union {t}
      /\ Len(arr) = IF t \in ToSet(h) THEN Len(h) ELSE Len(h) + 1
  BY <1>c, AppendedPoint DEF Holds
<1>2. IsFiniteSet(after) /\ Cardinality(after) = IF t \in S THEN Cardinality(S) ELSE Cardinality(S) + 1
  BY FS_AddElement DEF Holds
<1>3. Cardinality(S) \in Nat /\ Cardinality(after) \in Nat
  BY <1>2, FS_CardinalityType DEF Holds
<1>4. Len(h) = (IF MaxHistory <= Cardinality(S) THEN MaxHistory ELSE Cardinality(S))
  BY <1>3, MinOf DEF Holds
<1>5. ToSet(arr) \subseteq after /\ ToSet(h) \subseteq S
  BY <1>1 DEF Holds
<1>6. t \in S /\ t \notin ToSet(h) => Len(h) = MaxHistory
  <2> SUFFICES ASSUME t \in S, t \notin ToSet(h) PROVE Len(h) = MaxHistory
    OBVIOUS
  <2>1. Cardinality(ToSet(h)) = Len(h)
    BY CountOf DEF Holds
  <2>2. ToSet(h) # S /\ ToSet(h) \in SUBSET S
    BY <1>5
  <2>3. Cardinality(ToSet(h)) # Cardinality(S)
    BY <2>2, FS_Subset DEF Holds
  <2> QED BY <1>4, <2>1, <2>3
<1> HIDE DEF arr
<1>7. /\ Sorted(arr) \in Seq(Points) /\ Len(Sorted(arr)) = Len(arr)
      /\ ToSet(Sorted(arr)) \subseteq after /\ IsInjective(Sorted(arr))
  BY <1>p, <1>1, <1>5, SortedOf
<1>8. ReplaceKlineHistory(h, t) = IF Len(Sorted(arr)) > MaxHistory THEN Latest(Sorted(arr)) ELSE Sorted(arr)
  BY DEF ReplaceKlineHistory, arr
<1>s. ToSet(h) \subseteq S /\ (t \in ToSet(h) => t \in S)
  BY <1>5
<1> HIDE DEF after
<1>9. CASE Len(Sorted(arr)) > MaxHistory
  <2>1. /\ Latest(Sorted(arr)) \in Seq(Points) /\ Len(Latest(Sorted(arr))) = MaxHistory
        /\ ToSet(Latest(Sorted(arr))) \subseteq after /\ IsInjective(Latest(Sorted(arr)))
    BY <1>7, <1>9, LatestOf
  <2>2. MaxHistory <= Cardinality(after)
    BY <1>1, <1>2, <1>3, <1>4, <1>7, <1>9, <1>s
  <2>3. Min({MaxHistory, Cardinality(after)}) = MaxHistory
    BY <1>3, <2>2, MinOf
  <2> QED BY <1>2, <1>8, <1>9, <2>1, <2>3 DEF Holds, after
<1>10. CASE ~ (Len(Sorted(arr)) > MaxHistory)
  <2>1. Len(arr) = (IF MaxHistory <= Cardinality(after) THEN MaxHistory ELSE Cardinality(after))
    BY <1>1, <1>2, <1>3, <1>4, <1>6, <1>7, <1>10, <1>s
  <2>2. Len(Sorted(arr)) = Min({MaxHistory, Cardinality(after)})
    BY <1>3, <1>7, <2>1, MinOf
  <2> QED BY <1>2, <1>7, <1>8, <1>10, <2>2 DEF Holds, after
<1> QED BY <1>9, <1>10

-----------------------------------------------------------------------------
(* What every row's history holds, and that no quote comes out of order.    *)

OwedAnswer == owed \in [sym : {k.sym : k \in Keys} \union {0}, bars : Seq(Minutes)]

\* A quote a row got is no later than the latest one of the row's source: the
\* next one is new to it, and the page need not look for it.
ChartOf(k) ==
  /\ Holds(history[k], seen[k])
  /\ seen[k] \subseteq Points
  /\ \A t \in seen[k] \intersect Ticks : t <= latest[k.src]

PageInv == TypeOK /\ OwedAnswer /\ \A k \in Keys : ChartOf(k)

LEMMA KeyOf ==
  ASSUME NEW k \in Keys
  PROVE  k.src \in Source /\ k.sym \in Nat /\ k # None
<1>1. k \in [src : {"Tencent", "Tdx"}, sym : Nat]
  OBVIOUS
<1>2. None.src = "none" /\ "none" \notin {"Tencent", "Tdx"}
  BY DEF None
<1> QED BY <1>1, <1>2 DEF Source

\* Minutes of an interval, in order.
LEMMA AnswersAreBars == Answers \union {<<>>} \subseteq Seq(Minutes)
<1>1. ASSUME NEW p \in Minutes \X Minutes
      PROVE  Sorted(SetToSeq({t \in Minutes : p[1] <= t /\ t <= p[2]})) \in Seq(Minutes)
  <2> DEFINE a == p[1]
             b == p[2]
             S == {t \in Minutes : a <= t /\ t <= b}
  <2>0. a \in Int /\ b \in Int /\ \A t \in S : t \in Int /\ a <= t /\ t <= b /\ t \in Minutes
    <3>1. \A m \in Minutes : m \in Int
      OBVIOUS
    <3>2. a \in Minutes /\ b \in Minutes
      OBVIOUS
    <3>3. ASSUME NEW t \in S PROVE a <= t /\ t <= b /\ t \in Minutes
      OBVIOUS
    <3> HIDE DEF S, a, b
    <3> QED BY <3>1, <3>2, <3>3
  <2> HIDE DEF S, a, b
  <2>1. S \in SUBSET (a .. b) /\ S \in SUBSET Minutes /\ a \in Int /\ b \in Int
    BY <2>0
  <2>2. IsFiniteSet(S)
    BY <2>1, FS_Interval, FS_Subset
  <2>3. Cardinality(S) \in Nat /\ \E f \in [1 .. Cardinality(S) -> S] : IsInjective(f)
    BY <2>2, FS_CardinalityType DEF ExistsBijection, Bijection, Injection
  <2>4. SetToSeq(S) \in [1 .. Cardinality(S) -> S]
    BY <2>3 DEF SetToSeq
  <2>5. SetToSeq(S) \in Seq(Minutes)
    <3>1. SetToSeq(S) \in [1 .. Cardinality(S) -> Minutes]
      BY <2>1, <2>4
    <3> QED BY <2>3, <3>1, SeqDef
  <2> QED BY <2>5, SortedOf DEF S, a, b
<1>2. <<>> \in Seq(Minutes)
  BY EmptySeq
<1>3. ASSUME NEW s \in Answers PROVE s \in Seq(Minutes)
  <2>1. PICK p \in Minutes \X Minutes :
          s = Sorted(SetToSeq({t \in Minutes : p[1] <= t /\ t <= p[2]}))
    BY DEF Answers
  <2> QED BY <1>1, <2>1
<1> QED BY <1>2, <1>3

LEMMA ChartInit == Init => \A k \in Keys : ChartOf(k)
<1> SUFFICES ASSUME Init, NEW k \in Keys PROVE ChartOf(k)
  OBVIOUS
<1>1. history[k] = <<>> /\ seen[k] = {}
  BY DEF Init
<1>2. <<>> \in Seq(Points) /\ Len(<<>>) = 0 /\ DOMAIN <<>> = {}
  BY EmptySeq
<1>3. IsFiniteSet({}) /\ Cardinality({}) = 0
  BY FS_EmptySet
<1>4. Min({MaxHistory, 0}) = 0
  BY MinOf
<1>5. Holds(<<>>, {})
  BY <1>2, <1>3, <1>4 DEF Holds, IsInjective, ToSet
<1> QED BY <1>1, <1>5 DEF ChartOf

LEMMA ChartStep == PageInv /\ [Next]_vars => \A k \in Keys : ChartOf(k)'
<1> SUFFICES ASSUME PageInv, [Next]_vars, NEW j \in Keys PROVE ChartOf(j)'
  OBVIOUS
<1>i. /\ \A k \in Keys : ChartOf(k)
      /\ history \in [Keys -> History] /\ seen \in [Keys -> SUBSET (Ticks \union Minutes)]
      /\ latest \in [Source -> Ticks \union {0}] /\ owed.bars \in Seq(Minutes)
  BY DEF PageInv, TypeOK
<1>u. ASSUME UNCHANGED data PROVE ChartOf(j)'
  BY <1>i, <1>u DEF ChartOf, data
<1>1. ASSUME NEW k \in Keys, NEW t \in Ticks, OnDepth(k, t) PROVE ChartOf(j)'
  <2>1. /\ t > latest[k.src]
        /\ latest' = [latest EXCEPT ![k.src] = t]
        /\ history' = [history EXCEPT ![k] = PushHistory(history[k], t)]
        /\ seen' = [seen EXCEPT ![k] = seen[k] \union {t}]
    BY <1>1 DEF OnDepth
  <2>2. k.src \in Source /\ j.src \in Source /\ t \in Nat /\ t \in Points
    BY KeyOf DEF Points
  <2>n. latest \in [Source -> Nat] /\ latest' \in [Source -> Nat]
    <3>1. latest \in [Source -> Nat]
      <4>1. Ticks \union {0} \subseteq Nat
        OBVIOUS
      <4>2. latest \in [Source -> Ticks \union {0}]
        BY <1>i
      <4>3. DOMAIN latest = Source /\ \A s \in Source : latest[s] \in Ticks \union {0}
        BY <4>2
      <4> QED BY <4>1, <4>2, <4>3
    <3> QED BY <2>1, <2>2, <3>1
  <2>3. latest[k.src] \in Nat /\ latest[j.src] \in Nat /\ latest'[k.src] = t
    BY <2>1, <2>2, <2>n
  <2>4. latest[j.src] <= latest'[j.src]
    BY <1>i, <2>1, <2>2, <2>3
  <2>5. CASE j = k
    <3>1. history'[j] = PushHistory(history[j], t) /\ seen'[j] = seen[j] \union {t}
      BY <1>i, <2>1, <2>5
    <3>2. t \notin seen[j]
      BY <1>i, <2>1, <2>2, <2>3, <2>5 DEF ChartOf
    <3>3. Holds(history'[j], seen'[j])
      BY <1>i, <2>2, <3>1, <3>2, PushOf DEF ChartOf
    <3>4. ASSUME NEW u \in seen'[j] \intersect Ticks PROVE u <= latest'[j.src]
      <4>1. u = t \/ u \in seen[j] \intersect Ticks
        BY <3>1
      <4>2. u \in seen[j] \intersect Ticks => u <= latest[j.src]
        BY <1>i DEF ChartOf
      <4>3. u \in seen[j] \intersect Ticks => u \in Nat
        OBVIOUS
      <4> QED BY <2>1, <2>2, <2>3, <2>5, <4>1, <4>2, <4>3
    <3>5. seen'[j] \subseteq Points
      BY <1>i, <2>2, <3>1 DEF ChartOf
    <3> QED BY <3>3, <3>4, <3>5 DEF ChartOf
  <2>6. CASE j # k
    <3>1. history'[j] = history[j] /\ seen'[j] = seen[j]
      BY <1>i, <2>1, <2>6
    <3>2. ASSUME NEW u \in seen[j] \intersect Ticks PROVE u <= latest'[j.src]
      <4>1. u <= latest[j.src] /\ u \in Nat
        BY <1>i DEF ChartOf
      <4>2. latest'[j.src] \in Nat
        BY <2>2, <2>n
      <4> QED BY <2>3, <2>4, <4>1, <4>2
    <3> QED BY <1>i, <3>1, <3>2 DEF ChartOf
  <2> QED BY <2>5, <2>6
<1>2. ASSUME OnKline PROVE ChartOf(j)'
  <2> DEFINE k == [src |-> "Tencent", sym |-> owed.sym]
             t == Head(owed.bars)
  <2>1. /\ history' = [history EXCEPT ![k] = ReplaceKlineHistory(history[k], t)]
        /\ seen' = [seen EXCEPT ![k] = seen[k] \union {t}]
        /\ latest' = latest /\ owed.bars # <<>>
    BY <1>2 DEF OnKline
  <2>2. t \in Minutes
    BY <1>i, <2>1, HeadTailProperties
  <2>3. t \in Points /\ t \notin Ticks
    BY <2>2 DEF Points
  <2> HIDE DEF k, t
  <2>4. CASE j = k
    <3>1. history'[j] = ReplaceKlineHistory(history[j], t) /\ seen'[j] = seen[j] \union {t}
      BY <1>i, <2>1, <2>4
    <3>2. Holds(history'[j], seen'[j])
      BY <1>i, <2>3, <3>1, ReplaceOf DEF ChartOf
    <3>3. seen'[j] \subseteq Points /\ seen'[j] \intersect Ticks = seen[j] \intersect Ticks
      BY <1>i, <2>3, <3>1 DEF ChartOf
    <3> QED BY <1>i, <2>1, <3>2, <3>3 DEF ChartOf
  <2>5. CASE j # k
    <3>1. history'[j] = history[j] /\ seen'[j] = seen[j]
      BY <1>i, <2>1, <2>5
    <3> QED BY <1>i, <2>1, <3>1 DEF ChartOf
  <2> QED BY <2>4, <2>5
<1>3. ASSUME OnOpen \/ LinkFails \/ OnClose \/ Connect PROVE UNCHANGED data
  BY <1>3 DEF OnOpen, LinkFails, OnClose, Connect
<1>4. ASSUME NEW bars, Answer(bars) PROVE UNCHANGED data
  BY <1>4 DEF Answer
<1>5. ASSUME NEW k \in Keys, ClickRow(k) PROVE UNCHANGED data
  BY <1>5 DEF ClickRow
<1>6. ASSUME NEW s \in Source, ClickTab(s) PROVE UNCHANGED data
  BY <1>6 DEF ClickTab
<1>7. ASSUME UNCHANGED vars PROVE UNCHANGED data
  BY <1>7 DEF vars, data
<1> QED BY <1>u, <1>1, <1>2, <1>3, <1>4, <1>5, <1>6, <1>7 DEF Next

-----------------------------------------------------------------------------
(* What the functions the handlers share do.                                *)

LEMMA NoneIsNoKey == None \notin Keys
BY KeyOf

\* The table has a first row unless it is empty.
LEMMA FirstRowOf ==
  ASSUME NEW rows \in SUBSET Keys, rows # {}
  PROVE  FirstRow(rows) \in rows
<1> DEFINE syms == {k.sym : k \in rows}
<1>1. PICK m \in syms : \A n \in syms : m <= n
  <2>1. syms \in SUBSET Nat /\ syms # {}
    BY KeyOf
  <2> DEFINE R == {p \in Nat \X Nat : p[1] < p[2]}
  <2>2. IsWellFoundedOn(R, Nat)
    BY NatLessThanWellFounded DEF OpToRel
  <2> HIDE DEF syms
  <2>3. \E x \in syms : \A y \in syms : <<y, x>> \notin R
    <3> HIDE DEF R
    <3> QED BY <2>1, <2>2, WFMin
  <2>4. \A x, y \in Nat : <<y, x>> \notin R => x <= y
    OBVIOUS
  <2> QED BY <2>1, <2>3, <2>4
<1>2. \E k \in rows : \A j \in rows : k.sym <= j.sym
  BY <1>1
<1> QED BY <1>2 DEF FirstRow

LEMMA RequestOf ==
  ASSUME NEW k \in Keys \union {None}, NEW state, NEW already \in SUBSET Keys,
         sent \in Seq(Keys), taken \in 0 .. Len(sent), RequestKline(k, state, already)
  PROVE  /\ requested' \subseteq Keys
         /\ sent' \in Seq(Keys) /\ taken \in 0 .. Len(sent')
         /\ \/ requested' = already /\ sent' = sent
            \/ /\ k \in Keys /\ state = "open" /\ k \notin already
               /\ requested' = already \union {k} /\ sent' = Append(sent, k)
<1>1. CASE k # None /\ state = "open" /\ k \notin already
  <2>1. requested' = already \union {k} /\ sent' = Append(sent, k) /\ k \in Keys
    BY <1>1 DEF RequestKline
  <2>2. sent' \in Seq(Keys) /\ Len(sent') = Len(sent) + 1
    BY <2>1, AppendProperties
  <2>3. taken \in 0 .. Len(sent')
    BY <2>2, LenProperties
  <2> QED BY <1>1, <2>1, <2>2, <2>3
<1>2. CASE ~ (k # None /\ state = "open" /\ k \notin already)
  BY <1>2 DEF RequestKline
<1> QED BY <1>1, <1>2

\* What a table built anew does: it selects its first row, or it leaves the
\* selection, whose panel is rendered if its row is the one that changed.
LEMMA TableCases ==
  ASSUME NEW sel \in Keys \union {None}, NEW changed, quotes' \subseteq Keys,
         UpdateTable(sel, changed)
  PROVE  LET rows == {k \in quotes' : k.src = active'}
         IN  \/ sel = None /\ \E k \in rows : k \in Keys /\ SelectQuote(k)
             \/ /\ selected' = sel /\ UNCHANGED <<requested, sent>>
                /\ sel = None => rows = {}
                /\ \/ changed = sel /\ sel # None /\ RenderDetail(sel)
                   \/ /\ changed # sel \/ sel = None
                      /\ panel' = IF rows = {} THEN None ELSE panel
                      /\ UNCHANGED drawn
<1> DEFINE rows == {k \in quotes' : k.src = active'}
<1>1. CASE sel = None /\ rows # {}
  <2>1. SelectQuote(FirstRow(rows))
    BY <1>1 DEF UpdateTable
  <2>2. rows \in SUBSET Keys
    OBVIOUS
  <2> HIDE DEF rows
  <2>3. FirstRow(rows) \in rows /\ FirstRow(rows) \in Keys
    BY <1>1, <2>2, FirstRowOf
  <2>4. \E k \in rows : k \in Keys /\ SelectQuote(k)
    BY <2>1, <2>3
  <2> QED BY <1>1, <2>4 DEF rows
<1>2. CASE ~ (sel = None /\ rows # {})
  <2>1. /\ selected' = sel
        /\ IF changed = sel /\ sel # None
           THEN RenderDetail(sel)
           ELSE panel' = (IF rows = {} THEN None ELSE panel) /\ UNCHANGED drawn
        /\ UNCHANGED <<requested, sent>>
    BY <1>2 DEF UpdateTable
  <2> QED BY <1>2, <2>1
<1> QED BY <1>1, <1>2

\* Types of what a selection or a table writes.
ViewTyped ==
  /\ requested' \subseteq Keys
  /\ selected' \in Keys \union {None} /\ panel' \in Keys \union {None}
  /\ drawn' \in History
  /\ sent' \in Seq(Keys) /\ taken \in 0 .. Len(sent')

LEMMA SelectTyped ==
  ASSUME TypeOK, history' \in [Keys -> History], NEW k \in Keys, SelectQuote(k)
  PROVE  ViewTyped
<1>1. selected' = k /\ panel' = k /\ drawn' = history'[k] /\ RequestKline(k, conn, requested)
  BY DEF SelectQuote, RenderDetail, DrawChart
<1>2. requested \in SUBSET Keys /\ sent \in Seq(Keys) /\ taken \in 0 .. Len(sent)
  BY DEF TypeOK
<1>3. requested' \subseteq Keys /\ sent' \in Seq(Keys) /\ taken \in 0 .. Len(sent')
  BY <1>1, <1>2, RequestOf
<1>4. drawn' \in History
  BY <1>1
<1> QED BY <1>1, <1>3, <1>4 DEF ViewTyped

LEMMA TableTyped ==
  ASSUME TypeOK, quotes' \subseteq Keys, history' \in [Keys -> History],
         NEW sel \in Keys \union {None}, NEW changed, UpdateTable(sel, changed)
  PROVE  ViewTyped
<1> DEFINE rows == {k \in quotes' : k.src = active'}
<1>1. CASE \E k \in rows : k \in Keys /\ SelectQuote(k)
  BY <1>1, SelectTyped
<1>2. CASE /\ selected' = sel /\ UNCHANGED <<requested, sent>>
           /\ \/ changed = sel /\ sel # None /\ RenderDetail(sel)
              \/ panel' = (IF rows = {} THEN None ELSE panel) /\ UNCHANGED drawn
  <2>1. /\ requested \subseteq Keys /\ sent \in Seq(Keys) /\ taken \in 0 .. Len(sent)
        /\ drawn \in History /\ panel \in Keys \union {None}
    BY DEF TypeOK
  <2>2. CASE changed = sel /\ sel # None /\ RenderDetail(sel)
    <3>1. sel \in Keys /\ panel' = sel /\ drawn' = history'[sel]
      BY <2>2 DEF RenderDetail, DrawChart
    <3>2. drawn' \in History
      BY <3>1
    <3> QED BY <1>2, <2>1, <3>1, <3>2 DEF ViewTyped
  <2>3. CASE panel' = (IF rows = {} THEN None ELSE panel) /\ UNCHANGED drawn
    BY <1>2, <2>1, <2>3 DEF ViewTyped
  <2> QED BY <1>2, <2>2, <2>3
<1> QED BY <1>1, <1>2, TableCases

-----------------------------------------------------------------------------
(* Type correctness, with the histories.                                    *)

LEMMA PageInit == Init => PageInv
<1> SUFFICES ASSUME Init PROVE PageInv
  OBVIOUS
<1>1. <<>> \in History /\ <<>> \in Seq(Keys) /\ <<>> \in Seq(Minutes) /\ Len(<<>>) = 0
  <2>1. <<>> \in Seq(Points) /\ <<>> \in Seq(Keys) /\ <<>> \in Seq(Minutes) /\ Len(<<>>) = 0
    BY EmptySeq
  <2>2. Len(<<>>) <= MaxHistory
    BY <2>1
  <2> QED BY <2>1, <2>2, HistoryIs
<1>2. /\ history \in [Keys -> History] /\ drawn \in History
      /\ sent \in Seq(Keys) /\ taken \in 0 .. Len(sent)
      /\ latest \in [Source -> Ticks \union {0}]
      /\ seen \in [Keys -> SUBSET (Ticks \union Minutes)]
  BY <1>1 DEF Init
<1>3. OwedAnswer
  BY <1>1 DEF Init, OwedAnswer
<1>4. owed.sym \in {k.sym : k \in Keys} \union {0} /\ owed.bars \in Seq(Minutes)
  BY <1>3 DEF OwedAnswer
<1>5. /\ conn = "connecting" /\ timer = FALSE /\ quotes = {} /\ requested = {}
      /\ selected = None /\ panel = None /\ active \in Source
  BY DEF Init, Source
<1>6. TypeOK
  BY <1>2, <1>4, <1>5 DEF TypeOK
<1> QED BY <1>3, <1>6, ChartInit DEF PageInv

\* The functions of the rows keep their domain; what a row holds is ChartStep's.
LEMMA DataTyped ==
  ASSUME PageInv, [Next]_vars
  PROVE  history' \in [Keys -> History] /\ seen' \in [Keys -> SUBSET (Ticks \union Minutes)]
<1>1. history \in [Keys -> History] /\ seen \in [Keys -> SUBSET (Ticks \union Minutes)]
  BY DEF PageInv, TypeOK
<1>2. /\ history' = [k \in Keys |-> history'[k]]
      /\ seen' = [k \in Keys |-> seen'[k]]
  <2>1. ASSUME NEW k, NEW h, NEW s,
               history' = [history EXCEPT ![k] = h], seen' = [seen EXCEPT ![k] = s]
        PROVE  /\ history' = [j \in Keys |-> history'[j]]
               /\ seen' = [j \in Keys |-> seen'[j]]
    BY <1>1, <2>1
  <2>2. ASSUME UNCHANGED data
        PROVE  /\ history' = [j \in Keys |-> history'[j]]
               /\ seen' = [j \in Keys |-> seen'[j]]
    BY <1>1, <2>2 DEF data
  <2>3. CASE \E k \in Keys, t \in Ticks : OnDepth(k, t)
    <3>1. PICK k \in Keys, t \in Ticks : OnDepth(k, t)
      BY <2>3
    <3>2. /\ history' = [history EXCEPT ![k] = PushHistory(history[k], t)]
          /\ seen' = [seen EXCEPT ![k] = seen[k] \union {t}]
      BY <3>1 DEF OnDepth
    <3> QED BY <2>1, <3>2
  <2>4. CASE OnKline
    <3> DEFINE k == [src |-> "Tencent", sym |-> owed.sym]
               t == Head(owed.bars)
    <3>1. /\ history' = [history EXCEPT ![k] = ReplaceKlineHistory(history[k], t)]
          /\ seen' = [seen EXCEPT ![k] = seen[k] \union {t}]
      BY <2>4 DEF OnKline
    <3> HIDE DEF k, t
    <3> QED BY <2>1, <3>1
  <2>5. CASE \/ OnOpen \/ LinkFails \/ OnClose \/ Connect
             \/ \E bars \in Answers \union {<<>>} : Answer(bars)
             \/ \E k \in Keys : ClickRow(k)
             \/ \E s \in Source : ClickTab(s)
             \/ UNCHANGED vars
    <3>1. UNCHANGED data
      BY <2>5 DEF OnOpen, LinkFails, OnClose, Connect, Answer, ClickRow, ClickTab, vars, data
    <3> QED BY <2>2, <3>1
  <2> QED BY <2>3, <2>4, <2>5 DEF Next
<1>3. ASSUME NEW k \in Keys
      PROVE  history'[k] \in History /\ seen'[k] \in SUBSET (Ticks \union Minutes)
  <2>1. Holds(history'[k], seen'[k]) /\ seen'[k] \subseteq Points
    BY ChartStep DEF ChartOf
  <2>2. Cardinality(seen'[k]) \in Nat
    BY <2>1, FS_CardinalityType DEF Holds
  <2>3. Min({MaxHistory, Cardinality(seen'[k])}) <= MaxHistory
    BY <2>2, MinOf
  <2> QED BY <2>1, <2>3, HistoryIs DEF Holds, Points
<1> QED BY <1>2, <1>3

LEMMA TypedStep == PageInv /\ [Next]_vars => TypeOK' /\ OwedAnswer'
<1> SUFFICES ASSUME PageInv, [Next]_vars PROVE TypeOK' /\ OwedAnswer'
  OBVIOUS
<1>t. TypeOK /\ OwedAnswer
  BY DEF PageInv
<1>h. history' \in [Keys -> History] /\ seen' \in [Keys -> SUBSET (Ticks \union Minutes)]
  BY DataTyped
<1>o. OwedAnswer' => owed'.sym \in {k.sym : k \in Keys} \union {0} /\ owed'.bars \in Seq(Minutes)
  BY DEF OwedAnswer
<1>e. OwedAnswer /\ UNCHANGED owed => OwedAnswer'
  BY DEF OwedAnswer
<1>n. UNCHANGED view /\ UNCHANGED <<requested, sent, taken>> => ViewTyped
  BY <1>t DEF TypeOK, view, ViewTyped
<1>r. taken' = taken /\ ViewTyped =>
        /\ requested' \subseteq Keys
        /\ selected' \in Keys \union {None} /\ panel' \in Keys \union {None}
        /\ drawn' \in History /\ sent' \in Seq(Keys) /\ taken' \in 0 .. Len(sent')
  BY DEF ViewTyped
<1>1. CASE OnOpen
  <2>1. /\ conn' = "open" /\ RequestKline(selected, "open", {})
        /\ UNCHANGED <<timer, quotes, history, latest, seen, selected, active, panel, drawn, taken, owed>>
    BY <1>1 DEF OnOpen, data, view, answers
  <2>2. /\ selected \in Keys \union {None} /\ sent \in Seq(Keys) /\ taken \in 0 .. Len(sent)
        /\ {} \in SUBSET Keys
    BY <1>t DEF TypeOK
  <2>3. requested' \subseteq Keys /\ sent' \in Seq(Keys) /\ taken \in 0 .. Len(sent')
    BY <2>1, <2>2, RequestOf
  <2> QED BY <1>t, <1>e, <2>1, <2>3 DEF TypeOK
<1>2. CASE LinkFails
  <2>1. <<>> \in Seq(Keys) /\ <<>> \in Seq(Minutes) /\ Len(<<>>) = 0
    BY EmptySeq
  <2>2. /\ conn' = "closing" /\ sent' = <<>> /\ taken' = 0
        /\ owed' = [sym |-> 0, bars |-> <<>>]
        /\ UNCHANGED <<timer, quotes, history, latest, seen, requested, selected, active, panel, drawn>>
    BY <1>2 DEF LinkFails, data, view
  <2>3. OwedAnswer'
    BY <2>1, <2>2 DEF OwedAnswer
  <2> QED BY <1>t, <1>o, <2>1, <2>2, <2>3 DEF TypeOK
<1>3. CASE OnClose \/ Connect
  <2>1. /\ conn' \in {"connecting", "open", "closing", "closed"} /\ timer' \in BOOLEAN
        /\ UNCHANGED <<quotes, history, latest, seen, requested, selected, active, panel, drawn,
                       sent, taken, owed>>
    BY <1>3 DEF OnClose, Connect, data, view, answers
  <2> QED BY <1>t, <1>e, <2>1 DEF TypeOK
<1>4. ASSUME NEW k \in Keys, NEW t \in Ticks, OnDepth(k, t) PROVE TypeOK' /\ OwedAnswer'
  <2>1. /\ latest' = [latest EXCEPT ![k.src] = t] /\ quotes' = quotes \union {k}
        /\ active' = active /\ UpdateTable(selected, k)
        /\ UNCHANGED <<conn, timer, taken, owed>>
    BY <1>4 DEF OnDepth, socket, answers
  <2>2. quotes' \subseteq Keys /\ selected \in Keys \union {None}
    BY <1>t, <2>1 DEF TypeOK
  <2>3. ViewTyped
    BY <1>t, <1>h, <2>1, <2>2, TableTyped
  <2>4. latest' \in [Source -> Ticks \union {0}]
    BY <1>t, <2>1 DEF TypeOK
  <2> QED BY <1>t, <1>e, <1>h, <1>r, <2>1, <2>2, <2>3, <2>4 DEF TypeOK
<1>5. CASE OnKline
  <2> DEFINE k == [src |-> "Tencent", sym |-> owed.sym]
  <2>1. /\ owed.bars # <<>> /\ owed' = [owed EXCEPT !.bars = Tail(owed.bars)]
        /\ IF selected = k THEN drawn' = history'[k] ELSE UNCHANGED drawn
        /\ UNCHANGED <<conn, timer, quotes, latest, requested, selected, active, panel, sent, taken>>
    BY <1>5 DEF OnKline, socket, DrawChart
  <2>2. Tail(owed.bars) \in Seq(Minutes)
    BY <1>t, <2>1, HeadTailProperties DEF OwedAnswer
  <2>3. OwedAnswer'
    BY <1>t, <2>1, <2>2 DEF OwedAnswer
  <2>4. drawn' \in History
    <3>1. selected \in Keys \union {None} /\ k # None /\ drawn \in History
      BY <1>t DEF TypeOK, None
    <3> HIDE DEF k
    <3> QED BY <1>h, <2>1, <3>1
  <2> HIDE DEF k
  <2> QED BY <1>t, <1>h, <1>o, <2>1, <2>3, <2>4 DEF TypeOK
<1>6. ASSUME NEW bars \in Answers \union {<<>>}, Answer(bars) PROVE TypeOK' /\ OwedAnswer'
  <2>1. /\ taken < Len(sent) /\ taken' = taken + 1
        /\ owed' = [sym |-> sent[taken + 1].sym, bars |-> bars]
        /\ UNCHANGED <<conn, timer, quotes, history, latest, seen, requested, selected, active,
                       panel, drawn, sent>>
    BY <1>6 DEF Answer, socket, data, view
  <2>2. sent \in Seq(Keys) /\ taken \in 0 .. Len(sent) /\ Len(sent) \in Nat
    BY <1>t, LenProperties DEF TypeOK
  <2>3. taken + 1 \in 1 .. Len(sent) /\ taken' \in 0 .. Len(sent)
    BY <2>1, <2>2
  <2>4. sent[taken + 1] \in Keys
    BY <2>2, <2>3, ElementOfSeq
  <2>5. OwedAnswer'
    BY <2>1, <2>4, AnswersAreBars DEF OwedAnswer
  <2> QED BY <1>t, <1>o, <2>1, <2>3, <2>5 DEF TypeOK
<1>7. ASSUME NEW k \in Keys, ClickRow(k) PROVE TypeOK' /\ OwedAnswer'
  <2>1. /\ UNCHANGED <<conn, timer, quotes, history, latest, seen, active, taken, owed>>
        /\ SelectQuote(k)
    BY <1>7 DEF ClickRow, socket, data, answers
  <2>2. ViewTyped
    BY <1>t, <1>h, <2>1, SelectTyped
  <2> QED BY <1>t, <1>e, <1>r, <2>1, <2>2 DEF TypeOK
<1>8. ASSUME NEW s \in Source, ClickTab(s) PROVE TypeOK' /\ OwedAnswer'
  <2>1. /\ active' = s /\ UpdateTable(None, None)
        /\ UNCHANGED <<conn, timer, quotes, history, latest, seen, taken, owed>>
    BY <1>8 DEF ClickTab, socket, data, answers
  <2>2. quotes' \subseteq Keys /\ None \in Keys \union {None}
    BY <1>t, <2>1 DEF TypeOK
  <2>3. ViewTyped
    BY <1>t, <1>h, <2>1, <2>2, TableTyped
  <2> QED BY <1>t, <1>e, <1>r, <2>1, <2>3 DEF TypeOK
<1>9. CASE UNCHANGED vars
  BY <1>t, <1>9 DEF vars, TypeOK, OwedAnswer
<1> QED BY <1>1, <1>2, <1>3, <1>4, <1>5, <1>6, <1>7, <1>8, <1>9 DEF Next

LEMMA PageStep == PageInv /\ [Next]_vars => PageInv'
BY ChartStep, TypedStep DEF PageInv

LEMMA PageAlways == Spec => []PageInv
<1>1. Init => PageInv
  BY PageInit
<1>2. PageInv /\ [Next]_vars => PageInv'
  BY PageStep
<1> QED BY <1>1, <1>2, PTL DEF Spec

\* The variables keep their types through every order of events, for any number
\* of rows and any length of the history: no list grows past MAX_HISTORY, and the
\* panel names a row or none (frontend.rs:98-111).
THEOREM TypeCorrect == Spec => []TypeOK
<1>1. PageInv => TypeOK
  BY DEF PageInv
<1> QED BY <1>1, PageAlways, PTL

\* A row's chart holds each point it got once, and drops none before it is full,
\* through bars fetched again, bars of rows of the other source and reconnects
\* (frontend.rs:164-181).
THEOREM ChartComplete == Spec => []ChartHoldsAll
<1>1. PageInv => ChartHoldsAll
  BY DEF PageInv, ChartOf, Holds, ChartHoldsAll
<1> QED BY <1>1, PageAlways, PTL

-----------------------------------------------------------------------------
(* The panel.                                                              *)

LEMMA SelectShows ==
  ASSUME TypeOK, NEW k \in Keys, k \in quotes', k.src = active', SelectQuote(k)
  PROVE  PanelShowsSelection'
<1>1. selected' = k /\ panel' = k /\ drawn' = history'[k]
  BY DEF SelectQuote, RenderDetail, DrawChart
<1>2. k # None /\ {j \in quotes' : j.src = active'} # {}
  BY KeyOf
<1> QED BY <1>1, <1>2 DEF PanelShowsSelection

\* A selection that still is a row of the table, shown with what it had, is
\* shown with what it has once the table is built.
LEMMA TableShows ==
  ASSUME TypeOK, quotes' \subseteq Keys,
         NEW sel \in Keys \union {None}, NEW changed, UpdateTable(sel, changed),
         sel # None => /\ sel \in quotes' /\ sel.src = active' /\ panel = sel
                       /\ changed = sel \/ drawn = history'[sel]
  PROVE  PanelShowsSelection'
<1> DEFINE rows == {k \in quotes' : k.src = active'}
<1>1. CASE \E k \in rows : k \in Keys /\ SelectQuote(k)
  BY <1>1, SelectShows
<1>2. CASE /\ selected' = sel
           /\ sel = None => rows = {}
           /\ \/ changed = sel /\ sel # None /\ RenderDetail(sel)
              \/ /\ changed # sel \/ sel = None
                 /\ panel' = IF rows = {} THEN None ELSE panel
                 /\ UNCHANGED drawn
  <2>1. CASE sel = None
    BY <1>2, <2>1 DEF PanelShowsSelection
  <2>2. CASE sel # None
    <3>1. sel \in rows /\ panel' = sel
      BY <1>2, <2>2 DEF RenderDetail
    <3>2. drawn' = history'[sel]
      BY <1>2, <2>2 DEF RenderDetail, DrawChart
    <3> QED BY <1>2, <2>2, <3>1, <3>2 DEF PanelShowsSelection
  <2> QED BY <2>1, <2>2
<1> QED BY <1>1, <1>2, TableCases

LEMMA ShowsInit == Init => PanelShowsSelection
BY DEF Init, PanelShowsSelection

LEMMA ShowsStep == PageInv /\ PanelShowsSelection /\ [Next]_vars => PanelShowsSelection'
<1> SUFFICES ASSUME PageInv, PanelShowsSelection, [Next]_vars PROVE PanelShowsSelection'
  OBVIOUS
<1>t. TypeOK
  BY DEF PageInv
<1>u. ASSUME UNCHANGED <<quotes, history>>, UNCHANGED view PROVE PanelShowsSelection'
  BY <1>u DEF view, PanelShowsSelection
<1>1. CASE OnOpen \/ LinkFails \/ OnClose \/ Connect \/ UNCHANGED vars
  <2>1. UNCHANGED <<quotes, history>> /\ UNCHANGED view
    BY <1>1 DEF OnOpen, LinkFails, OnClose, Connect, data, view, vars
  <2> QED BY <1>u, <2>1
<1>2. ASSUME NEW k \in Keys, NEW t \in Ticks, OnDepth(k, t) PROVE PanelShowsSelection'
  <2>1. /\ quotes' = quotes \union {k} /\ active' = active /\ UpdateTable(selected, k)
        /\ history' = [history EXCEPT ![k] = PushHistory(history[k], t)]
    BY <1>2 DEF OnDepth
  <2>2. /\ quotes' \subseteq Keys /\ selected \in Keys \union {None}
        /\ history \in [Keys -> History]
    BY <1>t, <2>1 DEF TypeOK
  <2>3. ASSUME selected # None
        PROVE  /\ selected \in quotes' /\ selected.src = active' /\ panel = selected
               /\ k = selected \/ drawn = history'[selected]
    BY <2>1, <2>2, <2>3 DEF PanelShowsSelection
  <2> QED BY <1>t, <2>1, <2>2, <2>3, TableShows
<1>3. CASE OnKline
  <2> DEFINE k == [src |-> "Tencent", sym |-> owed.sym]
             t == Head(owed.bars)
  <2>1. /\ history' = [history EXCEPT ![k] = ReplaceKlineHistory(history[k], t)]
        /\ IF selected = k THEN drawn' = history'[k] ELSE UNCHANGED drawn
        /\ UNCHANGED <<quotes, selected, active, panel>>
    BY <1>3 DEF OnKline, DrawChart
  <2>2. history \in [Keys -> History] /\ selected \in Keys \union {None}
    BY <1>t DEF TypeOK
  <2> HIDE DEF k, t
  <2>3. selected # None => drawn' = history'[selected]
    BY <2>1, <2>2 DEF PanelShowsSelection
  <2> QED BY <2>1, <2>3 DEF PanelShowsSelection
<1>4. ASSUME NEW bars, Answer(bars) PROVE PanelShowsSelection'
  <2>1. UNCHANGED <<quotes, history>> /\ UNCHANGED view
    BY <1>4 DEF Answer, data, view
  <2> QED BY <1>u, <2>1
<1>5. ASSUME NEW k \in Keys, ClickRow(k) PROVE PanelShowsSelection'
  <2>1. k \in quotes' /\ k.src = active' /\ SelectQuote(k)
    BY <1>5 DEF ClickRow, data
  <2> QED BY <1>t, <2>1, SelectShows
<1>6. ASSUME NEW s \in Source, ClickTab(s) PROVE PanelShowsSelection'
  <2>1. UpdateTable(None, None) /\ quotes' = quotes
    BY <1>6 DEF ClickTab, data
  <2>2. quotes' \subseteq Keys
    BY <1>t, <2>1 DEF TypeOK
  <2> QED BY <1>t, <2>1, <2>2, TableShows
<1> QED BY <1>1, <1>2, <1>3, <1>4, <1>5, <1>6 DEF Next

\* Panel and chart always show the selected row with all it got, and a row is
\* selected whenever the table has one (frontend.rs:360-414).
THEOREM PanelFollowsSelection == Spec => []PanelShowsSelection
<1>1. Init => PanelShowsSelection
  BY ShowsInit
<1>2. PageInv /\ PanelShowsSelection /\ [Next]_vars => PanelShowsSelection'
  BY ShowsStep
<1> QED BY <1>1, <1>2, PageAlways, PTL DEF Spec

-----------------------------------------------------------------------------
(* The dial, and the requests of a connection.                              *)

TimerWaits == timer => conn = "closed"

\* A dial is pending only after the last socket closed, so a new socket never
\* takes the place of a live one, whose handlers would go on (frontend.rs:465-477).
THEOREM OneSocket == Spec => []TimerWaits
<1>1. Init => TimerWaits
  BY DEF Init, TimerWaits
<1>2. TimerWaits /\ [Next]_vars => TimerWaits'
  BY DEF TimerWaits, Next, OnOpen, LinkFails, OnClose, Connect, OnDepth, OnKline, Answer,
         ClickRow, ClickTab, socket, vars
<1> QED BY <1>1, <1>2, PTL DEF Spec

\* The page remembers what it asked for on this connection, and asks only on an
\* open one.
RequestsInv ==
  /\ IsInjective(sent)
  /\ conn # "open" => sent = <<>>
  /\ conn = "open" =>
       requested = ToSet(sent) /\ (selected # None => selected \in requested)

\* A request for a row that is not among those asked for already, or none.
LEMMA RequestKeeps ==
  ASSUME NEW k \in Keys \union {None}, NEW already \in SUBSET Keys,
         sent \in Seq(Keys), taken \in 0 .. Len(sent),
         IsInjective(sent), conn' = "open" => already = ToSet(sent),
         conn' # "open" => sent = <<>>,
         selected' = k, RequestKline(k, conn', already)
  PROVE  RequestsInv'
<1>1. CASE requested' = already /\ sent' = sent
  <2>1. conn' = "open" /\ k # None => k \in already
    <3> SUFFICES ASSUME conn' = "open", k # None, k \notin already PROVE FALSE
      OBVIOUS
    <3>1. requested' = already \union {k}
      BY DEF RequestKline
    <3> QED BY <1>1, <3>1
  <2>2. IsInjective(sent')
    BY <1>1
  <2> QED BY <1>1, <2>1, <2>2 DEF RequestsInv
<1>2. CASE /\ k \in Keys /\ conn' = "open" /\ k \notin already
           /\ requested' = already \union {k} /\ sent' = Append(sent, k)
  <2>1. ToSet(sent') = ToSet(sent) \union {k} /\ IsInjective(sent')
    BY <1>2, AppendedPoint
  <2> QED BY <1>2, <2>1 DEF RequestsInv
<1> QED BY <1>1, <1>2, RequestOf

LEMMA TableRequests ==
  ASSUME PageInv, RequestsInv, UNCHANGED conn, quotes' \subseteq Keys,
         NEW sel \in {selected, None}, NEW changed, UpdateTable(sel, changed)
  PROVE  RequestsInv'
<1> DEFINE rows == {k \in quotes' : k.src = active'}
<1>t. /\ requested \in SUBSET Keys /\ sent \in Seq(Keys) /\ taken \in 0 .. Len(sent)
      /\ sel \in Keys \union {None}
  BY DEF PageInv, TypeOK
<1>1. CASE \E k \in rows : k \in Keys /\ SelectQuote(k)
  <2>1. PICK k \in Keys : SelectQuote(k)
    BY <1>1
  <2>2. selected' = k /\ RequestKline(k, conn', requested)
    BY <2>1 DEF SelectQuote
  <2> QED BY <1>t, <2>2, RequestKeeps DEF RequestsInv
<1>2. CASE selected' = sel /\ UNCHANGED <<requested, sent>>
  BY <1>2 DEF RequestsInv
<1> QED BY <1>t, <1>1, <1>2, TableCases

LEMMA RequestsInit == Init => RequestsInv
<1> SUFFICES ASSUME Init PROVE RequestsInv
  OBVIOUS
<1>1. sent = <<>> /\ conn = "connecting" /\ DOMAIN <<>> = {}
  BY DEF Init
<1> QED BY <1>1 DEF RequestsInv, IsInjective

LEMMA RequestsStep == PageInv /\ TimerWaits /\ RequestsInv /\ [Next]_vars => RequestsInv'
<1> SUFFICES ASSUME PageInv, TimerWaits, RequestsInv, [Next]_vars PROVE RequestsInv'
  OBVIOUS
<1>t. /\ requested \in SUBSET Keys /\ sent \in Seq(Keys) /\ taken \in 0 .. Len(sent)
      /\ selected \in Keys \union {None} /\ quotes \subseteq Keys
  BY DEF PageInv, TypeOK
<1>u. ASSUME UNCHANGED <<conn, requested, selected, sent>> PROVE RequestsInv'
  BY <1>u DEF RequestsInv
<1>e. IsInjective(<<>>) /\ ToSet(<<>>) = {}
  BY DEF IsInjective, ToSet
<1>1. CASE OnOpen
  <2>1. /\ conn = "connecting" /\ conn' = "open" /\ selected' = selected
        /\ RequestKline(selected, conn', {})
    BY <1>1 DEF OnOpen, view
  <2>2. sent = <<>> /\ {} = ToSet(sent)
    BY <1>e, <2>1 DEF RequestsInv
  <2>3. {} \in SUBSET Keys /\ IsInjective(sent)
    BY <1>e, <2>2
  <2> QED BY <1>t, <2>1, <2>2, <2>3, RequestKeeps
<1>2. CASE LinkFails
  <2>1. conn' = "closing" /\ sent' = <<>>
    BY <1>2 DEF LinkFails
  <2> QED BY <1>e, <2>1 DEF RequestsInv
<1>3. CASE OnClose
  BY <1>3 DEF OnClose, RequestsInv
<1>4. CASE Connect
  <2>1. conn = "closed" /\ conn' = "connecting" /\ UNCHANGED <<requested, sent>>
    BY <1>4 DEF Connect, TimerWaits
  <2> QED BY <2>1 DEF RequestsInv
<1>5. ASSUME NEW k \in Keys, NEW t \in Ticks, OnDepth(k, t) PROVE RequestsInv'
  <2>1. UpdateTable(selected, k) /\ UNCHANGED conn /\ quotes' = quotes \union {k}
    BY <1>5 DEF OnDepth, socket
  <2> QED BY <1>t, <2>1, TableRequests
<1>6. CASE OnKline
  BY <1>u, <1>6 DEF OnKline, socket
<1>7. ASSUME NEW bars, Answer(bars) PROVE RequestsInv'
  BY <1>u, <1>7 DEF Answer, socket, view
<1>8. ASSUME NEW k \in Keys, ClickRow(k) PROVE RequestsInv'
  <2>1. selected' = k /\ RequestKline(k, conn', requested) /\ conn' = conn
    BY <1>8 DEF ClickRow, SelectQuote, socket
  <2> QED BY <1>t, <2>1, RequestKeeps DEF RequestsInv
<1>9. ASSUME NEW s \in Source, ClickTab(s) PROVE RequestsInv'
  <2>1. UpdateTable(None, None) /\ UNCHANGED conn /\ quotes' = quotes
    BY <1>9 DEF ClickTab, socket, data
  <2> QED BY <1>t, <2>1, TableRequests
<1>10. CASE UNCHANGED vars
  BY <1>u, <1>10 DEF vars
<1> QED BY <1>1, <1>2, <1>3, <1>4, <1>5, <1>6, <1>7, <1>8, <1>9, <1>10 DEF Next

\* On an open connection, also one dialled after a break, the selected row's bars
\* were asked for on that very connection, and no row's twice
\* (frontend.rs:183-194, 467-473).
THEOREM SelectionRequested == Spec => []SelectedIsRequested
<1>1. Init => RequestsInv
  BY RequestsInit
<1>2. PageInv /\ TimerWaits /\ RequestsInv /\ [Next]_vars => RequestsInv'
  BY RequestsStep
<1>3. RequestsInv => SelectedIsRequested
  BY DEF RequestsInv, SelectedIsRequested
<1> QED BY <1>1, <1>2, <1>3, PageAlways, OneSocket, PTL DEF Spec

-----------------------------------------------------------------------------
(* The order of the points.                                                *)

Rising(s) == \A i, j \in DOMAIN s : i < j => s[i] < s[j]

LEMMA ReplaceRises ==
  ASSUME NEW h, NEW S, NEW t \in Points, Holds(h, S)
  PROVE  Rising(ReplaceKlineHistory(h, t))
<1> DEFINE arr == IF Contains(h, t) THEN h ELSE Append(h, t)
           s == Sorted(arr)
           n == Len(s)
<1>p. Points \in SUBSET Nat
  BY DEF Points
<1>c. Contains(h, t) <=> t \in ToSet(h)
  BY LenProperties DEF Contains, ToSet, Holds
<1>1. arr \in Seq(Points) /\ IsInjective(arr)
  BY <1>c, AppendedPoint DEF Holds
<1>8. ReplaceKlineHistory(h, t) = IF n > MaxHistory THEN Latest(s) ELSE s
  BY DEF ReplaceKlineHistory
<1> HIDE DEF arr
<1>2. /\ s \in Seq(Points) /\ n = Len(arr) /\ IsInjective(s)
      /\ \A i, j \in 1 .. n : i < j => s[i] <= s[j]
  BY <1>p, <1>1, SortedOf
<1> HIDE DEF s
<1>3. n \in Nat /\ DOMAIN s = 1 .. n /\ \A i \in 1 .. n : s[i] \in Nat
  BY <1>p, <1>2, LenProperties, ElementOfSeq
<1>4. \A i, j \in 1 .. n : i < j => s[i] < s[j]
  BY <1>2, <1>3 DEF IsInjective
<1>5. CASE n > MaxHistory
  <2> DEFINE m == n - MaxHistory
  <2>1. /\ Latest(s) \in Seq(Points) /\ Len(Latest(s)) = MaxHistory
    BY <1>2, <1>5, LatestOf
  <2>2. DOMAIN Latest(s) = 1 .. MaxHistory
    BY <2>1, LenProperties
  <2>3. \A i \in m + 1 .. n : s[i] \in Points
    BY <1>2, <1>3, <1>5, ElementOfSeq
  <2>4. m \in Nat /\ n = m + MaxHistory
    BY <1>3, <1>5
  <2>5. \A i \in 1 .. MaxHistory : Latest(s)[i] = s[m + i]
    <3>1. Latest(s) = SubSeq(s, m + 1, n)
      BY DEF Latest
    <3> HIDE DEF m, n
    <3>2. n - (m + 1) + 1 = MaxHistory /\ \A i \in 1 .. MaxHistory : (m + 1) + i - 1 = m + i
      BY <2>4
    <3>3. \A i \in 1 .. n - (m + 1) + 1 : SubSeq(s, m + 1, n)[i] = s[(m + 1) + i - 1]
      BY <1>3, <2>3, <2>4, SubSeqProperties
    <3> QED BY <3>1, <3>2, <3>3
  <2> HIDE DEF m, n
  <2>6. ASSUME NEW i \in 1 .. MaxHistory, NEW j \in 1 .. MaxHistory, i < j
        PROVE  Latest(s)[i] < Latest(s)[j]
    <3>1. m + i \in 1 .. n /\ m + j \in 1 .. n /\ m + i < m + j
      BY <2>4, <2>6
    <3> QED BY <1>4, <2>5, <3>1
  <2> QED BY <1>5, <1>8, <2>2, <2>6 DEF Rising
<1>6. CASE ~ (n > MaxHistory)
  BY <1>3, <1>4, <1>6, <1>8 DEF Rising
<1> QED BY <1>5, <1>6

\* After a bar, also one that came out of order or again, the times of the row's
\* chart go strictly up, whatever quotes were put behind newer bars before
\* (frontend.rs:176-180).
THEOREM BarsOrderChart ==
  Spec => [][OnKline => \A k \in Keys : k = [src |-> "Tencent", sym |-> owed.sym]
                                          => Rising(history'[k])]_vars
<1>1. ASSUME PageInv, OnKline, NEW k \in Keys, k = [src |-> "Tencent", sym |-> owed.sym]
      PROVE  Rising(history'[k])
  <2> DEFINE t == Head(owed.bars)
  <2>1. history' = [history EXCEPT ![k] = ReplaceKlineHistory(history[k], t)] /\ owed.bars # <<>>
    BY <1>1 DEF OnKline
  <2>2. /\ history \in [Keys -> History] /\ Holds(history[k], seen[k])
        /\ owed.bars \in Seq(Minutes)
    BY <1>1 DEF PageInv, TypeOK, ChartOf
  <2>3. t \in Points
    BY <2>1, <2>2, HeadTailProperties DEF Points
  <2> HIDE DEF t
  <2>4. history'[k] = ReplaceKlineHistory(history[k], t)
    BY <2>1, <2>2
  <2> QED BY <2>2, <2>3, <2>4, ReplaceRises
<1>2. PageInv /\ [Next]_vars
        => [OnKline => \A k \in Keys : k = [src |-> "Tencent", sym |-> owed.sym]
                                         => Rising(history'[k])]_vars
  BY <1>1
<1> QED BY <1>2, PageAlways, PTL DEF Spec
=============================================================================
