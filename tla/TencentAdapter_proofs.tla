------------------------- MODULE TencentAdapter_proofs -------------------------
(***************************************************************************)
(* Proofs about TencentAdapter for every set of codes, every channel and   *)
(* bound, and answers with lines of any number of fields.                  *)
(***************************************************************************)
EXTENDS TencentAdapter, FiniteSetTheorems, WellFoundedInduction, TLAPS

USE TencentAssumption DEF TencentAssumption

-----------------------------------------------------------------------------
(* What parse_depth_quote returns.                                         *)

LEMMA Least ==
  ASSUME NEW T \in SUBSET Nat, T # {}
  PROVE  \E x \in T : \A y \in T : x <= y
<1> DEFINE R == {p \in Nat \X Nat : p[1] < p[2]}
<1>1. IsWellFoundedOn(R, Nat)
  BY NatLessThanWellFounded DEF OpToRel
<1>2. \E x \in T : \A y \in T : <<y, x>> \notin R
  <2> HIDE DEF R
  <2> QED BY <1>1, WFMin
<1>3. \A x, y \in Nat : <<y, x>> \notin R => x <= y
  OBVIOUS
<1> QED BY <1>2, <1>3

UpTo(Q, i) == {j \in Q : j <= i}

LEMMA UpToNext ==
  ASSUME NEW Q \in SUBSET Nat, IsFiniteSet(Q), NEW i \in Nat \ {0}
  PROVE  /\ i - 1 \in Nat
         /\ Cardinality(UpTo(Q, i - 1)) \in Nat
         /\ Cardinality(UpTo(Q, i)) =
              IF i \in Q THEN Cardinality(UpTo(Q, i - 1)) + 1
              ELSE Cardinality(UpTo(Q, i - 1))
<1>1. UpTo(Q, i - 1) \subseteq Q /\ i \notin UpTo(Q, i - 1) /\ i - 1 \in Nat
  BY DEF UpTo
<1>2. IsFiniteSet(UpTo(Q, i - 1))
  BY <1>1, FS_Subset
<1>3. UpTo(Q, i) = IF i \in Q THEN UpTo(Q, i - 1) \union {i} ELSE UpTo(Q, i - 1)
  <2>1. \A j \in Q : j <= i <=> j <= i - 1 \/ j = i
    OBVIOUS
  <2> QED BY <2>1 DEF UpTo
<1> QED BY <1>1, <1>2, <1>3, FS_AddElement, FS_CardinalityType

\* Counting a set of line numbers from the first line on, every count up to the
\* number of lines is met at one of them.
LEMMA KthOf ==
  ASSUME NEW n \in Nat, NEW Q \in SUBSET (1 .. n), NEW k \in 1 .. Cardinality(Q)
  PROVE  Kth(Q, k) \in Q
<1> DEFINE T == {i \in 0 .. n : Cardinality(UpTo(Q, i)) >= k}
<1>1. IsFiniteSet(Q) /\ Cardinality(Q) \in Nat /\ Q \in SUBSET Nat
  <2>1. IsFiniteSet(1 .. n)
    BY FS_Interval
  <2>2. IsFiniteSet(Q)
    BY <2>1, FS_Subset
  <2>3. Q \in SUBSET Nat
    OBVIOUS
  <2> QED BY <2>2, <2>3, FS_CardinalityType
<1>2. k \in Nat \ {0} /\ k <= Cardinality(Q)
  BY <1>1
<1>3. UpTo(Q, n) = Q /\ UpTo(Q, 0) = {}
  <2>1. \A j \in Q : j <= n /\ ~(j <= 0)
    OBVIOUS
  <2> QED BY <2>1 DEF UpTo
<1>4. PICK i \in T : \A j \in T : i <= j
  <2>1. n \in T
    BY <1>2, <1>3
  <2>2. T \in SUBSET Nat
    OBVIOUS
  <2> HIDE DEF T
  <2> QED BY <2>1, <2>2, Least
<1>5. i \in 0 .. n /\ Cardinality(UpTo(Q, i)) >= k
  BY <1>4
<1>6. i # 0
  BY <1>2, <1>3, <1>5, FS_EmptySet
<1>7. i - 1 \in 0 .. n /\ i - 1 \notin T
  <2>1. i \in 1 .. n
    BY <1>5, <1>6
  <2>2. i - 1 \in 0 .. n /\ ~(i <= i - 1)
    BY <2>1
  <2> QED BY <1>4, <2>2
<1>8. ~(Cardinality(UpTo(Q, i - 1)) >= k)
  BY <1>7
<1> HIDE DEF T
<1>9. /\ Cardinality(UpTo(Q, i - 1)) \in Nat
      /\ Cardinality(UpTo(Q, i)) = IF i \in Q THEN Cardinality(UpTo(Q, i - 1)) + 1
                                   ELSE Cardinality(UpTo(Q, i - 1))
  BY <1>1, <1>5, <1>6, UpToNext
<1>10. i \in Q /\ Cardinality(UpTo(Q, i)) = k
  BY <1>2, <1>5, <1>8, <1>9
<1> QED BY <1>10 DEF Kth, UpTo

\* An answer about the stocks of S gives depths of stocks of S, at most one for
\* each line of it.
LEMMA ParseDepthQuoteOf ==
  ASSUME NEW S \in SUBSET Symbol, NEW lines \in Answers(S)
  PROVE  /\ ParseDepthQuote(lines) \in Seq(S)
         /\ Len(ParseDepthQuote(lines)) <= MaxLines
<1>1. PICK n \in 0 .. MaxLines : lines \in [1 .. n -> Line(S)]
  BY DEF Answers
<1> DEFINE Q == {i \in DOMAIN lines : IsQuote(lines[i])}
<1>2. Q \in SUBSET (1 .. n) /\ n \in Nat
  BY <1>1
<1>3. Cardinality(Q) \in Nat /\ Cardinality(Q) <= n
  <2>1. IsFiniteSet(1 .. n) /\ Cardinality(1 .. n) = n
    BY <1>2, FS_Interval
  <2> HIDE DEF Q
  <2>2. IsFiniteSet(Q) /\ Cardinality(Q) <= Cardinality(1 .. n)
    BY <1>2, <2>1, FS_Subset
  <2> QED BY <2>1, <2>2, FS_CardinalityType
<1>4. ASSUME NEW k \in 1 .. Cardinality(Q) PROVE DepthOf(lines[Kth(Q, k)]) \in S
  <2>1. Kth(Q, k) \in 1 .. n
    <3> HIDE DEF Q
    <3> QED BY <1>2, KthOf
  <2>2. lines[Kth(Q, k)] \in Line(S)
    <3> HIDE DEF Q
    <3> QED BY <1>1, <2>1
  <2>3. \A line \in Line(S) : DepthOf(line) \in S
    BY DEF Line, DepthOf, MarketId, Symbol
  <2> QED BY <2>2, <2>3
<1>5. ParseDepthQuote(lines) = [k \in 1 .. Cardinality(Q) |-> DepthOf(lines[Kth(Q, k)])]
  BY DEF ParseDepthQuote
<1> HIDE DEF Q
<1>6. ParseDepthQuote(lines) \in Seq(S) /\ Len(ParseDepthQuote(lines)) = Cardinality(Q)
  BY <1>3, <1>4, <1>5
<1>7. n <= MaxLines
  OBVIOUS
<1> QED BY <1>3, <1>6, <1>7

\* No line that counts as a quote is indexed past its end.
LEMMA NothingOverrun ==
  ASSUME NEW S \in SUBSET Symbol, NEW line \in Line(S)
  PROVE  ~Overrun(line)
<1>1. \A f \in IndexedFields : f \in Nat /\ f < MinFields
  BY DEF IndexedFields, LevelFields, MinFields
<1>2. line.fields \in Nat
  BY DEF Line
<1> QED BY <1>1, <1>2 DEF Overrun, IsQuote, MinFields

-----------------------------------------------------------------------------
(* Type correctness: the bound on todo needs what the parser returns.      *)

LEMMA TypeInit == Init => TypeOK
<1> SUFFICES ASSUME Init PROVE TypeOK
  OBVIOUS
<1>1. /\ todo \in Seq(Symbol) /\ Len(todo) = 0
      /\ out \in Seq([depth : Symbol, call : 0 .. MaxCalls]) /\ Len(out) = 0
  BY DEF Init
<1>2. stopped \in BOOLEAN
  BY DEF Init
<1> QED BY <1>1, <1>2 DEF Init, TypeOK

LEMMA FetchType ==
  ASSUME TypeOK, NEW lines \in Answers(asked), FetchOk(lines)
  PROVE  pc' = "send" /\ todo' \in Seq(Symbol) /\ todo' \in Seq(asked) /\ Len(todo') <= MaxLines
<1>1. asked \in SUBSET Symbol
  BY DEF TypeOK
<1>2. todo' \in Seq(asked) /\ Len(todo') <= MaxLines
  BY <1>1, ParseDepthQuoteOf DEF FetchOk
<1>3. todo' \in Seq(Symbol)
  BY <1>1, <1>2
<1>4. \A i \in DOMAIN lines : lines[i] \in Line(asked)
  BY DEF Answers
<1>5. pc' = "send"
  BY <1>1, <1>4, NothingOverrun DEF FetchOk
<1> QED BY <1>2, <1>3, <1>5

LEMMA TypeStep == TypeOK /\ [Next]_vars => TypeOK'
<1> SUFFICES ASSUME TypeOK, [Next]_vars PROVE TypeOK'
  OBVIOUS
<1> USE DEF TypeOK, shared, fetch
<1>1. ASSUME NEW S \in SUBSET Symbol, Subscribe(S) PROVE TypeOK'
  BY <1>1 DEF Subscribe
<1>2. CASE Stop
  BY <1>2 DEF Stop
<1>3. CASE HubTakes
  BY <1>3 DEF HubTakes
<1>4. CASE HubEnds
  <2>1. out' \in Seq([depth : Symbol, call : 0 .. MaxCalls]) /\ Len(out') = 0
    BY <1>4 DEF HubEnds
  <2> QED BY <1>4, <2>1 DEF HubEnds
<1>5. CASE PeriodElapses
  BY <1>5 DEF PeriodElapses
<1>6. CASE Start
  <2>1. stopped' \in BOOLEAN
    BY <1>6 DEF Start
  <2> QED BY <1>6, <2>1 DEF Start
<1>7. CASE Loop
  BY <1>7 DEF Loop
<1>8. CASE Tick
  BY <1>8 DEF Tick
<1>9. CASE SendDepth
  <2>1. Head(todo) \in Symbol /\ begun \in 0 .. MaxCalls
    BY <1>9 DEF SendDepth
  <2>2. out' \in Seq([depth : Symbol, call : 0 .. MaxCalls]) /\ Len(out') <= QueueCap
    BY <1>9, <2>1 DEF SendDepth
  <2>3. todo' \in Seq(Symbol) /\ Len(todo') <= MaxLines
    BY <1>9 DEF SendDepth
  <2> QED BY <1>9, <2>2, <2>3 DEF SendDepth
<1>10. CASE SendDone
  <2>1. todo' \in Seq(Symbol) /\ Len(todo') = 0
    BY <1>10 DEF SendDone
  <2> QED BY <1>10, <2>1 DEF SendDone
<1>11. CASE FetchFails
  BY <1>11 DEF FetchFails
<1>12. ASSUME NEW lines \in Answers(asked), FetchOk(lines) PROVE TypeOK'
  BY <1>12, FetchType DEF FetchOk
<1>13. CASE UNCHANGED vars
  BY <1>13 DEF vars
<1> QED
  BY <1>1, <1>2, <1>3, <1>4, <1>5, <1>6, <1>7, <1>8, <1>9, <1>10, <1>11, <1>12, <1>13
     DEF Next, Run, Fetch

\* Each variable of the adapter keeps its type.  That run() never panics is part
\* of it: whatever lines the service answers with, the parser stays within them.
THEOREM TypeCorrect == Spec => []TypeOK
BY TypeInit, TypeStep, PTL DEF Spec

-----------------------------------------------------------------------------
(* The list a fetch was begun for.                                         *)

\* Which list a fetch asked for is remembered nowhere: what tells it is that no
\* subscribe came since it began, and that what is sent on belongs to it.
FetchedList ==
  /\ pc \in {"fetch", "send"} /\ begun = calls => asked = symbols
  /\ pc # "send" => todo = <<>>
  /\ \A i \in DOMAIN todo : todo[i] \in asked

OfCurrentList(m) == m.call <= calls /\ (m.call = calls => m.depth \in symbols)

ListInv == FetchedList /\ \A i \in DOMAIN out : OfCurrentList(out[i])

LEMMA ElementsOf ==
  ASSUME NEW S, NEW s \in Seq(S)
  PROVE  \A i \in DOMAIN s : s[i] \in S
OBVIOUS

LEMMA ListInit == Init => ListInv
<1> SUFFICES ASSUME Init PROVE ListInv
  OBVIOUS
<1>1. DOMAIN todo = {} /\ DOMAIN out = {}
  BY DEF Init
<1> QED BY <1>1 DEF Init, ListInv, FetchedList

LEMMA ListStep == TypeOK /\ ListInv /\ [Next]_vars => ListInv'
<1> SUFFICES ASSUME TypeOK, ListInv, [Next]_vars PROVE ListInv'
  OBVIOUS
<1> USE DEF ListInv, FetchedList, OfCurrentList, shared, fetch
<1>t. /\ calls \in Nat /\ begun \in Nat /\ begun <= calls
      /\ todo \in Seq(Symbol) /\ out \in Seq([depth : Symbol, call : 0 .. MaxCalls])
      /\ \A i \in DOMAIN out : out[i].call \in Nat
  <2>1. out \in Seq([depth : Symbol, call : 0 .. MaxCalls])
    BY DEF TypeOK
  <2>2. \A i \in DOMAIN out : out[i] \in [depth : Symbol, call : 0 .. MaxCalls]
    BY <2>1, ElementsOf
  <2>3. \A m \in [depth : Symbol, call : 0 .. MaxCalls] : m.call \in Nat
    OBVIOUS
  <2>4. calls \in Nat /\ begun \in Nat /\ begun <= calls /\ todo \in Seq(Symbol)
    BY DEF TypeOK
  <2> QED BY <2>1, <2>2, <2>3, <2>4
<1>1. ASSUME NEW S \in SUBSET Symbol, Subscribe(S) PROVE ListInv'
  BY <1>1, <1>t DEF Subscribe
<1>2. CASE HubTakes
  BY <1>2, <1>t DEF HubTakes
<1>3. CASE HubEnds
  <2>1. DOMAIN out' = {}
    BY <1>3 DEF HubEnds
  <2> QED BY <1>3, <2>1 DEF HubEnds
<1>4. CASE Stop \/ PeriodElapses \/ Start \/ Loop \/ FetchFails \/ UNCHANGED vars
  BY <1>4 DEF Stop, PeriodElapses, Start, Loop, FetchFails, vars
<1>5. CASE Tick
  <2>1. DOMAIN todo = {}
    BY <1>5 DEF Tick
  <2> QED BY <1>5, <2>1 DEF Tick
<1>6. CASE SendDepth
  <2>1. Head(todo) \in asked /\ \A i \in DOMAIN Tail(todo) : Tail(todo)[i] \in asked
    BY <1>6, <1>t DEF SendDepth
  <2>2. begun = calls => Head(todo) \in symbols
    BY <1>6, <2>1 DEF SendDepth
  <2> DEFINE m == [depth |-> Head(todo), call |-> begun]
  <2>3. OfCurrentList(m)
    BY <1>t, <2>2
  <2>4. \A i \in DOMAIN Append(out, m) : OfCurrentList(Append(out, m)[i])
    <3> HIDE DEF m, OfCurrentList
    <3> QED BY <1>t, <2>3
  <2> QED BY <1>6, <2>1, <2>4 DEF SendDepth
<1>7. CASE SendDone
  <2>1. DOMAIN todo' = {}
    BY <1>7 DEF SendDone
  <2> QED BY <1>7, <2>1 DEF SendDone
<1>8. ASSUME NEW lines \in Answers(asked), FetchOk(lines) PROVE ListInv'
  <2>1. pc' = "send" /\ todo' \in Seq(asked)
    BY <1>8, FetchType
  <2> QED BY <1>8, <2>1 DEF FetchOk
<1> QED BY <1>1, <1>2, <1>3, <1>4, <1>5, <1>6, <1>7, <1>8 DEF Next, Run, Fetch

\* adapter.rs:71-77: after subscribe, whichever of a burst of overdue ticks comes
\* next only brings depths of the new list; a depth of an older fetch is still
\* told apart by the call it belongs to.
THEOREM OnlyCurrentList == Spec => []DepthsAreOfCurrentList
<1>1. TypeOK /\ ListInv => DepthsAreOfCurrentList
  <2> SUFFICES ASSUME TypeOK, ListInv PROVE DepthsAreOfCurrentList
    OBVIOUS
  <2>1. ASSUME begun = calls, NEW i \in DOMAIN todo PROVE todo[i] \in symbols
    <3>1. pc = "send"
      BY DEF ListInv, FetchedList
    <3> QED BY <2>1, <3>1 DEF ListInv, FetchedList
  <2> QED BY <2>1 DEF DepthsAreOfCurrentList, ListInv, OfCurrentList
<1> QED BY <1>1, TypeCorrect, ListInit, ListStep, PTL DEF Spec

-----------------------------------------------------------------------------
(* Opening times.  days_from_civil divides the years into parts of equal    *)
(* length; the proof goes the other way, from the length of a year between  *)
(* two Marches to the one day between two dates.                            *)

\* Days from 1 March of year 0 to 1 March of year y, as days_from_civil counts.
YearStart(y) ==
  LET era == y \div 400
      yoe == y - era * 400
  IN  era * 146097 + yoe * 365 + yoe \div 4 - yoe \div 100

\* Four centuries have the same calendar as any other four.
LEMMA EraOf ==
  ASSUME NEW y \in Nat
  PROVE  /\ y \div 400 \in Nat /\ y - (y \div 400) * 400 \in 0 .. 399
         /\ y = 400 * (y \div 400) + (y - (y \div 400) * 400)
BY SMT

LEMMA SameEra ==
  ASSUME NEW y \in Nat, NEW e \in Nat, NEW r \in 0 .. 399, y = 400 * e + r
  PROVE  y \div 400 = e /\ y - e * 400 = r
BY SMT

LEMMA LeapOf ==
  ASSUME NEW y \in Nat, NEW e \in Nat, NEW r \in 0 .. 399, y = 400 * e + r
  PROVE  Leap(y) <=> r % 4 = 0 /\ (r % 100 # 0 \/ r = 0)
<1>1. y % 4 = r % 4
  BY SMT
<1>2. y % 100 = r % 100
  BY SMT
<1>3. y % 400 = r
  BY SMT
<1> QED BY <1>1, <1>2, <1>3, SMT DEF Leap

\* A quotient grows at the multiples of its divisor.
LEMMA NextFourth ==
  ASSUME NEW r \in Nat
  PROVE  /\ (r + 1) \div 4 = r \div 4 + (IF (r + 1) % 4 = 0 THEN 1 ELSE 0)
         /\ r \div 4 \in Nat /\ (r + 1) \div 4 \in Nat
BY SMT
LEMMA NextHundredth ==
  ASSUME NEW r \in Nat
  PROVE  /\ (r + 1) \div 100 = r \div 100 + (IF (r + 1) % 100 = 0 THEN 1 ELSE 0)
         /\ r \div 100 \in Nat /\ (r + 1) \div 100 \in Nat
BY SMT

LEMMA YearStartAt ==
  ASSUME NEW y \in Nat, NEW e \in Nat, NEW r \in 0 .. 399, y = 400 * e + r
  PROVE  YearStart(y) = e * 146097 + r * 365 + r \div 4 - r \div 100
<1>1. y \div 400 = e /\ y - e * 400 = r
  BY SameEra, SMT
<1> QED BY <1>1, SMT DEF YearStart

\* From one March to the next there are 366 days when a leap day lies between.
LEMMA YearLengthAt ==
  ASSUME NEW y \in Nat, NEW e \in Nat, NEW r \in 0 .. 399, y = 400 * e + r
  PROVE  /\ YearStart(y) \in Int
         /\ YearStart(y + 1) = YearStart(y) + (IF Leap(y + 1) THEN 366 ELSE 365)
<1>1. YearStart(y) = e * 146097 + r * 365 + r \div 4 - r \div 100
  <2>1. y \div 400 = e /\ y - e * 400 = r
    BY SameEra, SMT
  <2> QED BY <2>1, SMT DEF YearStart
<1>2. r \in Nat /\ r \div 4 \in Nat /\ r \div 100 \in Nat
  BY NextFourth, NextHundredth, SMT
<1>3. YearStart(y) \in Int
  BY <1>1, <1>2, SMT
<1>4. ASSUME NEW z \in Nat, z = y + 1
      PROVE  YearStart(z) = YearStart(y) + (IF Leap(z) THEN 366 ELSE 365)
  <2>1. CASE r = 399
    <3>1. ASSUME NEW f \in Nat, f = e + 1
          PROVE  YearStart(z) = f * 146097 /\ Leap(z)
      <4>1. z = 400 * f + 0 /\ 0 \in 0 .. 399
        BY <1>4, <2>1, <3>1, SMT
      <4>2. YearStart(z) = f * 146097
        <5>1. z \div 400 = f /\ z - f * 400 = 0
          BY <4>1, SameEra, SMT
        <5> QED BY <5>1, SMT DEF YearStart
      <4>3. Leap(z) <=> 0 % 4 = 0 /\ (0 % 100 # 0 \/ 0 = 0)
        BY <4>1, LeapOf, SMT
      <4> QED BY <4>2, <4>3, SMT
    <3>2. YearStart(z) = (e + 1) * 146097 /\ Leap(z)
      BY <3>1, SMT
    <3>3. YearStart(y) = e * 146097 + 399 * 365 + 99 - 3
      BY <1>1, <2>1, SMT
    <3> QED BY <3>2, <3>3, SMT
  <2>2. CASE r # 399
    <3>1. ASSUME NEW q \in 0 .. 399, q = r + 1
          PROVE  YearStart(z) = YearStart(y) + (IF Leap(z) THEN 366 ELSE 365)
      <4>1. z = 400 * e + q /\ q # 0
        BY <1>4, <3>1, SMT
      <4>2. YearStart(z) = e * 146097 + q * 365 + q \div 4 - q \div 100
        <5>1. z \div 400 = e /\ z - e * 400 = q
          BY <4>1, SameEra, SMT
        <5> QED BY <5>1, SMT DEF YearStart
      <4>3. Leap(z) <=> q % 4 = 0 /\ (q % 100 # 0 \/ q = 0)
        BY <4>1, LeapOf, SMT
      <4>4. q % 100 = 0 => q % 4 = 0
        BY SMT
      <4>5. /\ q \div 4 = r \div 4 + (IF q % 4 = 0 THEN 1 ELSE 0)
            /\ q \div 100 = r \div 100 + (IF q % 100 = 0 THEN 1 ELSE 0)
        BY <1>2, <3>1, NextFourth, NextHundredth, SMT
      <4> DEFINE a == r \div 4
                 b == r \div 100
      <4>6. /\ YearStart(z) = e * 146097 + (r + 1) * 365 + q \div 4 - q \div 100
            /\ YearStart(y) = e * 146097 + r * 365 + a - b
            /\ q \div 4 = a + (IF q % 4 = 0 THEN 1 ELSE 0)
            /\ q \div 100 = b + (IF q % 100 = 0 THEN 1 ELSE 0)
            /\ a \in Nat /\ b \in Nat
        BY <1>1, <1>2, <3>1, <4>2, <4>5, SMT
      <4> HIDE DEF a, b
      <4>7. CASE Leap(z)
        <5>1. q \div 4 = a + 1 /\ q \div 100 = b
          BY <4>1, <4>3, <4>6, <4>7, SMT
        <5> QED BY <4>6, <4>7, <5>1, SMT
      <4>8. CASE ~Leap(z) /\ q % 4 = 0
        <5>1. q \div 4 = a + 1 /\ q \div 100 = b + 1
          BY <4>1, <4>3, <4>6, <4>8, SMT
        <5> QED BY <4>6, <4>8, <5>1, SMT
      <4>9. CASE ~Leap(z) /\ q % 4 # 0
        <5>1. q \div 4 = a /\ q \div 100 = b
          BY <4>4, <4>6, <4>9, SMT
        <5> QED BY <4>6, <4>9, <5>1, SMT
      <4> QED BY <4>7, <4>8, <4>9, SMT
    <3>2. r + 1 \in 0 .. 399
      BY <2>2, SMT
    <3> QED BY <3>1, <3>2, SMT
  <2> QED BY <2>1, <2>2, SMT
<1>5. y + 1 \in Nat
  BY SMT
<1> QED BY <1>3, <1>4, <1>5, SMT

LEMMA YearLength ==
  ASSUME NEW y \in Nat
  PROVE  /\ YearStart(y) \in Int
         /\ YearStart(y + 1) = YearStart(y) + (IF Leap(y + 1) THEN 366 ELSE 365)
<1>1. \E e \in Nat, r \in 0 .. 399 : y = 400 * e + r
  <2> WITNESS y \div 400 \in Nat, y - (y \div 400) * 400 \in 0 .. 399
  <2> QED BY EraOf, SMT
<1> QED BY <1>1, YearLengthAt, SMT

\* Days from 1 March to the first of month m; the year begins in March.
MonthStart(m) == (153 * (m + IF m > 2 THEN -3 ELSE 9) + 2) \div 5

LEMMA Months ==
  /\ MonthStart(3) = 0 /\ MonthStart(4) = 31 /\ MonthStart(5) = 61 /\ MonthStart(6) = 92
  /\ MonthStart(7) = 122 /\ MonthStart(8) = 153 /\ MonthStart(9) = 184
  /\ MonthStart(10) = 214 /\ MonthStart(11) = 245 /\ MonthStart(12) = 275
  /\ MonthStart(1) = 306 /\ MonthStart(2) = 337
BY SMT DEF MonthStart

MarchYear(y, m) == IF m <= 2 THEN y - 1 ELSE y

\* The closed formula is the sum of the three parts.
LEMMA Civil ==
  ASSUME NEW y \in Nat \ {0}, NEW m \in 1 .. 12, NEW d \in Nat
  PROVE  DaysFromCivil(y, m, d) =
           YearStart(MarchYear(y, m)) + MonthStart(m) + d - 1 - 719468
<1>1. MarchYear(y, m) \in Nat
  BY SMT DEF MarchYear
<1>2. MarchYear(y, m) >= 0
  BY <1>1, SMT
<1>3. MonthStart(m) \in Int
  BY Months, SMT
<1>4. YearStart(MarchYear(y, m)) \in Int
  BY <1>1, YearLength, SMT
<1> QED BY <1>1, <1>2, <1>3, <1>4, SMT DEF DaysFromCivil, MarchYear, MonthStart, YearStart

LEMMA MonthLengths ==
  ASSUME NEW y \in Nat, NEW m \in 1 .. 12
  PROVE  /\ m \notin {2, 12} => MonthStart(m) + MonthLength(y, m) = MonthStart(m + 1)
         /\ m \in {1, 3, 5, 7, 8, 10, 12} => MonthLength(y, m) = 31
         /\ m = 2 => MonthLength(y, m) = IF Leap(y) THEN 29 ELSE 28
         /\ MonthStart(m) \in Int /\ MonthLength(y, m) \in 28 .. 31
<1>1. /\ m = 2 => MonthLength(y, m) = IF Leap(y) THEN 29 ELSE 28
      /\ m \in {4, 6, 9, 11} => MonthLength(y, m) = 30
      /\ m \in {1, 3, 5, 7, 8, 10, 12} => MonthLength(y, m) = 31
  BY SMT DEF MonthLength
<1> QED BY <1>1, Months, SMT

\* A date of the calendar in one of the years that four digits can name.
FourDigitYears == 1 .. 9999
CivilDate(y, m, d) ==
  y \in FourDigitYears /\ m \in 1 .. 12 /\ d \in 1 .. MonthLength(y, m)

\* parser.rs:179-188: a date has the number after that of the day before it, within
\* a month and over its end, on and around the leap day, at the turn of the year
\* and of a century.  This is days_from_civil alone, whose numbers all fit its i32;
\* the runs count the years whose opening times fit an i64.
THEOREM NextDayCounts ==
  ASSUME NEW y, NEW m, NEW d, CivilDate(y, m, d), NEW u, u = NextDay(y, m, d)
  PROVE  DaysFromCivil(u[1], u[2], u[3]) = DaysFromCivil(y, m, d) + 1
<1>r. y \in Nat \ {0} /\ y \in Nat /\ m \in 1 .. 12 /\ d \in 1 .. MonthLength(y, m)
  BY SMT DEF CivilDate, FourDigitYears
<1>1. /\ m \in {1, 3, 5, 7, 8, 10, 12} => MonthLength(y, m) = 31
      /\ m = 2 => MonthLength(y, m) = IF Leap(y) THEN 29 ELSE 28
      /\ m \notin {2, 12} => MonthStart(m) + MonthLength(y, m) = MonthStart(m + 1)
      /\ MonthStart(m) \in Int /\ MonthLength(y, m) \in Nat
  BY <1>r, MonthLengths, SMT
<1>2. /\ d \in Nat /\ d <= MonthLength(y, m)
      /\ y \in Nat \ {0} /\ y \in Nat /\ m \in 1 .. 12
  BY <1>r, <1>1, SMT
<1>3. \A z \in Nat : YearStart(z) \in Int
  BY YearLength, SMT
<1>4. MarchYear(y, m) \in Nat
  BY <1>2, SMT DEF MarchYear
<1>5. /\ d < MonthLength(y, m) => u = <<y, m, d + 1>>
      /\ d = MonthLength(y, m) /\ m < 12 => u = <<y, m + 1, 1>>
      /\ d = MonthLength(y, m) /\ m = 12 => u = <<y + 1, 1, 1>>
  BY <1>1, <1>2, SMT DEF NextDay
<1>6. DaysFromCivil(y, m, d) = YearStart(MarchYear(y, m)) + MonthStart(m) + d - 1 - 719468
  BY <1>2, Civil, SMT
<1>7. CASE d < MonthLength(y, m)
  <2>1. u = <<y, m, d + 1>>
    BY <1>2, <1>5, <1>7, SMT
  <2>2. DaysFromCivil(y, m, d + 1) =
          YearStart(MarchYear(y, m)) + MonthStart(m) + (d + 1) - 1 - 719468
    BY <1>2, Civil, SMT
  <2> QED BY <1>1, <1>2, <1>3, <1>4, <1>6, <2>1, <2>2, SMT
<1>8. CASE d = MonthLength(y, m) /\ m \notin {2, 12}
  <2>1. u = <<y, m + 1, 1>> /\ m + 1 \in 1 .. 12
    BY <1>2, <1>5, <1>8, SMT
  <2>2. DaysFromCivil(y, m + 1, 1) =
          YearStart(MarchYear(y, m + 1)) + MonthStart(m + 1) + 1 - 1 - 719468
    BY <1>2, <2>1, Civil, SMT
  <2>3. MarchYear(y, m + 1) = MarchYear(y, m)
    BY <1>2, <1>8, SMT DEF MarchYear
  <2> QED BY <1>1, <1>2, <1>3, <1>4, <1>6, <1>8, <2>1, <2>2, <2>3, SMT
<1>9. CASE d = MonthLength(y, m) /\ m = 2
  <2>1. u = <<y, 3, 1>>
    BY <1>2, <1>5, <1>9, SMT
  <2>2. DaysFromCivil(y, 3, 1) = YearStart(y) + 0 + 1 - 1 - 719468
    BY <1>2, Civil, Months, SMT DEF MarchYear
  <2>3. DaysFromCivil(y, m, d) = YearStart(y - 1) + 337 + d - 1 - 719468
    BY <1>2, <1>6, <1>9, Months, SMT DEF MarchYear
  <2>4. /\ YearStart(y) = YearStart(y - 1) + (IF Leap(y) THEN 366 ELSE 365)
        /\ YearStart(y - 1) \in Int
    <3>1. y - 1 \in Nat /\ (y - 1) + 1 = y
      BY <1>2, SMT
    <3>2. /\ YearStart((y - 1) + 1) =
               YearStart(y - 1) + (IF Leap((y - 1) + 1) THEN 366 ELSE 365)
          /\ YearStart(y - 1) \in Int
      BY <1>2, <3>1, YearLength, SMT
    <3> QED BY <1>2, <3>1, <3>2, SMT
  <2> QED BY <1>2, <1>1, <1>9, <2>1, <2>2, <2>3, <2>4, SMT
<1>10. CASE d = MonthLength(y, m) /\ m = 12
  <2>1. u = <<y + 1, 1, 1>>
    BY <1>2, <1>5, <1>10, SMT
  <2>2. DaysFromCivil(y + 1, 1, 1) = YearStart(y) + 306 + 1 - 1 - 719468
    <3>1. (y + 1) - 1 = y /\ y + 1 \in Nat \ {0}
      BY <1>2, SMT
    <3> QED BY <1>2, <3>1, Civil, Months, SMT DEF MarchYear
  <2>3. DaysFromCivil(y, m, d) = YearStart(y) + 275 + 31 - 1 - 719468
    BY <1>2, <1>1, <1>6, <1>10, Months, SMT DEF MarchYear
  <2> QED BY <1>2, <1>3, <2>1, <2>2, <2>3, SMT
<1> QED BY <1>1, <1>2, <1>7, <1>8, <1>9, <1>10, SMT

\* The first of March, in days since year 0, of years whose days an i64 of
\* nanoseconds holds; the bounds are a few days wide.
YearIsAbout(z) ==
  /\ YearStart(z) \in Int /\ 612493 <= YearStart(z) /\ YearStart(z) <= 825815
  /\ z >= 1678 => 612858 <= YearStart(z)

LEMMA YearBounds == ASSUME NEW z \in 1677 .. 2261 PROVE YearIsAbout(z)
<1>1. CASE z < 2000
  <2>1. ASSUME NEW r \in 77 .. 399, z = 400 * 4 + r
        PROVE  YearIsAbout(z)
    <3>1. z \div 400 = 4 /\ z - 4 * 400 = r
      <4>1. z \in Nat /\ 4 \in Nat /\ r \in 0 .. 399
        BY <2>1, SMT
      <4> QED BY <2>1, <4>1, SameEra, SMT
    <3>2. YearStart(z) = 4 * 146097 + r * 365 + r \div 4 - r \div 100
      BY <3>1, SMT DEF YearStart
    <3> DEFINE a == r \div 4
               b == r \div 100
    <3>3. YearStart(z) = 4 * 146097 + r * 365 + a - b
      BY <3>2, SMT
    <3>4. a \in Nat /\ b \in Nat /\ 4 * a <= r /\ b <= a
      BY SMT
    <3> HIDE DEF a, b
    <3> QED BY <2>1, <3>3, <3>4, SMT DEF YearIsAbout
  <2>2. z - 1600 \in 77 .. 399 /\ z = 400 * 4 + (z - 1600)
    BY <1>1, SMT
  <2> QED BY <2>1, <2>2, SMT
<1>2. CASE z >= 2000
  <2>1. ASSUME NEW r \in 0 .. 261, z = 400 * 5 + r
        PROVE  YearIsAbout(z)
    <3>1. z \div 400 = 5 /\ z - 5 * 400 = r
      <4>1. z \in Nat /\ 5 \in Nat /\ r \in 0 .. 399
        BY <2>1, SMT
      <4> QED BY <2>1, <4>1, SameEra, SMT
    <3>2. YearStart(z) = 5 * 146097 + r * 365 + r \div 4 - r \div 100
      BY <3>1, SMT DEF YearStart
    <3> DEFINE a == r \div 4
               b == r \div 100
    <3>3. YearStart(z) = 5 * 146097 + r * 365 + a - b
      BY <3>2, SMT
    <3>4. a \in Nat /\ b \in Nat /\ 4 * a <= r /\ b <= a
      BY SMT
    <3> HIDE DEF a, b
    <3> QED BY <2>1, <3>3, <3>4, SMT DEF YearIsAbout
  <2>2. z - 2000 \in 0 .. 261 /\ z = 400 * 5 + (z - 2000)
    BY <1>2, SMT
  <2> QED BY <2>1, <2>2, SMT
<1> QED BY <1>1, <1>2, SMT

\* The first of March in the year the count begins with and in those next to the
\* years above.
LEMMA YearsAt == YearStart(1676) = 612147 /\ YearStart(1969) = 719162 /\ YearStart(2262) = 826178
<1>1. YearStart(1676) = 4 * 146097 + 76 * 365 + 76 \div 4 - 76 \div 100
  <2>1. 1676 = 400 * 4 + 76 /\ 4 \in Nat /\ 76 \in 0 .. 399
    BY SMT
  <2> QED BY <2>1, YearStartAt, SMT
<1>2. YearStart(1969) = 4 * 146097 + 369 * 365 + 369 \div 4 - 369 \div 100
  <2>1. 1969 = 400 * 4 + 369 /\ 4 \in Nat /\ 369 \in 0 .. 399
    BY SMT
  <2> QED BY <2>1, YearStartAt, SMT
<1>3. YearStart(2262) = 5 * 146097 + 262 * 365 + 262 \div 4 - 262 \div 100
  <2>1. 2262 = 400 * 5 + 262 /\ 5 \in Nat /\ 262 \in 0 .. 399
    BY SMT
  <2> QED BY <2>1, YearStartAt, SMT
<1> QED BY <1>1, <1>2, <1>3, SMT

LEMMA TimesAre ==
  ASSUME NEW n \in Int
  PROVE  n \in Times <=> -MaxMinutes <= n /\ n <= MaxMinutes
<1>1. MaxMinutes \in Int
  BY SMT DEF MaxMinutes
<1> QED BY <1>1, SMT DEF Times

LEMMA OpenTimeOf ==
  ASSUME NEW y, NEW m, NEW d, NEW n \in Int, DaysFromCivil(y, m, d) = n
  PROVE  DayOpenTime(y, m, d) = Time(n * 1440 - 480)
<1>1. DayOpenTime(y, m, d) = Time(n * 1440 + 0 * 60 + 0 - 8 * 60)
  BY DEF DayOpenTime, MinuteOpenTime
<1>2. n * 1440 + 0 * 60 + 0 - 8 * 60 = n * 1440 - 480
  BY SMT
<1> QED BY <1>1, <1>2

\* A day of the years in question, or the first day after them.
InRange(y, m, d) ==
  /\ y \in 1678 .. 2262 /\ m \in 1 .. 12 /\ d \in 1 .. 31
  /\ y = 2262 => m = 1 /\ d = 1

OpensAtMidnight(y, m, d) ==
  /\ DayOpenTime(y, m, d) \in Times
  /\ DayOpenTime(y, m, d) = DaysFromCivil(y, m, d) * 1440 - 480
  /\ DaysFromCivil(y, m, d) \in Int

\* Such a day opens at a time an i64 holds: it lies less than 106750 days before
\* or after 1970.
LEMMA NoOverflow ==
  ASSUME NEW y, NEW m, NEW d, InRange(y, m, d)
  PROVE  OpensAtMidnight(y, m, d)
<1>r. /\ y \in 1678 .. 2262 /\ m \in 1 .. 12 /\ d \in 1 .. 31
      /\ y = 2262 => m = 1 /\ d = 1
  BY SMT DEF InRange
<1>1. DaysFromCivil(y, m, d) = YearStart(MarchYear(y, m)) + MonthStart(m) + d - 1 - 719468
  <2>1. y \in Nat \ {0} /\ d \in Nat
    BY <1>r, SMT
  <2> QED BY <1>r, <2>1, Civil, SMT
<1>2. MarchYear(y, m) \in 1677 .. 2261 /\ (m > 2 => MarchYear(y, m) >= 1678)
  BY <1>r, SMT DEF MarchYear
<1>3. /\ m <= 2 => MonthStart(m) \in 306 .. 337
      /\ m > 2 => MonthStart(m) \in 0 .. 275
  BY <1>r, Months, SMT
<1>4. YearIsAbout(MarchYear(y, m))
  BY <1>2, YearBounds, SMT
<1> DEFINE n == DaysFromCivil(y, m, d)
           s == YearStart(MarchYear(y, m))
<1>5. /\ s \in Int /\ 612493 <= s /\ s <= 825815
      /\ m > 2 => 612858 <= s
      /\ n = s + MonthStart(m) + d - 1 - 719468
  BY <1>1, <1>2, <1>4, SMT DEF YearIsAbout
<1> HIDE DEF n, s
<1>6. n \in Int /\ -106750 <= n /\ n <= 106750
  <2>1. CASE m <= 2
    BY <1>r, <1>3, <1>5, <2>1, SMT
  <2>2. CASE m > 2
    BY <1>r, <1>3, <1>5, <2>2, SMT
  <2> QED BY <1>r, <2>1, <2>2, SMT
<1>7. n * 1440 - 480 \in Times
  <2>1. n * 1440 - 480 \in Int /\ -MaxMinutes <= n * 1440 - 480 /\ n * 1440 - 480 <= MaxMinutes
    BY <1>6, SMT DEF MaxMinutes
  <2> QED BY <2>1, TimesAre, SMT
<1>8. DayOpenTime(y, m, d) = Time(n * 1440 - 480)
  BY <1>6, OpenTimeOf, SMT DEF n
<1> QED BY <1>6, <1>7, <1>8, SMT DEF n, Time, OpensAtMidnight

LEMMA Overflows ==
  ASSUME NEW y \in Nat \ {0}, NEW m \in 1 .. 12, NEW d \in 1 .. 31, NEW n \in Int,
         n = -107015 \/ n = 107015,
         YearStart(MarchYear(y, m)) + MonthStart(m) + d - 1 - 719468 = n
  PROVE  DayOpenTime(y, m, d) = Overflowed
<1>1. DaysFromCivil(y, m, d) = n
  <2>1. d \in Nat
    BY SMT
  <2> QED BY <2>1, Civil, SMT
<1>2. n * 1440 - 480 \notin Times
  <2>1. n * 1440 - 480 \in Int /\ ~(-MaxMinutes <= n * 1440 - 480 /\ n * 1440 - 480 <= MaxMinutes)
    BY SMT DEF MaxMinutes
  <2> QED BY <2>1, TimesAre, SMT
<1>3. DayOpenTime(y, m, d) = Time(n * 1440 - 480)
  BY <1>1, OpenTimeOf, SMT
<1> QED BY <1>2, <1>3, SMT DEF Time

\* The years of the property are some of these, the count starts right, and it
\* overflows on either side.
LEMMA CalendarFollowed == OpenTimesFollowCalendar
<1>1. DayOpenTime(1970, 1, 1) = -480
  <2>1. 1970 \in Nat \ {0} /\ 1970 \in 1678 .. 2262 /\ 1 \in 1 .. 12 /\ 1 \in 1 .. 31 /\ 1 \in Nat
    BY SMT
  <2>2. DaysFromCivil(1970, 1, 1) =
          YearStart(MarchYear(1970, 1)) + MonthStart(1) + 1 - 1 - 719468
    BY <2>1, Civil, SMT
  <2>3. MarchYear(1970, 1) = 1969
    BY SMT DEF MarchYear
  <2>4. YearStart(MarchYear(1970, 1)) = 719162
    BY <2>3, YearsAt, SMT
  <2>5. DaysFromCivil(1970, 1, 1) = 0
    BY <2>2, <2>4, Months, SMT
  <2>6. DayOpenTime(1970, 1, 1) = DaysFromCivil(1970, 1, 1) * 1440 - 480
    <3>1. InRange(1970, 1, 1)
      BY <2>1, SMT DEF InRange
    <3> QED BY <3>1, NoOverflow DEF OpensAtMidnight
  <2> QED BY <2>5, <2>6, SMT
<1>2. ASSUME NEW t \in Date PROVE OneDayLater(t, NextDay(t[1], t[2], t[3]))
  <2>1. /\ t[1] \in 1678 .. 2261 /\ t[2] \in 1 .. 12 /\ t[3] \in 1 .. 31
        /\ t[3] <= MonthLength(t[1], t[2])
    BY SMT DEF Date, Years
  <2>2. /\ t[1] \in Nat /\ t[1] \in 1678 .. 2262
        /\ (t[1] = 2262 => t[2] = 1 /\ t[3] = 1)
    BY <2>1, SMT
  <2>3. MonthLength(t[1], t[2]) \in 28 .. 31
    BY <2>1, <2>2, MonthLengths, SMT
  <2>4. t[3] \in 1 .. MonthLength(t[1], t[2])
    BY <2>1, <2>3, SMT
  <2>5. PICK u : u = NextDay(t[1], t[2], t[3])
    BY SMT
  <2>6. DaysFromCivil(u[1], u[2], u[3]) = DaysFromCivil(t[1], t[2], t[3]) + 1
    <3>1. CivilDate(t[1], t[2], t[3])
      <4>1. t[1] \in FourDigitYears
        BY <2>1, SMT DEF FourDigitYears
      <4>2. t[2] \in 1 .. 12
        BY <2>1
      <4> QED BY <2>4, <4>1, <4>2 DEF CivilDate
    <3> QED BY <2>5, <3>1, NextDayCounts
  <2>7. /\ u[1] \in 1678 .. 2262 /\ u[2] \in 1 .. 12 /\ u[3] \in 1 .. 31
        /\ u[1] = 2262 => u[2] = 1 /\ u[3] = 1
    BY <2>1, <2>3, <2>5, SMT DEF NextDay
  <2>8. OpensAtMidnight(t[1], t[2], t[3])
    <3>1. InRange(t[1], t[2], t[3])
      BY <2>1, <2>2, SMT DEF InRange
    <3> QED BY <3>1, NoOverflow
  <2>9. OpensAtMidnight(u[1], u[2], u[3])
    <3>1. InRange(u[1], u[2], u[3])
      BY <2>7, SMT DEF InRange
    <3> QED BY <3>1, NoOverflow
  <2>10. DayOpenTime(u[1], u[2], u[3]) = DayOpenTime(t[1], t[2], t[3]) + 1440
    BY <2>6, <2>8, <2>9, SMT DEF OpensAtMidnight
  <2> QED BY <2>5, <2>8, <2>9, <2>10, SMT DEF OneDayLater, OpensAtMidnight
<1>3. DayOpenTime(1677, 1, 1) = Overflowed
  <2>1. MarchYear(1677, 1) = 1676
    BY SMT DEF MarchYear
  <2>2. YearStart(MarchYear(1677, 1)) = 612147
    BY <2>1, YearsAt, SMT
  <2>3. /\ YearStart(MarchYear(1677, 1)) + MonthStart(1) + 1 - 1 - 719468 = -107015
        /\ 1677 \in Nat \ {0} /\ 1 \in 1 .. 12 /\ 1 \in 1 .. 31
    BY <2>2, Months, SMT
  <2> QED BY <2>3, Overflows, SMT
<1>4. DayOpenTime(2262, 12, 31) = Overflowed
  <2>1. MarchYear(2262, 12) = 2262
    BY SMT DEF MarchYear
  <2>2. YearStart(MarchYear(2262, 12)) = 826178
    BY <2>1, YearsAt, SMT
  <2>3. /\ YearStart(MarchYear(2262, 12)) + MonthStart(12) + 31 - 1 - 719468 = 107015
        /\ 2262 \in Nat \ {0} /\ 12 \in 1 .. 12 /\ 31 \in 1 .. 31
    BY <2>2, Months, SMT
  <2> QED BY <2>3, Overflows, SMT
<1> QED BY <1>1, <1>2, <1>3, <1>4, SMT DEF OpenTimesFollowCalendar

\* Opening times count the days of the calendar, in whatever state.
THEOREM CalendarOfOpenTimes == Spec => []OpenTimesExact
<1>1. OpenTimesExact
  BY CalendarFollowed, SMT DEF OpenTimesExact
<1> QED BY <1>1, PTL
=============================================================================
