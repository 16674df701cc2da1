------------------------- MODULE FeatureHistoryProofs -------------------------
(***************************************************************************)
(* For any number of rows, any times, entities and windows: the deques of  *)
(* the online pass count exactly the entity's earlier rows of the window.  *)
(* The heart is DequeIsWindow: a row that a deque has lost is too old for  *)
(* every later row because the rows are in chronological order.  The prior *)
(* mean is that of the earlier rows; its sums are a fold, in an order that *)
(* CHOOSE picks, and SumAdds says that the order does not matter.          *)
(***************************************************************************)
EXTENDS FeatureHistory, FiniteSetTheorems, FunctionTheorems, TLAPS

USE HistoryAssumption DEF Rows

\* Whole seconds keep the order of ticks.
LEMMA SecondsInOrder ==
  ASSUME NEW a \in Nat, NEW b \in Nat, a <= b
  PROVE  /\ a \div TicksPerSecond \in Nat
         /\ a \div TicksPerSecond <= b \div TicksPerSecond
<1> DEFINE T == TicksPerSecond
           x == a \div T
           y == b \div T
<1>1. T \in Nat /\ T > 0
  OBVIOUS
<1>2. x \in Int /\ x * T <= a /\ a < x * T + T
  BY <1>1
<1>3. y \in Int /\ y * T <= b /\ b < y * T + T
  BY <1>1
<1> HIDE DEF x, y, T
<1>4. x >= 0
  <2>1. CASE x <= -1
    <3>1. x * T <= (-1) * T
      BY <2>1, <1>1, <1>2
    <3> QED
      BY <3>1, <1>1, <1>2
  <2> QED
    BY <2>1, <1>2
<1>5. x <= y
  <2>1. CASE y <= x - 1
    <3>1. y * T <= (x - 1) * T
      BY <2>1, <1>1, <1>2, <1>3
    <3>2. (x - 1) * T = x * T - T
      BY <1>1, <1>2
    <3> QED
      BY <3>1, <3>2, <1>1, <1>2, <1>3
  <2> QED
    BY <2>1, <1>2, <1>3
<1> QED
  BY <1>2, <1>4, <1>5 DEF x, y, T

\* In a chronological frame later rows have later seconds.
LEMMA RowsInOrder ==
  ASSUME HistoryInv, pc = "scan", NEW p \in Rows, NEW q \in Rows, p <= q
  PROVE  Second(p) \in Nat /\ Second(q) \in Nat /\ Second(p) <= Second(q)
<1>1. frame[p].time \in Nat /\ frame[q].time \in Nat /\ frame[p].time <= frame[q].time
  BY DEF HistoryInv, TypeOK, RowType
<1>2. frame[q].time \div TicksPerSecond \in Nat
  BY <1>1, SecondsInOrder
<1> QED
  BY <1>1, <1>2, SecondsInOrder DEF Second

\* What is left of the deque is the window of the row at hand.
LEMMA DequeIsWindow ==
  ASSUME HistoryInv, pc = "scan", next <= N, NEW w \in Windows
  PROVE  Popped(queue[w][frame[next].entity], Second(next) - w) = InWindow(next, w)
<1> DEFINE e == frame[next].entity
           q == queue[w][e]
<1>1. next \in Rows /\ w \in Nat /\ e \in Entities
  BY DEF HistoryInv, TypeOK, RowType
<1>2. q \subseteq 1 .. next - 1
  BY <1>1 DEF HistoryInv, TypeOK
<1>3. \A r \in 1 .. next - 1 : /\ r \in Rows
                               /\ Second(r) \in Nat
                               /\ Second(next) \in Nat
                               /\ Second(r) <= Second(next)
  BY <1>1, RowsInOrder
<1>4. ASSUME NEW r \in Popped(q, Second(next) - w)
      PROVE  r \in InWindow(next, w)
  <2>1. r \in q /\ \E l \in q : l <= r /\ Second(l) >= Second(next) - w
    BY <1>4 DEF Popped
  <2>2. PICK l \in q : l <= r /\ Second(l) >= Second(next) - w
    BY <2>1
  <2>3. Second(l) <= Second(r) /\ Second(l) \in Nat /\ Second(r) \in Nat
    BY <2>1, <2>2, <1>2, <1>3, RowsInOrder
  <2>4. Second(r) >= Second(next) - w
    BY <2>1, <2>2, <2>3, <1>1, <1>2, <1>3
  <2>5. frame[r].entity = e
    BY <2>1, <1>1 DEF HistoryInv
  <2> QED
    BY <2>1, <2>4, <2>5, <1>2 DEF InWindow, Earlier
<1>5. ASSUME NEW r \in InWindow(next, w)
      PROVE  r \in Popped(q, Second(next) - w)
  <2>1. r \in 1 .. next - 1 /\ frame[r].entity = e /\ Second(r) >= Second(next) - w
    BY <1>5 DEF InWindow, Earlier
  <2>2. ASSUME r \notin q
        PROVE  FALSE
    <3>1. PICK p \in 1 .. next - 1 : Second(r) < Second(p) - w
      BY <2>1, <2>2 DEF HistoryInv
    <3> QED
      BY <3>1, <2>1, <1>1, <1>3
  <2> QED
    BY <2>1, <2>2, <1>1 DEF Popped
<1> QED
  BY <1>4, <1>5

LEMMA InWindowFinite ==
  ASSUME HistoryInv, NEW p \in Rows, NEW w \in Windows
  PROVE  Cardinality(InWindow(p, w)) \in Nat
<1>1. InWindow(p, w) \subseteq 1 .. p - 1
  BY DEF InWindow, Earlier
<1>2. IsFiniteSet(1 .. p - 1)
  BY FS_Interval
<1> QED
  BY <1>1, <1>2, FS_Subset, FS_CardinalityType

\* A frame that does not change has the same windows.
LEMMA WindowsKept ==
  ASSUME frame' = frame, NEW p, NEW w
  PROVE  Second(p)' = Second(p) /\ InWindow(p, w)' = InWindow(p, w)
BY DEF Second, InWindow, Earlier

LEMMA InitHistory == Init => HistoryInv /\ CountsAreExact
BY DEF Init, HistoryInv, TypeOK, CountsAreExact

LEMMA NextHistory == HistoryInv /\ CountsAreExact /\ [Next]_vars
                       => HistoryInv' /\ CountsAreExact'
<1> SUFFICES ASSUME HistoryInv, CountsAreExact, [Next]_vars
             PROVE  HistoryInv' /\ CountsAreExact'
  OBVIOUS
<1>1. CASE Reject
  BY <1>1 DEF Reject, pass, HistoryInv, TypeOK, CountsAreExact, InWindow, Earlier, Second
<1>2. CASE Sort
  <2>1. PICK order \in [Rows -> Rows] :
          /\ \A p, q \in Rows : p < q =>
               \/ frame[order[p]].time < frame[order[q]].time
               \/ frame[order[p]].time = frame[order[q]].time /\ order[p] < order[q]
          /\ frame' = [p \in Rows |-> frame[order[p]]]
    BY <1>2 DEF Sort
  <2>2. UNCHANGED pass /\ pc' = "scan" /\ next = 1
    BY <1>2 DEF Sort, HistoryInv
  <2>3. frame' \in [Rows -> RowType]
    BY <2>1 DEF HistoryInv, TypeOK
  <2>4. \A p, q \in Rows : p <= q => frame'[p].time <= frame'[q].time
    <3> SUFFICES ASSUME NEW p \in Rows, NEW q \in Rows, p <= q
                 PROVE  frame'[p].time <= frame'[q].time
      OBVIOUS
    <3>1. frame'[p].time \in Nat /\ frame'[q].time \in Nat
      BY <2>3 DEF RowType
    <3>2. frame'[p] = frame[order[p]] /\ frame'[q] = frame[order[q]]
      BY <2>1
    <3>3. CASE p = q
      BY <3>1, <3>3
    <3>4. CASE p < q
      <4>1. frame[order[p]].time < frame[order[q]].time
              \/ frame[order[p]].time = frame[order[q]].time
        BY <2>1, <3>4
      <4>2. frame'[p].time = frame[order[p]].time /\ frame'[q].time = frame[order[q]].time
        BY <3>2
      <4>3. frame'[p].time < frame'[q].time \/ frame'[p].time = frame'[q].time
        BY <4>1, <4>2
      <4> DEFINE a == frame'[p].time
                 b == frame'[q].time
      <4> HIDE DEF a, b
      <4>4. a \in Nat /\ b \in Nat /\ (a < b \/ a = b)
        BY <3>1, <4>3 DEF a, b
      <4>5. a <= b
        BY <4>4
      <4> QED
        BY <4>5 DEF a, b
    <3> QED
      BY <3>3, <3>4
  <2>5. TypeOK'
    BY <2>2, <2>3 DEF HistoryInv, TypeOK, pass
  <2>6. \A w \in Windows, e \in Entities : queue[w][e] = {}
    BY <2>2 DEF HistoryInv, TypeOK
  <2>7. HistoryInv'
    BY <2>2, <2>4, <2>5, <2>6 DEF HistoryInv, pass
  <2>8. CountsAreExact'
    BY <2>2 DEF CountsAreExact, pass
  <2> QED
    BY <2>7, <2>8
<1>3. CASE Row
  <2> DEFINE e == frame[next].entity
             kept == [w \in Windows |-> Popped(queue[w][e], Second(next) - w)]
  <2>1. /\ pc = "scan" /\ pc' = "scan" /\ next <= N /\ next' = next + 1
        /\ frame' = frame /\ next \in Rows /\ e \in Entities
        /\ count' = [count EXCEPT ![next] = [w \in Windows |-> Cardinality(kept[w])]]
        /\ queue' = [w \in Windows |-> [queue[w] EXCEPT ![e] = kept[w] \cup {next}]]
    BY <1>3 DEF Row, HistoryInv, TypeOK, RowType
  <2>2. \A w \in Windows : kept[w] = InWindow(next, w)
    BY <2>1, DequeIsWindow
  <2>3. \A w \in Windows : kept[w] \subseteq queue[w][e]
    BY DEF Popped
  <2> HIDE DEF kept, e
  <2>4. queue' \in [Windows -> [Entities -> SUBSET (1 .. next' - 1)]]
    <3>1. \A w \in Windows : /\ queue[w] \in [Entities -> SUBSET (1 .. next)]
                             /\ kept[w] \cup {next} \in SUBSET (1 .. next)
      BY <2>1, <2>3 DEF HistoryInv, TypeOK
    <3>2. next' - 1 = next
      BY <2>1
    <3> QED
      BY <2>1, <3>1, <3>2
  <2>5. count' \in [Rows -> [Windows -> Nat]]
    <3>1. [w \in Windows |-> Cardinality(kept[w])] \in [Windows -> Nat]
      BY <2>1, <2>2, InWindowFinite
    <3> QED
      BY <2>1, <3>1 DEF HistoryInv, TypeOK
  <2>6. TypeOK'
    BY <2>1, <2>4, <2>5 DEF HistoryInv, TypeOK
  <2>7. \A w \in Windows : \A f \in Entities : \A q \in queue'[w][f] : frame[q].entity = f
    <3> SUFFICES ASSUME NEW w \in Windows, NEW f \in Entities, NEW q \in queue'[w][f]
                 PROVE  frame[q].entity = f
      OBVIOUS
    <3>1. CASE f = e
      <4>1. q \in queue[w][e] \cup {next}
        BY <3>1, <2>1, <2>3 DEF HistoryInv, TypeOK
      <4> QED
        BY <3>1, <4>1, <2>1 DEF HistoryInv, e
    <3>2. CASE f # e
      BY <3>2, <2>1 DEF HistoryInv, TypeOK
    <3> QED
      BY <3>1, <3>2
  <2>8. \A w \in Windows : \A q \in 1 .. next' - 1 :
          q \notin queue'[w][frame[q].entity] =>
            \E p \in 1 .. next' - 1 : Second(q) < Second(p) - w
    <3> SUFFICES ASSUME NEW w \in Windows, NEW q \in 1 .. next,
                        q \notin queue'[w][frame[q].entity]
                 PROVE  \E p \in 1 .. next : Second(q) < Second(p) - w
      BY <2>1
    <3>1. frame[q].entity \in Entities /\ q \in Rows
      BY <2>1 DEF HistoryInv, TypeOK, RowType
    <3>2. CASE frame[q].entity = e
      <4>1. queue'[w][e] = kept[w] \cup {next}
        BY <2>1 DEF HistoryInv, TypeOK
      <4>2. q # next /\ q \in 1 .. next - 1 /\ q \notin InWindow(next, w)
        BY <4>1, <3>2, <2>1, <2>2
      <4>3. ~(Second(q) >= Second(next) - w)
        BY <4>2, <3>2 DEF InWindow, Earlier, e
      <4>4. Second(q) \in Nat /\ Second(next) \in Nat /\ w \in Nat
        BY <2>1, <3>1, <4>2, RowsInOrder
      <4> QED
        BY <4>3, <4>4, <2>1
    <3>3. CASE frame[q].entity # e
      <4>1. q # next
        BY <3>3 DEF e
      <4>2. queue'[w][frame[q].entity] = queue[w][frame[q].entity]
        BY <3>1, <3>3, <2>1 DEF HistoryInv, TypeOK
      <4>3. q \in 1 .. next - 1
        BY <4>1, <2>1
      <4>4. \E p \in 1 .. next - 1 : Second(q) < Second(p) - w
        BY <4>2, <4>3 DEF HistoryInv
      <4> QED
        BY <4>4, <2>1
    <3> QED
      BY <3>2, <3>3
  <2>9. HistoryInv'
    <3>1. \A p : Second(p)' = Second(p)
      BY <2>1 DEF Second
    <3>2. \A p, q \in Rows : p <= q => frame'[p].time <= frame'[q].time
      BY <2>1 DEF HistoryInv
    <3> QED
      BY <2>1, <2>6, <2>7, <2>8, <3>1, <3>2 DEF HistoryInv
  <2>10. CountsAreExact'
    <3> SUFFICES ASSUME NEW p \in 1 .. next' - 1, NEW w \in Windows
                 PROVE  count'[p][w] = Cardinality(InWindow(p, w)')
      BY DEF CountsAreExact
    <3>1. InWindow(p, w)' = InWindow(p, w)
      BY <2>1, WindowsKept
    <3>2. CASE p = next
      BY <3>1, <3>2, <2>1, <2>2 DEF HistoryInv, TypeOK
    <3>3. CASE p # next
      <4>1. p \in 1 .. next - 1 /\ p \in Rows
        BY <3>3, <2>1
      <4>2. count'[p] = count[p]
        BY <4>1, <3>3, <2>1 DEF HistoryInv, TypeOK
      <4> QED
        BY <3>1, <4>1, <4>2 DEF CountsAreExact
    <3> QED
      BY <3>2, <3>3
  <2> QED
    BY <2>9, <2>10
<1>4. CASE Finish
  BY <1>4 DEF Finish, pass, HistoryInv, TypeOK, CountsAreExact, InWindow, Earlier, Second
<1>5. CASE UNCHANGED vars
  BY <1>5 DEF vars, pass, HistoryInv, TypeOK, CountsAreExact, InWindow, Earlier, Second
<1> QED
  BY <1>1, <1>2, <1>3, <1>4, <1>5 DEF Next

\* The inductive invariant of the online pass.
THEOREM HistoryInvariant == Spec => []HistoryInv
<1>1. Spec => [](HistoryInv /\ CountsAreExact)
  BY InitHistory, NextHistory, PTL DEF Spec
<1> QED
  BY <1>1, PTL

\* The windowed counts of prepare_leakage_safe_frame are those of the rows
\* before each row, for a history of any length.
THEOREM ExactCounts == Spec => []CountsAreExact
<1>1. Spec => [](HistoryInv /\ CountsAreExact)
  BY InitHistory, NextHistory, PTL DEF Spec
<1> QED
  BY <1>1, PTL

-----------------------------------------------------------------------------
(* Whole seconds and ticks.                                                *)

LEMMA TicksOfSeconds ==
  ASSUME NEW a \in Nat, NEW b \in Nat, NEW w \in Nat
  PROVE  /\ w * TicksPerSecond \in Nat /\ (w + 1) * TicksPerSecond - 1 \in Int
         /\ a >= b - w * TicksPerSecond => a \div TicksPerSecond >= b \div TicksPerSecond - w
         /\ a \div TicksPerSecond >= b \div TicksPerSecond - w
              => a >= b - ((w + 1) * TicksPerSecond - 1)
<1> DEFINE T == TicksPerSecond
           x == a \div T
           y == b \div T
<1>1. T \in Nat /\ T > 0
  OBVIOUS
<1>2. x \in Int /\ x * T <= a /\ a < x * T + T
  BY <1>1
<1>3. y \in Int /\ y * T <= b /\ b < y * T + T
  BY <1>1
<1> HIDE DEF x, y, T
<1>4. w * T \in Nat /\ (w + 1) * T = w * T + T /\ (y - w) * T = y * T - w * T
  BY <1>1, <1>3
<1>5. a >= b - w * T => x >= y - w
  <2> SUFFICES ASSUME a >= b - w * T, x + 1 <= y - w
               PROVE  FALSE
    BY <1>2, <1>3
  <2>1. (x + 1) * T <= (y - w) * T
    BY <1>1, <1>2, <1>3
  <2>2. (x + 1) * T = x * T + T
    BY <1>1, <1>2
  <2> QED
    BY <2>1, <2>2, <1>1, <1>2, <1>3, <1>4
<1>6. x >= y - w => a >= b - ((w + 1) * T - 1)
  <2> SUFFICES ASSUME x >= y - w
               PROVE  a >= b - ((w + 1) * T - 1)
    OBVIOUS
  <2>1. x * T >= (y - w) * T
    BY <1>1, <1>2, <1>3
  <2> QED
    BY <2>1, <1>1, <1>2, <1>3, <1>4
<1> QED
  BY <1>1, <1>4, <1>5, <1>6 DEF x, y, T

LEMMA OthersFinite ==
  ASSUME NEW p, NEW ticks, NEW tied
  PROVE  IsFiniteSet(Others(p, ticks, tied))
<1>1. Others(p, ticks, tied) \in SUBSET (1 .. N)
  BY DEF Others
<1>2. IsFiniteSet(1 .. N)
  BY FS_Interval
<1> QED
  BY <1>1, <1>2, FS_Subset

\* Of a row that was passed, the frame is in order.
LEMMA WindowBetween ==
  ASSUME HistoryInv, NEW p \in 1 .. next - 1, NEW w \in Windows
  PROVE  /\ Others(p, w * TicksPerSecond, FALSE) \subseteq InWindow(p, w)
         /\ InWindow(p, w) \subseteq Others(p, (w + 1) * TicksPerSecond - 1, TRUE)
<1>1. p \in Rows /\ w \in Nat /\ next \in 1 .. N + 1 /\ next # 1
  BY DEF HistoryInv, TypeOK
<1>2. \A q, r \in Rows : q <= r => frame[q].time <= frame[r].time
  BY <1>1 DEF HistoryInv, TypeOK
<1>3. \A q \in Rows : frame[q].time \in Nat
  BY DEF HistoryInv, TypeOK, RowType
<1>4. ASSUME NEW q \in Others(p, w * TicksPerSecond, FALSE)
      PROVE  q \in InWindow(p, w)
  <2>1. /\ q \in Rows /\ frame[q].entity = frame[p].entity
        /\ frame[q].time >= frame[p].time - w * TicksPerSecond /\ frame[q].time < frame[p].time
    BY <1>4 DEF Others
  <2>2. ~(p <= q)
    BY <2>1, <1>1, <1>2, <1>3
  <2>3. q \in 1 .. p - 1
    BY <2>1, <2>2, <1>1
  <2>4. Second(q) >= Second(p) - w
    BY <2>1, <1>1, <1>3, TicksOfSeconds DEF Second
  <2> QED
    BY <2>1, <2>3, <2>4 DEF InWindow, Earlier
<1>5. ASSUME NEW q \in InWindow(p, w)
      PROVE  q \in Others(p, (w + 1) * TicksPerSecond - 1, TRUE)
  <2>1. q \in 1 .. p - 1 /\ frame[q].entity = frame[p].entity /\ Second(q) >= Second(p) - w
    BY <1>5 DEF InWindow, Earlier
  <2>2. q \in Rows /\ q # p /\ q <= p
    BY <2>1, <1>1
  <2>3. frame[q].time <= frame[p].time
    BY <2>2, <1>1, <1>2
  <2>4. frame[q].time < frame[p].time \/ frame[q].time = frame[p].time
    BY <2>2, <2>3, <1>1, <1>3
  <2>5. frame[q].time >= frame[p].time - ((w + 1) * TicksPerSecond - 1)
    BY <2>1, <2>2, <1>1, <1>3, TicksOfSeconds DEF Second
  <2> QED
    BY <2>1, <2>2, <2>4, <2>5 DEF Others
<1> QED
  BY <1>4, <1>5

\* For rows of any number and times of any resolution: a count misses no row of
\* its window and has none from the future or a second too old.
THEOREM HonestWindows == Spec => []WindowsAreHonest
<1>1. HistoryInv /\ CountsAreExact => WindowsAreHonest
  <2> SUFFICES ASSUME HistoryInv, CountsAreExact, NEW p \in 1 .. next - 1, NEW w \in Windows
               PROVE  /\ count[p][w] >= Cardinality(Others(p, w * TicksPerSecond, FALSE))
                      /\ count[p][w] <= Cardinality(Others(p, (w + 1) * TicksPerSecond - 1, TRUE))
    BY DEF WindowsAreHonest
  <2> DEFINE few  == Others(p, w * TicksPerSecond, FALSE)
             many == Others(p, (w + 1) * TicksPerSecond - 1, TRUE)
             mid  == InWindow(p, w)
  <2>1. few \subseteq mid /\ mid \subseteq many /\ IsFiniteSet(many)
    BY WindowBetween, OthersFinite
  <2>2. count[p][w] = Cardinality(mid)
    BY DEF CountsAreExact
  <2> HIDE DEF few, mid, many
  <2>3. IsFiniteSet(mid)
    BY <2>1, FS_Subset
  <2>4. Cardinality(few) <= Cardinality(mid) /\ Cardinality(mid) <= Cardinality(many)
    BY <2>1, <2>3, FS_Subset
  <2>5. IsFiniteSet(few)
    BY <2>1, <2>3, FS_Subset
  <2>6. Cardinality(few) \in Nat /\ Cardinality(mid) \in Nat /\ Cardinality(many) \in Nat
    BY <2>1, <2>3, <2>5, FS_CardinalityType
  <2> QED
    BY <2>2, <2>4, <2>6 DEF few, mid, many
<1> QED
  BY <1>1, HistoryInvariant, ExactCounts, PTL

-----------------------------------------------------------------------------
(* The mean.                                                               *)

\* A set of naturals that is not empty has a least element.
LEMMA LeastNatural ==
  ASSUME NEW T, T \subseteq Nat, T # {}
  PROVE  \E x \in T : \A y \in T : x <= y
<1> DEFINE R == OpToRel(<, Nat)
<1>1. IsWellFoundedOn(R, Nat)
  BY NatLessThanWellFounded
<1>2. \A x, y \in Nat : x < y => <<x, y>> \in R
  BY DEF OpToRel
<1> HIDE DEF R
<1>3. PICK x \in T : \A y \in T : <<y, x>> \notin R
  BY <1>1, WFMin
<1>4. ASSUME NEW y \in T
      PROVE  x <= y
  <2>1. x \in Nat /\ y \in Nat /\ <<y, x>> \notin R
    BY <1>3
  <2>2. ~(y < x)
    BY <2>1, <1>2
  <2> QED
    BY <2>1, <2>2
<1> QED
  BY <1>3, <1>4

\* Induction, said of a set of numbers.
LEMMA SetInduction ==
  ASSUME NEW T, 0 \in T, \A k \in Nat : k \in T => k + 1 \in T
  PROVE  Nat \subseteq T
<1> SUFFICES ASSUME Nat \ T # {}
             PROVE  FALSE
  OBVIOUS
<1>1. PICK x \in Nat \ T : \A y \in Nat \ T : x <= y
  BY LeastNatural
<1>2. x # 0
  BY <1>1
<1>3. x - 1 \in Nat /\ ~(x <= x - 1)
  BY <1>1, <1>2
<1>4. x - 1 \in T
  BY <1>1, <1>3
<1> QED
  BY <1>1, <1>3, <1>4

\* One element of a set that is not empty, and the sum over a set that starts
\* with it, as the recursive function g does it.
Pick(s) == CHOOSE x \in s : TRUE

SumStep(rows, g, s) == IF s = {} THEN 0 ELSE rows[Pick(s)].amount + g[s \ {Pick(s)}]

SumsUp(rows, g, S) == g = [s \in SUBSET S |-> SumStep(rows, g, s)]

\* AmountOf of a frame, whichever of two states it is the frame of.
SumOf(rows, S) ==
  LET iter[s \in SUBSET S] ==
        IF s = {} THEN 0
        ELSE LET x == CHOOSE x \in s : TRUE
             IN  rows[x].amount + iter[s \ {x}]
  IN  iter[S]

LEMMA AmountIsSum == ASSUME NEW S PROVE AmountOf(S) = SumOf(frame, S)
BY DEF AmountOf, SumOf, MapThenSumSet, MapThenFoldSet

LEMMA AmountIsSumThen == ASSUME NEW S PROVE AmountOf(S)' = SumOf(frame', S)
BY DEF AmountOf, SumOf, MapThenSumSet, MapThenFoldSet

LEMMA SumOfIsSome ==
  ASSUME NEW rows, NEW S, NEW g, SumsUp(rows, g, S)
  PROVE  \E h : SumsUp(rows, h, S) /\ SumOf(rows, S) = h[S]
BY DEF SumOf, SumsUp, SumStep, Pick

LEMMA Picked == ASSUME NEW s, s # {} PROVE Pick(s) \in s
BY DEF Pick

\* Of a finite set there is such a function: on the subsets of at most k
\* elements, for k from 0 to the size of the set.
LEMMA SumsUpExists ==
  ASSUME NEW rows, NEW S, IsFiniteSet(S)
  PROVE  \E g : SumsUp(rows, g, S)
<1> DEFINE Small(k) == {s \in SUBSET S : Cardinality(s) <= k}
           Good(k) == \E g : g = [s \in Small(k) |-> SumStep(rows, g, s)]
           T == {k \in Nat : Good(k)}
<1>1. \A s \in SUBSET S : IsFiniteSet(s) /\ Cardinality(s) \in Nat
  BY FS_Subset, FS_CardinalityType
<1>2. Good(0)
  <2> DEFINE g == [s \in Small(0) |-> 0]
  <2>1. \A s \in Small(0) : s = {}
    BY <1>1, FS_EmptySet
  <2>2. \A s \in Small(0) : SumStep(rows, g, s) = 0
    BY <2>1 DEF SumStep
  <2>3. g = [s \in Small(0) |-> SumStep(rows, g, s)]
    BY <2>2
  <2> QED
    BY <2>3
<1>3. ASSUME NEW k \in Nat, Good(k)
      PROVE  Good(k + 1)
  <2>1. PICK g : g = [s \in Small(k) |-> SumStep(rows, g, s)]
    BY <1>3
  <2> DEFINE h == [s \in Small(k + 1) |-> SumStep(rows, g, s)]
  <2>2. ASSUME NEW s \in Small(k + 1)
        PROVE  SumStep(rows, h, s) = SumStep(rows, g, s)
    <3>1. CASE s = {}
      BY <3>1 DEF SumStep
    <3>2. CASE s # {}
      <4> DEFINE r == s \ {Pick(s)}
      <4>1. Pick(s) \in s
        BY <3>2, Picked
      <4>2. Cardinality(r) = Cardinality(s) - 1 /\ r \in SUBSET S
        BY <4>1, <1>1, FS_RemoveElement
      <4>3. r \in Small(k) /\ r \in Small(k + 1)
        BY <4>2, <1>1
      <4>4. h[r] = SumStep(rows, g, r)
        BY <4>3
      <4>5. g[r] = SumStep(rows, g, r)
        BY <4>3, <2>1
      <4> HIDE DEF h, r
      <4>6. h[r] = g[r]
        BY <4>4, <4>5
      <4> QED
        BY <3>2, <4>6 DEF SumStep, r
    <3> QED
      BY <3>1, <3>2
  <2>3. h = [s \in Small(k + 1) |-> SumStep(rows, h, s)]
    BY <2>2
  <2> QED
    BY <2>3
<1>4. Nat \subseteq T
  <2>1. 0 \in T
    BY <1>2
  <2>2. \A k \in Nat : k \in T => k + 1 \in T
    <3> HIDE DEF Good
    <3> QED
      BY <1>3
  <2> HIDE DEF T
  <2> QED
    BY <2>1, <2>2, SetInduction
<1>5. Cardinality(S) \in Nat
  BY FS_CardinalityType
<1>6. Good(Cardinality(S))
  BY <1>4, <1>5
<1>7. Small(Cardinality(S)) = SUBSET S
  BY FS_Subset
<1> QED
  BY <1>6, <1>7 DEF SumsUp

\* Two of them agree wherever both are defined: a smallest set of two sums has
\* a smaller one.
LEMMA SumsUpUnique ==
  ASSUME NEW rows, NEW S, NEW g, SumsUp(rows, g, S),
         NEW R, NEW h, SumsUp(rows, h, R),
         NEW s \in SUBSET S, s \in SUBSET R, IsFiniteSet(s)
  PROVE  g[s] = h[s]
<1> SUFFICES ASSUME g[s] # h[s]
             PROVE  FALSE
  OBVIOUS
<1> DEFINE Bad == {r \in SUBSET s : g[r] # h[r]}
           Sizes == {n \in Nat : \E r \in Bad : Cardinality(r) = n}
<1>1. \A r \in SUBSET s : IsFiniteSet(r) /\ Cardinality(r) \in Nat
  BY FS_Subset, FS_CardinalityType
<1>2. Cardinality(s) \in Sizes
  BY <1>1
<1>3. PICK n \in Sizes : \A m \in Sizes : n <= m
  BY <1>2, LeastNatural
<1>4. PICK r \in Bad : Cardinality(r) = n
  BY <1>3
<1>5. g[r] = SumStep(rows, g, r) /\ h[r] = SumStep(rows, h, r)
  BY <1>4 DEF SumsUp
<1>6. r # {}
  BY <1>4, <1>5 DEF SumStep
<1> DEFINE t == r \ {Pick(r)}
<1>7. Pick(r) \in r
  BY <1>6, Picked
<1>8. t \in SUBSET s /\ Cardinality(t) = n - 1
  BY <1>1, <1>4, <1>7, FS_RemoveElement
<1>9. g[t] # h[t]
  BY <1>4, <1>5, <1>6 DEF SumStep
<1>10. Cardinality(t) \in Sizes
  BY <1>1, <1>8, <1>9
<1> HIDE DEF t, Sizes, Bad
<1>11. n \in Nat
  BY <1>3 DEF Sizes
<1> QED
  BY <1>3, <1>8, <1>10, <1>11

\* The sum over a set is one of its elements and the sum over the others.
LEMMA SumUnfolds ==
  ASSUME NEW rows, NEW S, IsFiniteSet(S)
  PROVE  SumOf(rows, S) = IF S = {} THEN 0
                          ELSE rows[Pick(S)].amount + SumOf(rows, S \ {Pick(S)})
<1>1. PICK g : SumsUp(rows, g, S) /\ SumOf(rows, S) = g[S]
  BY SumsUpExists, SumOfIsSome
<1> DEFINE R == S \ {Pick(S)}
<1>2. IsFiniteSet(R) /\ R \in SUBSET S
  BY FS_Subset
<1>3. PICK h : SumsUp(rows, h, R) /\ SumOf(rows, R) = h[R]
  BY <1>2, SumsUpExists, SumOfIsSome
<1>4. g[R] = h[R]
  BY <1>1, <1>2, <1>3, SumsUpUnique
<1>5. g[S] = SumStep(rows, g, S)
  BY <1>1 DEF SumsUp
<1> QED
  BY <1>1, <1>3, <1>4, <1>5 DEF SumStep

\* Any of its elements will do, whichever the recursion takes first.
LEMMA SumAdds ==
  ASSUME NEW rows, NEW U, IsFiniteSet(U), \A q \in U : rows[q].amount \in Nat
  PROVE  /\ SumOf(rows, U) \in Nat
         /\ \A x \in U : SumOf(rows, U) = SumOf(rows, U \ {x}) + rows[x].amount
<1> DEFINE Fine(S) == /\ SumOf(rows, S) \in Nat
                      /\ \A x \in S : SumOf(rows, S) = SumOf(rows, S \ {x}) + rows[x].amount
           Sizes == {n \in Nat : \E S \in SUBSET U : ~Fine(S) /\ Cardinality(S) = n}
<1> SUFFICES ASSUME ~Fine(U)
             PROVE  FALSE
  OBVIOUS
<1>1. \A S \in SUBSET U : IsFiniteSet(S) /\ Cardinality(S) \in Nat
  BY FS_Subset, FS_CardinalityType
<1>2. Cardinality(U) \in Sizes
  BY <1>1
<1>3. PICK n \in Sizes : \A m \in Sizes : n <= m
  <2> HIDE DEF Fine
  <2> QED
    BY <1>2, LeastNatural
<1>4. PICK S \in SUBSET U : ~Fine(S) /\ Cardinality(S) = n
  BY <1>3
<1>5. ASSUME NEW x \in S
      PROVE  Fine(S \ {x})
  <2>1. S \ {x} \in SUBSET U /\ Cardinality(S \ {x}) = n - 1
    BY <1>1, <1>4, FS_RemoveElement
  <2>2. n \in Nat /\ n - 1 \in Int /\ ~(n <= n - 1)
    BY <1>3
  <2> HIDE DEF Fine
  <2> QED
    BY <1>1, <1>3, <2>1, <2>2
<1> DEFINE y == Pick(S)
           sum(R) == SumOf(rows, R)
           amount(x) == rows[x].amount
<1>6. S # {}
  <2> SUFFICES ASSUME S = {}
               PROVE  FALSE
    OBVIOUS
  <2>1. SumOf(rows, S) = 0
    BY <1>1, SumUnfolds
  <2> QED
    BY <2>1, <1>4
<1>7. y \in S /\ SumOf(rows, S) = rows[y].amount + SumOf(rows, S \ {y})
  BY <1>1, <1>6, SumUnfolds, Picked
<1>8. \A x \in S : amount(x) \in Nat /\ sum(S \ {x}) \in Nat
  BY <1>5
<1>9. ASSUME NEW x \in S, x # y
      PROVE  sum(S) = sum(S \ {x}) + amount(x)
  <2> DEFINE both == (S \ {x}) \ {y}
  <2>1. both = (S \ {y}) \ {x} /\ y \in S \ {x} /\ x \in S \ {y}
    BY <1>7, <1>9
  <2>2. sum(S \ {x}) = sum(both) + amount(y)
    BY <2>1, <1>5
  <2>3. sum(S \ {y}) = sum(both) + amount(x)
    BY <2>1, <1>5, <1>7
  <2>4. Fine(S \ {x})
    BY <1>5
  <2>5. both \in SUBSET U /\ sum(both) \in Nat
    <3>1. Fine(both)
      <4>1. Cardinality(both) = n - 1 - 1
        <5>1. S \ {x} \in SUBSET U /\ Cardinality(S \ {x}) = n - 1
          BY <1>1, <1>4, FS_RemoveElement
        <5>2. IsFiniteSet(S \ {x})
          BY <5>1, <1>1
        <5>3. Cardinality(both) = Cardinality(S \ {x}) - 1
          BY <5>2, <2>1, FS_RemoveElement
        <5> QED
          BY <5>1, <5>3
      <4>2. both \in SUBSET U /\ n \in Nat /\ ~(n <= n - 1 - 1)
        BY <1>3
      <4> HIDE DEF Fine, both
      <4> QED
        BY <1>1, <1>3, <4>1, <4>2
    <3> QED
      BY <3>1
  <2> HIDE DEF both, sum, amount
  <2>6. sum(S) = amount(y) + sum(S \ {y})
    BY <1>7 DEF sum, amount
  <2>7. amount(x) \in Nat /\ amount(y) \in Nat
    BY <1>7, <1>8
  <2> QED
    BY <2>2, <2>3, <2>5, <2>6, <2>7
<1>10. Fine(S)
  <2>1. sum(S) = sum(S \ {y}) + amount(y)
    BY <1>7, <1>8
  <2>2. sum(S) \in Nat
    BY <1>7, <1>8
  <2> QED
    BY <1>9, <2>1, <2>2
<1> QED
  BY <1>4, <1>10

\* The rows of an entity that the pass has behind it.
Of(e) == {q \in 1 .. next - 1 : frame[q].entity = e}

\* What MeanOfEarlierRows rests on: the running totals are sums over the rows
\* behind the pass, and there is one mean for each row.
TotalsInv ==
  /\ total = SumOf(frame, 1 .. next - 1)
  /\ sums = [e \in Entities |-> SumOf(frame, Of(e))]
  /\ seen = [e \in Entities |-> Cardinality(Of(e))]
  /\ DOMAIN mean = Rows

\* The mean that row p of the frame `rows' is to have.
Base(rows, p) ==
  LET same == {q \in 1 .. p - 1 : rows[q].entity = rows[p].entity}
  IN  IF same # {} THEN same ELSE IF p > 1 THEN 1 .. p - 1 ELSE {p}

MeanOf(rows, p) == <<SumOf(rows, Base(rows, p)), Cardinality(Base(rows, p))>>

LEMMA MeansNow == MeanOfEarlierRows <=> \A p \in 1 .. next - 1 : mean[p] = MeanOf(frame, p)
BY AmountIsSum DEF MeanOfEarlierRows, MeanOf, Base, Earlier

LEMMA MeansThen ==
  MeanOfEarlierRows' <=> \A p \in 1 .. next' - 1 : mean'[p] = MeanOf(frame', p)
BY AmountIsSumThen DEF MeanOfEarlierRows, MeanOf, Base, Earlier

\* Sums over no row and over one row.
LEMMA SumOfFew ==
  ASSUME NEW rows
  PROVE  /\ SumOf(rows, {}) = 0
         /\ \A q : rows[q].amount \in Nat => SumOf(rows, {q}) = rows[q].amount
<1>1. SumOf(rows, {}) = 0
  BY SumUnfolds, FS_EmptySet
<1>2. ASSUME NEW q, rows[q].amount \in Nat
      PROVE  SumOf(rows, {q}) = rows[q].amount
  <2>1. SumOf(rows, {q}) = SumOf(rows, {q} \ {q}) + rows[q].amount
    BY <1>2, SumAdds, FS_Singleton
  <2>2. {q} \ {q} = {}
    OBVIOUS
  <2> QED
    BY <1>1, <1>2, <2>1, <2>2
<1> QED
  BY <1>1, <1>2

\* One row more.
LEMMA SumGrows ==
  ASSUME TypeOK, NEW S \in SUBSET Rows, NEW q \in Rows, q \notin S
  PROVE  /\ SumOf(frame, S) \in Nat
         /\ SumOf(frame, S \cup {q}) = SumOf(frame, S) + frame[q].amount
         /\ IsFiniteSet(S) /\ Cardinality(S) \in Nat
         /\ Cardinality(S \cup {q}) = Cardinality(S) + 1
<1>1. IsFiniteSet(Rows)
  BY FS_Interval
<1>2. IsFiniteSet(S) /\ IsFiniteSet(S \cup {q})
  BY <1>1, FS_Subset, FS_AddElement
<1>3. \A r \in Rows : frame[r].amount \in Nat
  BY DEF TypeOK, RowType
<1>4. SumOf(frame, S \cup {q}) = SumOf(frame, (S \cup {q}) \ {q}) + frame[q].amount
  BY <1>2, <1>3, SumAdds
<1>5. (S \cup {q}) \ {q} = S
  OBVIOUS
<1>6. SumOf(frame, S) \in Nat
  BY <1>2, <1>3, SumAdds
<1>7. Cardinality(S \cup {q}) = Cardinality(S) + 1
  BY <1>2, FS_AddElement
<1> QED
  BY <1>2, <1>4, <1>5, <1>6, <1>7, FS_CardinalityType

\* The totals are empty before the first row, of whatever frame.
LEMMA TotalsAtStart ==
  ASSUME NEW rows
  PROVE  /\ SumOf(rows, 1 .. 1 - 1) = 0
         /\ \A e : {q \in 1 .. 1 - 1 : rows[q].entity = e} = {}
         /\ Cardinality({}) = 0
<1>1. 1 .. 1 - 1 = {}
  OBVIOUS
<1> QED
  BY <1>1, SumOfFew, FS_EmptySet

LEMMA InitTotals == Init => TotalsInv /\ MeanOfEarlierRows
<1> SUFFICES ASSUME Init
             PROVE  TotalsInv /\ MeanOfEarlierRows
  OBVIOUS
<1>1. next = 1
  BY DEF Init
<1>2. \A e : Of(e) = {}
  BY <1>1 DEF Of
<1>3. \A e : SumOf(frame, Of(e)) = 0 /\ Cardinality(Of(e)) = 0
  BY <1>2, SumOfFew, FS_EmptySet
<1>4. TotalsInv
  BY <1>1, <1>3, TotalsAtStart DEF Init, TotalsInv
<1>5. MeanOfEarlierRows
  BY <1>1, MeansNow
<1> QED
  BY <1>4, <1>5

\* Row gives the row at hand its mean and brings the totals up to date.
LEMMA RowTotals ==
  ASSUME HistoryInv, TotalsInv, MeanOfEarlierRows, Row
  PROVE  TotalsInv' /\ MeanOfEarlierRows'
<1> DEFINE e == frame[next].entity
<1>1. /\ next <= N /\ next' = next + 1 /\ frame' = frame /\ next \in Rows /\ e \in Entities
      /\ mean' = [mean EXCEPT ![next] = PriorMean(next, e)]
      /\ sums' = [sums EXCEPT ![e] = @ + frame[next].amount]
      /\ seen' = [seen EXCEPT ![e] = @ + 1]
      /\ total' = total + frame[next].amount
  BY DEF Row, HistoryInv, TypeOK, RowType
<1>2. TypeOK
  BY DEF HistoryInv
<1>3. 1 .. next' - 1 = (1 .. next - 1) \cup {next} /\ 1 .. next - 1 \in SUBSET Rows
      /\ next \notin 1 .. next - 1
  BY <1>1
<1>4. total' = SumOf(frame', 1 .. next' - 1)
  BY <1>1, <1>2, <1>3, SumGrows DEF TotalsInv
<1>5. \A f \in Entities : Of(f)' = IF f = e THEN Of(f) \cup {next} ELSE Of(f)
  BY <1>1, <1>3 DEF Of
<1>6. \A f \in Entities : Of(f) \in SUBSET Rows /\ next \notin Of(f)
  BY <1>3 DEF Of
<1>7. sums' = [f \in Entities |-> SumOf(frame', Of(f)')]
  <2>1. SumOf(frame, Of(e) \cup {next}) = SumOf(frame, Of(e)) + frame[next].amount
    BY <1>1, <1>2, <1>6, SumGrows
  <2>2. sums = [f \in Entities |-> SumOf(frame, Of(f))]
    BY DEF TotalsInv
  <2> HIDE DEF e
  <2> QED
    BY <1>1, <1>5, <2>1, <2>2
<1>8. seen' = [f \in Entities |-> Cardinality(Of(f)')]
  <2>1. Cardinality(Of(e) \cup {next}) = Cardinality(Of(e)) + 1
    BY <1>1, <1>2, <1>6, SumGrows
  <2>2. seen = [f \in Entities |-> Cardinality(Of(f))]
    BY DEF TotalsInv
  <2> HIDE DEF e
  <2> QED
    BY <1>1, <1>5, <2>1, <2>2
<1>9. TotalsInv'
  <2>1. DOMAIN mean' = Rows
    BY <1>1 DEF TotalsInv
  <2> QED
    BY <1>4, <1>7, <1>8, <2>1 DEF TotalsInv
<1>10. PriorMean(next, e) = MeanOf(frame, next)
  <2>1. Of(e) = {q \in 1 .. next - 1 : frame[q].entity = frame[next].entity}
    BY DEF Of
  <2>2. sums[e] = SumOf(frame, Of(e)) /\ seen[e] = Cardinality(Of(e))
    BY <1>1 DEF TotalsInv
  <2>3. seen[e] # 0 <=> Of(e) # {}
    BY <1>1, <1>2, <1>6, <2>2, SumGrows, FS_EmptySet
  <2>4. CASE Of(e) # {}
    BY <2>1, <2>2, <2>3, <2>4 DEF PriorMean, MeanOf, Base
  <2>5. CASE Of(e) = {} /\ next # 1
    <3>1. Base(frame, next) = 1 .. next - 1
      BY <2>1, <2>5, <1>1 DEF Base
    <3>2. Cardinality(1 .. next - 1) = next - 1
      <4>1. next - 1 \in Int /\ ~(1 > next - 1) /\ (next - 1) - 1 + 1 = next - 1
        BY <1>1, <2>5
      <4> HIDE DEF e
      <4>2. Cardinality(1 .. next - 1) = (next - 1) - 1 + 1
        BY <4>1, FS_Interval
      <4> QED
        BY <4>1, <4>2
    <3> QED
      BY <2>3, <2>5, <3>1, <3>2 DEF PriorMean, MeanOf, TotalsInv
  <2>6. CASE Of(e) = {} /\ next = 1
    <3>1. Base(frame, next) = {next}
      BY <2>1, <2>6, <1>1 DEF Base
    <3>2. frame[next].amount \in Nat
      BY <1>1, <1>2 DEF TypeOK, RowType
    <3>3. SumOf(frame, {next}) = frame[next].amount /\ Cardinality({next}) = 1
      BY <3>2, SumOfFew, FS_Singleton
    <3> QED
      BY <2>3, <2>6, <3>1, <3>3 DEF PriorMean, MeanOf
  <2> QED
    BY <2>4, <2>5, <2>6
<1>11. \A p \in 1 .. next' - 1 : mean'[p] = MeanOf(frame', p)
  <2>1. \A p \in 1 .. next - 1 : mean[p] = MeanOf(frame, p)
    BY MeansNow
  <2>2. DOMAIN mean = Rows
    BY DEF TotalsInv
  <2> HIDE DEF e
  <2> QED
    BY <1>1, <1>3, <1>10, <2>1, <2>2
<1> QED
  BY <1>9, <1>11, MeansThen

LEMMA NextTotals == HistoryInv /\ TotalsInv /\ MeanOfEarlierRows /\ [Next]_vars
                      => TotalsInv' /\ MeanOfEarlierRows'
<1> SUFFICES ASSUME HistoryInv, TotalsInv, MeanOfEarlierRows, [Next]_vars
             PROVE  TotalsInv' /\ MeanOfEarlierRows'
  OBVIOUS
<1>1. CASE Sort
  <2>1. UNCHANGED pass /\ next = 1
    BY <1>1 DEF Sort, HistoryInv
  <2>2. \A f : Of(f) = {} /\ Of(f)' = {}
    BY <2>1 DEF Of, pass
  <2>3. TotalsInv'
    BY <2>1, <2>2, TotalsAtStart, SumOfFew DEF TotalsInv, pass
  <2>4. MeanOfEarlierRows'
    BY <2>1, MeansThen DEF pass
  <2> QED
    BY <2>3, <2>4
<1>2. CASE Row
  BY <1>2, RowTotals
<1>3. CASE UNCHANGED <<frame, pass>>
  <2>1. TotalsInv'
    BY <1>3 DEF TotalsInv, Of, pass
  <2>2. MeanOfEarlierRows'
    BY <1>3, MeansNow, MeansThen DEF pass
  <2> QED
    BY <2>1, <2>2
<1> QED
  BY <1>1, <1>2, <1>3 DEF Next, Reject, Finish, vars

\* For a history of any length: the prior mean of prepare_leakage_safe_frame is
\* that of the entity's earlier rows, or of all earlier rows; no row but the
\* first sees its own amount.
THEOREM HonestMeans == Spec => []MeanOfEarlierRows
<1>1. Init => TotalsInv /\ MeanOfEarlierRows
  BY InitTotals
<1>2. HistoryInv /\ (TotalsInv /\ MeanOfEarlierRows) /\ [Next]_vars
        => (TotalsInv /\ MeanOfEarlierRows)'
  BY NextTotals
<1>3. Spec => []HistoryInv
  BY HistoryInvariant
<1> QED
  BY <1>1, <1>2, <1>3, PTL DEF Spec

-----------------------------------------------------------------------------
(* The sort.                                                               *)

\* R is a strict total order of the places 1 .. m.
Orders(R, m) ==
  /\ \A i \in 1 .. m : <<i, i>> \notin R
  /\ \A i, j, k \in 1 .. m : <<i, j>> \in R /\ <<j, k>> \in R => <<i, k>> \in R
  /\ \A i, j \in 1 .. m : i # j => <<i, j>> \in R \/ <<j, i>> \in R

\* How many places are before each.
Ranks(R, m) == [i \in 1 .. m |-> Cardinality({j \in 1 .. m : <<j, i>> \in R})]

\* No two places have as many before them.
LEMMA RanksAreAll ==
  ASSUME NEW m \in Nat, NEW R, Orders(R, m)
  PROVE  Ranks(R, m) \in Bijection(1 .. m, 0 .. m - 1)
<1> DEFINE P == 1 .. m
           Below(i) == {j \in P : <<j, i>> \in R}
           f == Ranks(R, m)
<1>1. IsFiniteSet(P) /\ Cardinality(P) = m
  BY FS_Interval
<1>2. IsFiniteSet(0 .. m - 1) /\ Cardinality(0 .. m - 1) = m
  <2>1. Cardinality(0 .. m - 1) = IF 0 > m - 1 THEN 0 ELSE (m - 1) - 0 + 1
    BY FS_Interval
  <2> QED
    BY <2>1, FS_Interval
<1> HIDE DEF P
<1>3. \A i \in P : f[i] = Cardinality(Below(i))
  BY DEF Ranks, P
<1>4. ASSUME NEW i \in P
      PROVE  Cardinality(Below(i)) \in 0 .. m - 1
  <2>1. Below(i) \subseteq P \ {i}
    BY DEF Orders, P
  <2>2. IsFiniteSet(P \ {i}) /\ Cardinality(P \ {i}) = m - 1
    BY <1>1, FS_RemoveElement
  <2>3. IsFiniteSet(Below(i)) /\ Cardinality(Below(i)) <= m - 1
    <3> HIDE DEF Below
    <3>1. Below(i) \in SUBSET (P \ {i})
      BY <2>1
    <3> QED
      BY <3>1, <2>2, FS_Subset
  <2>4. Cardinality(Below(i)) \in Nat
    BY <2>3, FS_CardinalityType
  <2> QED
    BY <2>3, <2>4
<1>5. ASSUME NEW i \in P, NEW k \in P, <<i, k>> \in R
      PROVE  Cardinality(Below(i)) # Cardinality(Below(k))
  <2>1. Below(i) \subseteq Below(k)
    BY <1>5 DEF Orders, P
  <2>2. i \in Below(k) /\ i \notin Below(i)
    BY <1>5 DEF Orders, P
  <2>3. Below(i) # Below(k)
    BY <2>2
  <2>4. Below(k) \subseteq P
    OBVIOUS
  <2>5. IsFiniteSet(Below(k))
    BY <1>1, <2>4, FS_Subset
  <2> HIDE DEF Below
  <2> QED
    BY <2>1, <2>3, <2>5, FS_Subset
<1>6. f \in [P -> 0 .. m - 1]
  BY <1>4 DEF Ranks, P
<1>7. f \in Injection(P, 0 .. m - 1)
  <2>1. ASSUME NEW i \in P, NEW k \in P, i # k
        PROVE  f[i] # f[k]
    <3>1. <<i, k>> \in R \/ <<k, i>> \in R
      BY <2>1 DEF Orders, P
    <3> HIDE DEF Below, f
    <3> QED
      BY <3>1, <1>3, <1>5
  <2> HIDE DEF f
  <2> QED
    BY <1>6, <2>1 DEF Injection, IsInjective
<1> HIDE DEF f
<1>8. f \in Surjection(P, 0 .. m - 1)
  BY <1>1, <1>2, <1>7, FS_Injection
<1> QED
  BY <1>7, <1>8 DEF Bijection, f, P

\* Row i of the file sorts before row j.
Before == {x \in Rows \X Rows : \/ frame[x[1]].time < frame[x[2]].time
                                \/ frame[x[1]].time = frame[x[2]].time /\ x[1] < x[2]}

\* What Sort asks of the order that it sorts the file by.
Sorted(order) ==
  \A p, q \in Rows : p < q =>
    \/ frame[order[p]].time < frame[order[q]].time
    \/ frame[order[p]].time = frame[order[q]].time /\ order[p] < order[q]

LEMMA BeforeOrders == ASSUME TypeOK PROVE Orders(Before, N)
<1> DEFINE t(i) == frame[i].time
<1>1. \A i \in Rows : t(i) \in Nat
  BY DEF TypeOK, RowType
<1>2. \A i, j \in Rows : <<i, j>> \in Before <=> t(i) < t(j) \/ (t(i) = t(j) /\ i < j)
  BY DEF Before
<1> HIDE DEF t
<1>3. \A i \in Rows : <<i, i>> \notin Before
  BY <1>1, <1>2
<1>4. ASSUME NEW i \in Rows, NEW j \in Rows, NEW k \in Rows,
             <<i, j>> \in Before, <<j, k>> \in Before
      PROVE  <<i, k>> \in Before
  <2>1. t(i) \in Nat /\ t(j) \in Nat /\ t(k) \in Nat
    BY <1>1
  <2>2. t(i) < t(j) \/ (t(i) = t(j) /\ i < j)
    BY <1>2, <1>4
  <2>3. t(j) < t(k) \/ (t(j) = t(k) /\ j < k)
    BY <1>2, <1>4
  <2>4. t(i) < t(k) \/ (t(i) = t(k) /\ i < k)
    BY <2>1, <2>2, <2>3
  <2> QED
    BY <2>4, <1>2
<1>5. ASSUME NEW i \in Rows, NEW j \in Rows, i # j
      PROVE  <<i, j>> \in Before \/ <<j, i>> \in Before
  <2>1. t(i) < t(j) \/ t(j) < t(i) \/ t(i) = t(j)
    BY <1>1
  <2>2. i < j \/ j < i
    BY <1>5
  <2> QED
    BY <2>1, <2>2, <1>2
<1> QED
  BY <1>3, <1>4, <1>5 DEF Orders

LEMMA SortedIsBefore ==
  ASSUME NEW order \in [Rows -> Rows]
  PROVE  Sorted(order) <=> \A p, q \in Rows : p < q => <<order[p], order[q]>> \in Before
BY DEF Sorted, Before

\* The rows that come before row p of the result are those at 1 .. p - 1, so
\* that its place tells which row of the file it is.
LEMMA PlaceIsRank ==
  ASSUME TypeOK, NEW order \in [Rows -> Rows], Sorted(order)
  PROVE  /\ order \in Bijection(Rows, Rows)
         /\ \A p \in Rows : Ranks(Before, N)[order[p]] = p - 1
<1>1. Orders(Before, N)
  BY BeforeOrders
<1>2. \A p, q \in Rows : p < q => <<order[p], order[q]>> \in Before
  BY SortedIsBefore
<1>3. ASSUME NEW p \in Rows, NEW q \in Rows, order[p] = order[q]
      PROVE  p = q
  <2> SUFFICES ASSUME p < q \/ q < p
               PROVE  FALSE
    OBVIOUS
  <2>1. <<order[p], order[p]>> \in Before
    BY <1>2, <1>3
  <2> QED
    BY <2>1, <1>1 DEF Orders
<1>4. order \in Injection(Rows, Rows)
  BY <1>3 DEF Injection, IsInjective
<1>5. IsFiniteSet(Rows)
  BY FS_Interval
<1>6. order \in Surjection(Rows, Rows)
  BY <1>4, <1>5, FS_Injection
<1>7. ASSUME NEW p \in Rows
      PROVE  Ranks(Before, N)[order[p]] = p - 1
  <2> DEFINE below == {j \in Rows : <<j, order[p]>> \in Before}
             g == [q \in 1 .. p - 1 |-> order[q]]
  <2>1. Ranks(Before, N)[order[p]] = Cardinality(below)
    BY DEF Ranks
  <2>2. g \in [1 .. p - 1 -> below]
    BY <1>2
  <2>3. \A q, r \in 1 .. p - 1 : g[q] = g[r] => q = r
    BY <1>3
  <2>4. ASSUME NEW j \in below
        PROVE  \E q \in 1 .. p - 1 : g[q] = j
    <3>1. PICK q \in Rows : order[q] = j
      BY <1>6 DEF Surjection
    <3>2. <<order[q], order[p]>> \in Before
      BY <3>1
    <3>3. ~(p <= q)
      <4>1. CASE p = q
        BY <4>1, <3>2, <1>1 DEF Orders
      <4>2. CASE p < q
        <5>1. <<order[p], order[q]>> \in Before
          BY <4>2, <1>2
        <5>2. <<order[p], order[p]>> \in Before
          BY <5>1, <3>2, <1>1 DEF Orders
        <5> QED
          BY <5>2, <1>1 DEF Orders
      <4> QED
        BY <4>1, <4>2
    <3>4. q \in 1 .. p - 1
      BY <3>3
    <3> QED
      BY <3>1, <3>4
  <2> HIDE DEF g, below
  <2>5. g \in Bijection(1 .. p - 1, below)
    BY <2>2, <2>3, <2>4 DEF Bijection, Injection, Surjection, IsInjective
  <2>6. IsFiniteSet(1 .. p - 1) /\ Cardinality(1 .. p - 1) = p - 1
    <3>1. Cardinality(1 .. p - 1) = IF 1 > p - 1 THEN 0 ELSE (p - 1) - 1 + 1
      BY FS_Interval
    <3> QED
      BY <3>1, FS_Interval
  <2>7. Cardinality(below) = p - 1
    BY <2>5, <2>6, FS_Bijection DEF ExistsBijection
  <2> QED
    BY <2>1, <2>7
<1> QED
  BY <1>4, <1>6, <1>7 DEF Bijection

\* A file can be sorted, and in one way only.
LEMMA SortedIsUnique ==
  ASSUME TypeOK
  PROVE  \E order \in [Rows -> Rows] :
           /\ Sorted(order)
           /\ \A other \in [Rows -> Rows] : Sorted(other) => other = order
<1> DEFINE f == Ranks(Before, N)
<1>1. Orders(Before, N)
  BY BeforeOrders
<1>2. f \in [Rows -> 0 .. N - 1] /\ (\A i, k \in Rows : f[i] = f[k] => i = k)
      /\ \A r \in 0 .. N - 1 : \E i \in Rows : f[i] = r
  <2>1. f \in Bijection(Rows, 0 .. N - 1)
    BY <1>1, RanksAreAll
  <2> HIDE DEF f
  <2> QED
    BY <2>1 DEF Bijection, Injection, Surjection, IsInjective
<1> DEFINE order == [p \in Rows |-> CHOOSE i \in Rows : f[i] = p - 1]
<1>3. \A p \in Rows : order[p] \in Rows /\ f[order[p]] = p - 1
  <2> SUFFICES ASSUME NEW p \in Rows
               PROVE  order[p] \in Rows /\ f[order[p]] = p - 1
    OBVIOUS
  <2>1. p - 1 \in 0 .. N - 1
    OBVIOUS
  <2>2. \E i \in Rows : f[i] = p - 1
    BY <2>1, <1>2
  <2> HIDE DEF f
  <2> QED
    BY <2>2
<1>4. order \in [Rows -> Rows]
  BY <1>3
<1> HIDE DEF order
<1>5. ASSUME NEW p \in Rows, NEW q \in Rows, p < q
      PROVE  <<order[p], order[q]>> \in Before
  <2>1. order[p] # order[q]
    BY <1>3, <1>5
  <2>2. <<order[p], order[q]>> \in Before \/ <<order[q], order[p]>> \in Before
    BY <2>1, <1>1, <1>3 DEF Orders
  <2>3. ASSUME <<order[q], order[p]>> \in Before
        PROVE  FALSE
    <3> DEFINE low(i) == {j \in Rows : <<j, i>> \in Before}
    <3>1. low(order[q]) \in SUBSET low(order[p])
      BY <2>3, <1>1, <1>3 DEF Orders
    <3>2. f[order[p]] = Cardinality(low(order[p])) /\ f[order[q]] = Cardinality(low(order[q]))
      BY <1>3 DEF Ranks
    <3>3. IsFiniteSet(low(order[p]))
      <4>1. IsFiniteSet(Rows) /\ low(order[p]) \in SUBSET Rows
        BY FS_Interval
      <4> QED
        BY <4>1, FS_Subset
    <3> HIDE DEF low
    <3>4. Cardinality(low(order[q])) <= Cardinality(low(order[p]))
      BY <3>1, <3>3, FS_Subset
    <3>5. q - 1 <= p - 1
      BY <3>2, <3>4, <1>3
    <3> QED
      BY <3>5, <1>5
  <2> QED
    BY <2>2, <2>3
<1>6. Sorted(order)
  BY <1>4, <1>5, SortedIsBefore
<1>7. ASSUME NEW other \in [Rows -> Rows], Sorted(other)
      PROVE  other = order
  <2>1. \A p \in Rows : f[other[p]] = p - 1
    BY <1>7, PlaceIsRank
  <2>2. \A p \in Rows : other[p] = order[p]
    BY <2>1, <1>2, <1>3
  <2> QED
    BY <2>2, <1>4
<1> QED
  BY <1>4, <1>6, <1>7

\* The step from the file to the pass rearranges the rows, and has no choice how.
SortRearranges ==
  [][pc = "loaded" /\ pc' = "scan" =>
       \E order \in Bijection(Rows, Rows) :
         /\ Sorted(order)
         /\ \A other \in [Rows -> Rows] : Sorted(other) => other = order
         /\ frame' = [p \in Rows |-> frame[order[p]]]]_vars

\* Sorting loses no row and doubles none: the pass is over the rows of the file,
\* chronologically, those of one timestamp in file order, which leaves one order.
THEOREM SortLosesNothing == Spec => SortRearranges
<1> DEFINE Rearranged == pc = "loaded" /\ pc' = "scan" =>
             \E order \in Bijection(Rows, Rows) :
               /\ Sorted(order)
               /\ \A other \in [Rows -> Rows] : Sorted(other) => other = order
               /\ frame' = [p \in Rows |-> frame[order[p]]]
<1>1. HistoryInv /\ [Next]_vars => [Rearranged]_vars
  <2> SUFFICES ASSUME HistoryInv, Next, pc = "loaded", pc' = "scan"
               PROVE  \E order \in Bijection(Rows, Rows) :
                        /\ Sorted(order)
                        /\ \A other \in [Rows -> Rows] : Sorted(other) => other = order
                        /\ frame' = [p \in Rows |-> frame[order[p]]]
    OBVIOUS
  <2>1. Sort
    BY DEF Next, Reject, Row, Finish
  <2>2. PICK order \in [Rows -> Rows] :
          Sorted(order) /\ frame' = [p \in Rows |-> frame[order[p]]]
    BY <2>1 DEF Sort, Sorted
  <2>3. order \in Bijection(Rows, Rows)
    BY <2>2, PlaceIsRank DEF HistoryInv
  <2>4. \A other \in [Rows -> Rows] : Sorted(other) => other = order
    BY <2>2, SortedIsUnique DEF HistoryInv
  <2> QED
    BY <2>2, <2>3, <2>4
<1> QED
  BY <1>1, HistoryInvariant, PTL DEF Spec, SortRearranges
=============================================================================
