---------------------------- MODULE FeatureHistory ----------------------------
(***************************************************************************)
(* prepare_leakage_safe_frame: the transactions of a CSV are sorted by     *)
(* event time, then one pass over them computes, per entity, how many      *)
(* earlier transactions lie in each window (_online_window_count) and      *)
(* their mean amount (_online_prior_mean).                                 *)
(*                                                                         *)
(* One entity column stands for the four of the code (payer, payee, both   *)
(* pairs), whose passes are independent.  Time is in ticks, several to a   *)
(* second: the windows work on whole seconds.  target_maturity_seconds     *)
(* shifts every time by the same number of seconds and so no count.        *)
(***************************************************************************)
EXTENDS Integers, FiniteSets, FiniteSetsExt

CONSTANTS N,               \* number of rows
          Times,           \* event times, in ticks
          TicksPerSecond,
          Entities,        \* values of the key column
          Amounts,
          Windows          \* window lengths, in seconds

ASSUME HistoryAssumption ==
  /\ N \in Nat \ {0}
  /\ Times \subseteq Nat
  /\ TicksPerSecond \in Nat \ {0}
  /\ Amounts \subseteq Nat
  /\ Windows \subseteq Nat

Rows == 1 .. N
RowType == [time : Times, entity : Entities, amount : Amounts]

VARIABLES frame,     \* the rows, in file order and then in chronological order
          pc,        \* "loaded", "scan", "done" or "rejected"
          next,      \* the row the pass is at
          queue,     \* of each window and entity: the deque, as a set of rows
          sums,      \* amounts per entity so far
          seen,      \* rows per entity so far
          total,     \* amounts so far
          count,     \* of each row and window: the feature computed
          mean       \* of each row: the prior mean, as <<sum, number>>

pass == <<next, queue, sums, seen, total, count, mean>>
vars == <<frame, pc, pass>>

\* timestamp.value // 10**9
Second(p) == frame[p].time \div TicksPerSecond

Init == /\ frame \in [Rows -> RowType]
        /\ pc = "loaded"
        /\ next = 1
        /\ queue = [w \in Windows |-> [e \in Entities |-> {}]]
        /\ sums = [e \in Entities |-> 0]
        /\ seen = [e \in Entities |-> 0]
        /\ total = 0
        /\ count = [p \in Rows |-> [w \in Windows |-> 0]]
        /\ mean = [p \in Rows |-> <<0, 0>>]

-----------------------------------------------------------------------------
\* A column is missing, a time or an amount is invalid, or the labels are all
\* alike: none of them is in the model's rows, and any file may have the fault.
Reject == /\ pc = "loaded"
          /\ pc' = "rejected"
          /\ UNCHANGED <<frame, pass>>

SortNot == /\ pc = "loaded"
           /\ pc' = "scan"
           /\ UNCHANGED <<frame, pass>>

\* sort_values(["event_time"], kind="mergesort"): chronological, rows of one
\* timestamp in file order.  order[p] is the file row that becomes row p.
Sort == /\ pc = "loaded"
        /\ \E order \in [Rows -> Rows] :
             /\ \A p, q \in Rows : p < q =>
                  \/ frame[order[p]].time < frame[order[q]].time
                  \/ frame[order[p]].time = frame[order[q]].time /\ order[p] < order[q]
             /\ frame' = [p \in Rows |-> frame[order[p]]]
        /\ pc' = "scan"
        /\ UNCHANGED pass

\* while queue and queue[0] < cutoff: popleft().  Rows enter at the right, so
\* what stays is everything from the first row that is recent enough.
PoppedAll(q, cutoff) == {p \in q : Second(p) > cutoff}
Popped(q, cutoff) == {p \in q : \E l \in q : l <= p /\ Second(l) >= cutoff}

PriorMeanWithOwn(p, e) == <<sums[e] + frame[p].amount, seen[e] + 1>>

\* The mean over the entity's rows so far, or over all, or the row's own.
PriorMean(p, e) == IF seen[e] # 0 THEN <<sums[e], seen[e]>>
                   ELSE IF p # 1 THEN <<total, p - 1>>
                   ELSE <<frame[p].amount, 1>>

Row == /\ pc = "scan"
       /\ next <= N
       /\ LET e == frame[next].entity
              kept == [w \in Windows |-> Popped(queue[w][e], Second(next) - w)]
          IN  /\ count' = [count EXCEPT ![next] = [w \in Windows |-> Cardinality(kept[w])]]
              /\ queue' = [w \in Windows |->
                             [queue[w] EXCEPT ![e] = kept[w] \cup {next}]]
              /\ mean' = [mean EXCEPT ![next] = PriorMean(next, e)]
              /\ sums' = [sums EXCEPT ![e] = @ + frame[next].amount]
              /\ seen' = [seen EXCEPT ![e] = @ + 1]
       /\ total' = total + frame[next].amount
       /\ next' = next + 1
       /\ UNCHANGED <<frame, pc>>

Finish == /\ pc = "scan"
          /\ next > N
          /\ pc' = "done"
          /\ UNCHANGED <<frame, pass>>

Next == Reject \/ Sort \/ Row \/ Finish

Spec == Init /\ [][Next]_vars

-----------------------------------------------------------------------------
(* Type invariant.                                                         *)
TypeOK == /\ frame \in [Rows -> RowType]
          /\ pc \in {"loaded", "scan", "done", "rejected"}
          /\ next \in 1 .. N + 1
          /\ queue \in [Windows -> [Entities -> SUBSET (1 .. next - 1)]]
          /\ count \in [Rows -> [Windows -> Nat]]

Earlier(p) == {q \in 1 .. p - 1 : frame[q].entity = frame[p].entity}

InWindow(p, w) == {q \in Earlier(p) : Second(q) >= Second(p) - w}

\* The deques drop rows for good and each is shared by all rows of an entity;
\* the counts are nevertheless those of a fresh look at the whole history.
CountsAreExact ==
  \A p \in 1 .. next - 1 : \A w \in Windows : count[p][w] = Cardinality(InWindow(p, w))

\* What CountsAreExact rests on: the rows are in order, and a row of an entity
\* that its deque has lost is too old for every row to come.
HistoryInv ==
  /\ TypeOK
  /\ pc \in {"scan", "done"} => \A p, q \in Rows : p <= q => frame[p].time <= frame[q].time
  /\ pc = "loaded" => next = 1
  /\ pc = "rejected" => next = 1
  /\ \A w \in Windows : \A e \in Entities : \A q \in queue[w][e] : frame[q].entity = e
  /\ \A w \in Windows : \A q \in 1 .. next - 1 :
       q \notin queue[w][frame[q].entity] =>
         \E p \in 1 .. next - 1 : Second(q) < Second(p) - w

\* The other rows of the entity, wherever they are in the file, whose time is
\* before the row's (or, if `tied', the same) by at most this many ticks.
Others(p, ticks, tied) ==
  {q \in Rows \ {p} : /\ frame[q].entity = frame[p].entity
                      /\ frame[q].time >= frame[p].time - ticks
                      /\ \/ frame[q].time < frame[p].time
                         \/ tied /\ frame[q].time = frame[p].time}

\* Point in time: a count misses no earlier transaction of its window, and has
\* none from the future nor one that is a second or more too old, although it
\* compares whole seconds.
WindowsAreHonest ==
  \A p \in 1 .. next - 1 : \A w \in Windows :
    /\ count[p][w] >= Cardinality(Others(p, w * TicksPerSecond, FALSE))
    /\ count[p][w] <= Cardinality(Others(p, (w + 1) * TicksPerSecond - 1, TRUE))

\* "Only derives historical features from events strictly earlier than each row."
StrictlyEarlier ==
  \A p \in 1 .. next - 1 : \A w \in Windows :
    count[p][w] <= Cardinality(Others(p, (w + 1) * TicksPerSecond - 1, FALSE))

AmountOf(S) == MapThenSumSet(LAMBDA q : frame[q].amount, S)

\* The prior mean is that of the entity's earlier rows; an entity without any
\* gets the mean of all earlier rows, and only the first row of all its own
\* amount, so that no other row sees itself.
MeanOfEarlierRows ==
  \A p \in 1 .. next - 1 :
    LET base == IF Earlier(p) # {} THEN Earlier(p)
                ELSE IF p > 1 THEN 1 .. p - 1 ELSE {p}
    IN  mean[p] = <<AmountOf(base), Cardinality(base)>>
=============================================================================
