-------------------------- MODULE MCPromotionDecision --------------------------
(* Instances of PromotionDecision for TLC. *)
EXTENDS PromotionDecision

\* Fewer times than rows: frames with ties at every requested end, and test
\* parts of one to all different timestamps, in groups below, at and above the
\* target and the minimum tail.
MCTimes == 1 .. 5

Row(positive, baseline, candidate) ==
  [positive |-> positive, baseline |-> baseline, candidate |-> candidate]

\* A positive at every third row; the candidate ranks every positive first, the
\* positives of late rows only, or rows as the baseline does, ties included.
Every(c) == [i \in 1 .. MaxTotal |-> Row(i % 3 = 2, (i + 1) \div 2, c[i])]

MCData == {Every([i \in 1 .. MaxTotal |-> IF i % 3 = 2 THEN 9 ELSE 1]),
           Every([i \in 1 .. MaxTotal |-> IF i = 5 THEN 9 ELSE 10 - i]),
           Every([i \in 1 .. MaxTotal |-> 2 * ((i + 1) \div 2)])}

MCBudget == <<1, 4>>
MCQuantile == <<1, 4>>
MCMinDelta == <<0, 1>>
=============================================================================
