--------------------------- MODULE PromotionDecision ---------------------------
(***************************************************************************)
(* From the rows of the test part to the champion: the metrics of a        *)
(* replicate, the interval of the primary bootstrap, the calendar          *)
(* bootstrap that is only a diagnostic, and _promotion_decision.           *)
(*                                                                         *)
(* A probability is its place among the probabilities of its model; what   *)
(* calibration did to the Brier score is either value at the decision.     *)
(* Quotients are pairs of integers.                                        *)
(***************************************************************************)
EXTENDS TransactionMassBlocks, FiniteSets

CONSTANTS Data,      \* rows of test parts: label, and probability of each model
          Budget,    \* review_fraction, as <<numerator, denominator>>
          Quantile,  \* 0.025
          MinDelta,  \* min_capture_delta
          Calendar   \* block_seconds of the diagnostic

Quotients == [1 .. 2 -> Nat]

\* A row of a test part: its label, and where each model puts its probability.
Scored == [positive : BOOLEAN, baseline : Nat, candidate : Nat]

ASSUME PromotionAssumption ==
  /\ Data \subseteq [1 .. MaxTotal -> Scored]
  /\ Budget \in Quotients /\ Budget[1] > 0 /\ Budget[1] <= Budget[2]
  /\ Quantile \in Quotients /\ Quantile[1] > 0 /\ Quantile[1] <= Quantile[2]
  /\ MinDelta \in Quotients /\ MinDelta[2] > 0
  /\ Calendar \in Nat \ {0}
  /\ MinUsed > 0

VARIABLES data,      \* of each row of the test part, label and probabilities
          sample,    \* the rows drawn for the replicate, in order
          deltas,    \* capture uplift of the replicates that are used
          champion   \* and before it, where the decision is

promotion == <<data, sample, deltas, champion>>
promotionVars == <<vars, bootstrap, promotion>>

PromotionInit == /\ EvaluationInit
                 /\ data = <<>>
                 /\ sample = <<>>
                 /\ deltas = <<>>
                 /\ champion = "interval"

-----------------------------------------------------------------------------
(* _metrics, of rows in the order of a sequence s.                         *)

ReviewCount(s) == AtLeast(1, (Len(s) * Budget[1] + Budget[2] - 1) \div Budget[2])

\* argsort of the negated probabilities, of equal ones the earlier first.
Precedes(s, model, j, i) ==
  \/ data[s[j]][model] > data[s[i]][model]
  \/ data[s[j]][model] = data[s[i]][model] /\ j < i

Reviewed(s, model) ==
  {i \in 1 .. Len(s) :
     Cardinality({j \in 1 .. Len(s) : Precedes(s, model, j, i)}) < ReviewCount(s)}

Positives(s) == {i \in 1 .. Len(s) : data[s[i]].positive}

Captured(s, model) == Cardinality(Reviewed(s, model) \cap Positives(s))

\* The candidate's probabilities without the replicate's indices.
DeltaUnpaired(s) ==
  LET all == [i \in 1 .. Len(s) |-> 1 + ((i - 1) % n)]
  IN  <<Cardinality(Reviewed(all, "candidate") \cap Positives(s)) - Captured(s, "baseline"),
        Cardinality(Positives(s))>>

\* The difference of the capture_at_budget of the two models on the same rows.
Delta(s) == <<Captured(s, "candidate") - Captured(s, "baseline"), Cardinality(Positives(s))>>

TestPart == [i \in 1 .. n |-> i]

-----------------------------------------------------------------------------
(* The primary bootstrap.                                                  *)

\* Of an accepted split, every part has both classes.
CallWithData == /\ Call
                /\ \E d \in Data :
                     /\ \E i, j \in 1 .. n' : d[i].positive /\ ~d[j].positive
                     /\ data' = [i \in 1 .. n' |-> d[i]]
                /\ UNCHANGED <<sample, deltas, champion>>

\* The rows of the block that Draw took.
DrawRows == /\ Draw
            /\ \E b \in 1 .. Len(blocks) :
                 /\ rows' = rows + (blocks[b].to - blocks[b].from)
                 /\ sample' = sample \o [i \in 1 .. blocks[b].to - blocks[b].from |->
                                           blocks[b].from + i]
            /\ UNCHANGED <<data, deltas, champion>>

Measure == /\ EndReplicate
           /\ IF Positives(sample) = {}
              THEN used' = used /\ deltas' = deltas
              ELSE used' = used + 1 /\ deltas' = Append(deltas, Delta(sample))
           /\ sample' = <<>>
           /\ UNCHANGED <<data, champion>>

Bootstrap == \/ CallWithData
             \/ DrawRows
             \/ Measure
             \/ /\ \/ Validate
                   \/ AddGroup
                   \/ CloseLast
                   \/ MergeTail
                   \/ KeepTail
                   \/ TooFew
                   \/ Enough
                   \/ TooFewUsed
                   \/ Finish
                /\ UNCHANGED promotion

-----------------------------------------------------------------------------
(* The interval, the diagnostic and the decision.                          *)

Less(p, q) == p[1] * q[2] < q[1] * p[2]

Used == 1 .. Len(deltas)

\* The k-th smallest of the deltas, from k = 0.
Smallest(k) == CHOOSE d \in {deltas[i] : i \in Used} :
                 /\ Cardinality({i \in Used : Less(deltas[i], d)}) <= k
                 /\ Cardinality({i \in Used : ~Less(d, deltas[i])}) > k

\* np.quantile > 0, between two deltas in proportion.
QuantilePositive(q) ==
  LET place == q[1] * (Len(deltas) - 1)
      k     == place \div q[2]
      part  == place % q[2]
      d     == Smallest(k)
      next  == Smallest(AtMost(k + 1, Len(deltas) - 1))
  IN  d[1] * next[2] * (q[2] - part) + next[1] * d[2] * part > 0

DirectionalHigh == QuantilePositive(<<Quantile[2] - Quantile[1], Quantile[2]>>)

Directional == QuantilePositive(Quantile)

\* Rows of one block of calendar time have no positives: a replicate may be of
\* that block only, and every replicate.
EmptyCalendarBlock ==
  \E i \in 1 .. n :
    \A j \in Positives(TestPart) : stream[j] \div Calendar # stream[i] \div Calendar

Diagnose == /\ phase = "done"
            /\ champion = "interval"
            /\ \/ champion' = "diagnosed"
               \/ EmptyCalendarBlock /\ champion' = "failed"
            /\ UNCHANGED <<vars, bootstrap, data, sample, deltas>>

Promotes(calibrated) == /\ ~Less(Delta(TestPart), MinDelta)
                        /\ Directional
                        /\ calibrated

Decide == /\ champion = "diagnosed"
          /\ \E calibrated \in BOOLEAN :
               champion' = IF Promotes(calibrated) THEN "candidate" ELSE "baseline"
          /\ UNCHANGED <<vars, bootstrap, data, sample, deltas>>

Split == /\ phase = "idle"
         /\ Next
         /\ UNCHANGED <<bootstrap, promotion>>

PromotionNext == \/ Split
                 \/ Bootstrap /\ UNCHANGED vars
                 \/ Diagnose
                 \/ Decide

PromotionSpec == PromotionInit /\ [][PromotionNext]_promotionVars

-----------------------------------------------------------------------------
\* The two models put the rows of the test part in the same order.
SameRanking ==
  \A i, j \in 1 .. n :
    data[i].candidate > data[j].candidate <=> data[i].baseline > data[j].baseline

\* What keeps a candidate of the same ranking from promotion.
PromotionInv ==
  /\ data \in [1 .. n -> Scored]
  /\ sample \in Seq(1 .. n)
  /\ deltas \in Seq(Int \X Nat)
  /\ Len(deltas) = used
  /\ phase = "idle" => n = 0 /\ deltas = <<>>
  /\ phase = "done" => used > 0
  /\ SameRanking => \A i \in Used : deltas[i][1] = 0
  /\ champion # "interval" => phase = "done"
  /\ champion = "candidate" => ~SameRanking

\* The candidate is champion only if at most the share of replicates below the
\* quantile, to the next whole one, had no uplift, of replicates enough, and
\* the test part itself has the uplift the experiment asked for.
EvidenceForPromotion ==
  champion = "candidate" =>
    /\ Len(deltas) = used
    /\ used >= MinUsed /\ 2 * used >= Repeats - 1
    /\ (Cardinality({i \in Used : deltas[i][1] <= 0}) - 1) * Quantile[2]
         < Quantile[1] * (used - 1)
    /\ ~Less(Delta(TestPart), MinDelta)

\* A candidate that reviews the same rows is never the champion, whatever is
\* drawn: both models are measured on the same rows of each replicate.
SameRankingNeverPromoted == champion = "candidate" => ~SameRanking

\* A promoted candidate captures more of the test part than the baseline.
PromotedCapturesMore == champion = "candidate" => Delta(TestPart)[1] > 0

\* The diagnostic does not keep the primary interval from deciding.
DiagnosticNeverVetoes == phase = "done" => champion # "failed"
=============================================================================
