-------------------------- MODULE ChronologicalSplit --------------------------
(***************************************************************************)
(* split_chronologically and split_validation_for_tuning_and_calibration:  *)
(* a frame sorted by time is cut into train, validation and test where a   *)
(* timestamp ends, and validation once more, at a row.                     *)
(*                                                                         *)
(* The configured fractions enter as the positions they ask for: the       *)
(* v0.9.4 runners do not validate them, so that any position is possible.  *)
(***************************************************************************)
EXTENDS Integers

CONSTANTS MaxTotal,   \* bound on the number of rows
          Times,      \* event times
          MinTotal,   \* 200
          MinTrain,   \* 100
          MinPart     \* 50

ASSUME SplitAssumption ==
  /\ MaxTotal \in Nat
  /\ Times \subseteq Nat
  /\ MinTotal \in Nat /\ MinTotal >= 2
  /\ MinTrain \in Nat \ {0}
  /\ MinPart \in Nat \ {0}

VARIABLES total,          \* rows of the frame
          time,           \* of each row, in order
          pc,
          trainEnd,       \* the last row of train
          validationEnd,  \* the last row of validation
          cut,            \* the last row of the tuning half of validation
          error

ends == <<trainEnd, validationEnd, cut>>
vars == <<total, time, pc, ends, error>>

Init == /\ total \in 0 .. MaxTotal
        /\ time \in [1 .. total -> Times]
        /\ \A i, j \in 1 .. total : i <= j => time[i] <= time[j]
        /\ pc = "start"
        /\ trainEnd = 0
        /\ validationEnd = 0
        /\ cut = 0
        /\ error = "none"

-----------------------------------------------------------------------------
Fail(e) == /\ pc' = "failed"
           /\ error' = e
           /\ UNCHANGED <<total, time, ends>>

Go(at) == /\ pc' = at
          /\ UNCHANGED <<total, time, error>>

AtLeast(a, b) == IF a < b THEN b ELSE a
AtMost(a, b) == IF a > b THEN b ELSE a

GroupEndAtRow(position, e) == e = AtLeast(1, AtMost(position, total - 1))

\* e is the last row with the timestamp of the requested position, which is
\* moved into the frame first (searchsorted, side="right").
GroupEnd(position, e) ==
  LET boundary == time[AtLeast(1, AtMost(position, total - 1))]
  IN  \A i \in 1 .. total : i <= e <=> time[i] <= boundary

TooSmall == /\ pc = "start"
            /\ total < MinTotal
            /\ Fail("too small")

EndTrain == /\ pc = "start"
            /\ total >= MinTotal
            /\ \E requested, e \in 0 .. total : GroupEnd(requested, e) /\ trainEnd' = e
            /\ Go("train")
            /\ UNCHANGED <<validationEnd, cut>>

EndValidation == /\ pc = "train"
                 /\ \E requested, e \in 0 .. total :
                      /\ GroupEnd(AtLeast(requested, trainEnd + 1), e)
                      /\ validationEnd' = e
                 /\ Go("check")
                 /\ UNCHANGED <<trainEnd, cut>>

NoTest == validationEnd >= total
TooSmallParts == \/ trainEnd < MinTrain
                 \/ validationEnd - trainEnd < MinPart
                 \/ total - validationEnd < MinPart

\* train.max() < validation.min() < test.min()
Ordered == /\ time[trainEnd] < time[trainEnd + 1]
           /\ time[validationEnd] < time[validationEnd + 1]

CheckPasses == ~NoTest /\ ~TooSmallParts /\ Ordered

Reason == IF NoTest THEN "no test" ELSE IF TooSmallParts THEN "small parts" ELSE "leaked"

CheckFails == /\ pc = "check"
              /\ ~CheckPasses
              /\ Fail(Reason)

Accept == /\ pc = "check"
          /\ CheckPasses
          /\ Go("split")
          /\ UNCHANGED ends

\* The validation rows are cut at a row, wherever the fraction falls.
CutValidation == /\ pc = "split"
                 /\ \E n \in 0 .. validationEnd - trainEnd : cut' = trainEnd + n
                 /\ Go("cut")
                 /\ UNCHANGED <<trainEnd, validationEnd>>

CutFails == /\ pc = "cut"
            /\ cut - trainEnd < MinPart \/ validationEnd - cut < MinPart
            /\ Fail("small parts")

AcceptCut == /\ pc = "cut"
             /\ cut - trainEnd >= MinPart
             /\ validationEnd - cut >= MinPart
             /\ Go("done")
             /\ UNCHANGED ends

\* A part without both classes: labels are not in the model.
OneClass == /\ pc \in {"split", "cut"}
            /\ Fail("one class")

Next == \/ TooSmall
        \/ EndTrain
        \/ EndValidation
        \/ CheckFails
        \/ Accept
        \/ CutValidation
        \/ CutFails
        \/ AcceptCut
        \/ OneClass

Spec == Init /\ [][Next]_vars

-----------------------------------------------------------------------------
(* Type invariant.                                                         *)
TypeOK == /\ total \in 0 .. MaxTotal
          /\ time \in [1 .. total -> Times]
          /\ pc \in {"start", "train", "check", "split", "cut", "done", "failed"}
          /\ trainEnd \in 0 .. total
          /\ validationEnd \in 0 .. total
          /\ cut \in 0 .. total

\* The rows up to e and those after it share no timestamp.
Separates(e) == \A i, j \in 1 .. total : i <= e /\ e < j => time[i] < time[j]

\* What the ends are, before anything is checked.
SplitInv == /\ TypeOK
            /\ \A i, j \in 1 .. total : i <= j => time[i] <= time[j]
            /\ pc = "start" => trainEnd = 0
            /\ pc \in {"train", "check"} => total >= MinTotal
            /\ pc \in {"train", "check", "split", "cut", "done"} => Separates(trainEnd)
            /\ pc \in {"check", "split", "cut", "done"} => Separates(validationEnd)
            /\ pc \in {"split", "cut", "done"} => trainEnd < validationEnd
            /\ error # "leaked"

\* Moving each requested end to the end of its timestamp is enough: the last
\* check of split_chronologically never finds a timestamp in two partitions,
\* whatever the fractions and however long the ties.
NeverLeaks == error # "leaked"

\* "Chronological partitions use whole timestamp groups."
WholeTimestampGroups ==
  pc = "done" => Separates(trainEnd) /\ Separates(cut) /\ Separates(validationEnd)
=============================================================================
