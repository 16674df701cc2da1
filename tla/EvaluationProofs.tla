---------------------------- MODULE EvaluationProofs ----------------------------
(***************************************************************************)
(* The split, the blocks and the decision, for frames and test parts of    *)
(* any size, any fractions and any target.                                 *)
(*                                                                         *)
(* An end that was moved to the end of its timestamp separates the rows up *)
(* to it from those after it (EndSeparates), and a separating end that is  *)
(* inside the frame passes the last check of the split.  Blocks tile the   *)
(* test part, keep timestamps whole, and none is smaller than the minimum  *)
(* tail.  No candidate is promoted for luck of the draw, nor for reviewing *)
(* more rows than the baseline.                                            *)
(***************************************************************************)
EXTENDS PromotionDecision, TLAPS, SequenceTheorems, FiniteSetTheorems, FunctionTheorems

USE SplitAssumption, BlockAssumption

-----------------------------------------------------------------------------
(* The split.                                                              *)

LEMMA EndSeparates ==
  ASSUME TypeOK, NEW position \in Nat, NEW e \in 0 .. total, total >= 2, GroupEnd(position, e)
  PROVE  Separates(e)
<1> DEFINE place == AtLeast(1, AtMost(position, total - 1))
           boundary == time[place]
<1>1. total \in Nat /\ place \in 1 .. total
  BY DEF TypeOK, AtLeast, AtMost
<1>2. \A i \in 1 .. total : time[i] \in Nat
  BY DEF TypeOK
<1>3. boundary \in Nat /\ \A i \in 1 .. total : i <= e <=> time[i] <= boundary
  BY <1>1, <1>2 DEF GroupEnd
<1> HIDE DEF boundary
<1> SUFFICES ASSUME NEW i \in 1 .. total, NEW j \in 1 .. total, i <= e, e < j
             PROVE  time[i] < time[j]
  BY DEF Separates
<1>4. time[i] <= boundary /\ ~(time[j] <= boundary)
  BY <1>1, <1>3
<1> QED
  BY <1>2, <1>3, <1>4

LEMMA SplitSteps == SplitInv /\ [Next]_vars => SplitInv'
<1> SUFFICES ASSUME SplitInv, [Next]_vars
             PROVE  SplitInv'
  OBVIOUS
<1> USE DEF SplitInv
<1>1. CASE TooSmall
  BY <1>1 DEF TooSmall, Fail, ends, TypeOK, Separates
<1>2. CASE EndTrain
  <2>1. PICK requested \in 0 .. total, e \in 0 .. total :
          GroupEnd(requested, e) /\ trainEnd' = e
    BY <1>2 DEF EndTrain
  <2>2. total >= 2 /\ total \in Nat
    BY <1>2 DEF EndTrain, TypeOK
  <2>3. Separates(e)
    BY <2>1, <2>2, EndSeparates
  <2> QED
    BY <1>2, <2>1, <2>3 DEF EndTrain, Go, TypeOK, Separates
<1>3. CASE EndValidation
  <2>1. PICK requested \in 0 .. total, e \in 0 .. total :
          GroupEnd(AtLeast(requested, trainEnd + 1), e) /\ validationEnd' = e
    BY <1>3 DEF EndValidation
  <2>2. total >= 2 /\ total \in Nat /\ AtLeast(requested, trainEnd + 1) \in Nat
    BY <1>3 DEF EndValidation, TypeOK, AtLeast
  <2>3. Separates(e)
    BY <2>1, <2>2, EndSeparates
  <2> QED
    BY <1>3, <2>1, <2>3 DEF EndValidation, Go, TypeOK, Separates
<1>4. CASE CheckFails
  <2>1. Separates(trainEnd) /\ Separates(validationEnd)
    BY <1>4 DEF CheckFails
  <2>2. Reason # "leaked"
    <3> SUFFICES ASSUME ~NoTest, ~TooSmallParts
                 PROVE  Ordered
      BY <1>4 DEF CheckFails, CheckPasses, Reason
    <3>1. total \in Nat /\ trainEnd \in 0 .. total /\ validationEnd \in 0 .. total
      BY DEF TypeOK
    <3>2. trainEnd \in 1 .. total /\ trainEnd + 1 \in 1 .. total
      BY <3>1 DEF NoTest, TooSmallParts
    <3>3. validationEnd \in 1 .. total /\ validationEnd + 1 \in 1 .. total
      BY <3>1, <3>2 DEF NoTest, TooSmallParts
    <3> QED
      BY <2>1, <3>1, <3>2, <3>3 DEF Separates, Ordered
  <2> QED
    BY <1>4, <2>2 DEF CheckFails, Fail, ends, TypeOK, Separates
<1>5. CASE Accept
  BY <1>5 DEF Accept, CheckPasses, Go, ends, TypeOK, Separates, NoTest, TooSmallParts
<1>6. CASE CutValidation
  <2>1. cut' \in 0 .. total
    BY <1>6 DEF CutValidation, TypeOK
  <2> QED
    BY <1>6, <2>1 DEF CutValidation, Go, TypeOK, Separates
<1>7. CASE CutFails
  BY <1>7 DEF CutFails, Fail, ends, TypeOK, Separates
<1>8. CASE AcceptCut
  BY <1>8 DEF AcceptCut, Go, ends, TypeOK, Separates
<1>9. CASE OneClass
  BY <1>9 DEF OneClass, Fail, ends, TypeOK, Separates
<1>10. CASE UNCHANGED vars
  BY <1>10 DEF vars, ends, TypeOK, Separates
<1> QED
  BY <1>1, <1>2, <1>3, <1>4, <1>5, <1>6, <1>7, <1>8, <1>9, <1>10 DEF Next

\* The ends of the partitions separate timestamps as soon as they are known.
THEOREM SplitInvariant == Spec => []SplitInv
<1>1. Init => SplitInv
  BY DEF Init, SplitInv, TypeOK
<1> QED
  BY <1>1, SplitSteps, PTL DEF Spec

\* The defensive check of split_chronologically is never what fails.
THEOREM LeakCheckNeverFails == Spec => []NeverLeaks
<1>1. SplitInv => NeverLeaks
  BY DEF SplitInv, NeverLeaks
<1> QED
  BY <1>1, SplitInvariant, PTL
-----------------------------------------------------------------------------
(* The blocks.                                                             *)

LEMMA MinimumTailType == MinimumTail \in Nat /\ MinimumTail > 0
BY DEF MinimumTail

\* The end of a group separates timestamps.
LEMMA GroupSeparates ==
  ASSUME BootstrapTypeOK, InOrder, at < n, NEW e \in at + 1 .. n, Group(e)
  PROVE  Whole(e)
<1>1. n \in Nat /\ at \in Nat /\ \A i \in 1 .. n : stream[i] \in Nat
  <2>1. n \in Nat /\ at \in 0 .. n /\ stream \in [1 .. n -> Times]
    BY DEF BootstrapTypeOK
  <2>2. \A i \in 1 .. n : stream[i] \in Nat
    BY <2>1
  <2>3. at \in Nat
    BY <2>1
  <2> QED
    BY <2>1, <2>2, <2>3
<1> SUFFICES ASSUME NEW i \in 1 .. n, NEW j \in 1 .. n, i <= e, e < j
             PROVE  stream[i] < stream[j]
  BY DEF Whole
<1>2. e \in 1 .. n /\ e + 1 \in 1 .. n /\ e < n /\ at + 1 \in 1 .. n
  BY <1>1
<1>3. stream[e] = stream[at + 1] /\ stream[e + 1] # stream[at + 1]
  BY <1>1, <1>2 DEF Group
<1>4. stream[i] <= stream[e] /\ stream[e] <= stream[e + 1] /\ stream[e + 1] <= stream[j]
  BY <1>1, <1>2 DEF InOrder
<1> QED
  BY <1>1, <1>2, <1>3, <1>4

\* One more block at the end of a tiling.
LEMMA TileAppend ==
  ASSUME NEW s \in Seq(Blocks), NEW f \in 0 .. n, NEW t \in 0 .. n, n \in Nat, f < t,
         NEW r, r = Append(s, [from |-> f, to |-> t])
  PROVE  /\ r \in Seq(Blocks)
         /\ Len(r) = Len(s) + 1
         /\ \A b \in 1 .. Len(s) : r[b] = s[b]
         /\ r[Len(s) + 1] = [from |-> f, to |-> t]
BY DEF Blocks

LEMMA InitBlocks == EvaluationInit => BlocksInv
BY DEF EvaluationInit, BootstrapInit, BlocksInv, BootstrapTypeOK, Tile

\* The split sees nothing of the bootstrap that follows it.
LEMMA EvaluationSplits == EvaluationSpec => Spec
<1>1. EvaluationInit => Init
  BY DEF EvaluationInit
<1>2. [EvaluationNext]_<<vars, bootstrap>> => [Next]_vars
  BY DEF EvaluationNext
<1> QED
  BY <1>1, <1>2, PTL DEF EvaluationSpec, Spec

LEMMA AddGroupKeeps == BlocksInv /\ AddGroup => BlocksInv'
<1> SUFFICES ASSUME BlocksInv, AddGroup
             PROVE  BlocksInv'
  OBVIOUS
<1>1. PICK e \in at + 1 .. n :
        /\ Group(e)
        /\ at' = e
        /\ IF SizeReached(e)
           THEN /\ blocks' = Append(blocks, [from |-> start, to |-> at])
                /\ start' = at
           ELSE UNCHANGED <<blocks, start>>
  BY DEF AddGroup
<1>2. /\ phase = "group" /\ phase' = "group" /\ at < n /\ BootstrapTypeOK /\ InOrder
      /\ n' = n /\ stream' = stream /\ UNCHANGED replicate
      /\ n \in Nat /\ at \in 0 .. n /\ start \in 0 .. n /\ blocks \in Seq(Blocks)
      /\ start <= at /\ (start < at \/ at = 0) /\ Whole(start) /\ Whole(at)
      /\ (Len(blocks) = 0 => start = 0) /\ Tile(start)
      /\ \A b \in 1 .. Len(blocks) : blocks[b].to - blocks[b].from >= MinimumTail
  BY DEF AddGroup, BlocksInv, BootstrapTypeOK
<1>3. Whole(e) /\ e \in 0 .. n /\ at < e
  BY <1>1, <1>2, GroupSeparates
<1>4. \A x : Whole(x)' = Whole(x)
  BY <1>2 DEF Whole
<1>5. InOrder'
  BY <1>2 DEF InOrder
<1>6. CASE SizeReached(e)
  <2>1. start < at /\ at - start >= MinimumTail
    BY <1>6, <1>2 DEF SizeReached
  <2>2. /\ blocks' \in Seq(Blocks)
        /\ Len(blocks') = Len(blocks) + 1
        /\ \A b \in 1 .. Len(blocks) : blocks'[b] = blocks[b]
        /\ blocks'[Len(blocks) + 1] = [from |-> start, to |-> at]
    BY <1>1, <1>2, <1>6, <2>1, TileAppend
  <2>3. Len(blocks) \in Nat
    BY <1>2
  <2>4. \A b \in 1 .. Len(blocks') : b \in 1 .. Len(blocks) \/ b = Len(blocks) + 1
    BY <2>2, <2>3
  <2>5. \A b \in 1 .. Len(blocks') :
          /\ blocks'[b].from < blocks'[b].to
          /\ Whole(blocks'[b].to)
          /\ blocks'[b].to - blocks'[b].from >= MinimumTail
    BY <1>2, <2>1, <2>2, <2>4 DEF Tile
  <2>6. \A b \in 1 .. Len(blocks') - 1 : blocks'[b].to = blocks'[b + 1].from
    <3> SUFFICES ASSUME NEW b \in 1 .. Len(blocks)
                 PROVE  blocks'[b].to = blocks'[b + 1].from
      BY <2>2, <2>3
    <3>1. CASE b = Len(blocks)
      BY <3>1, <1>2, <2>2, <2>3 DEF Tile
    <3>2. CASE b # Len(blocks)
      <4>1. b \in 1 .. Len(blocks) - 1 /\ b + 1 \in 1 .. Len(blocks)
        BY <3>2, <2>3
      <4> QED
        BY <4>1, <1>2, <2>2 DEF Tile
    <3> QED
      BY <3>1, <3>2
  <2>7. blocks'[1].from = 0 /\ blocks'[Len(blocks')].to = at
    <3>1. CASE Len(blocks) = 0
      BY <3>1, <1>2, <2>2
    <3>2. CASE Len(blocks) # 0
      BY <3>2, <1>2, <2>2, <2>3 DEF Tile
    <3> QED
      BY <3>1, <3>2
  <2>8. Tile(start)'
    BY <1>1, <1>4, <1>6, <2>5, <2>6, <2>7 DEF Tile
  <2>9. BootstrapTypeOK'
    BY <1>1, <1>2, <1>3, <1>6, <2>2 DEF BootstrapTypeOK, Blocks, replicate
  <2> QED
    BY <1>1, <1>2, <1>3, <1>4, <1>5, <1>6, <2>2, <2>3, <2>5, <2>8, <2>9
    DEF BlocksInv, MinimumTail
<1>7. CASE ~SizeReached(e)
  <2>1. UNCHANGED <<blocks, start>>
    BY <1>1, <1>7
  <2>2. BootstrapTypeOK'
    BY <1>1, <1>2, <1>3, <2>1 DEF BootstrapTypeOK, Blocks, replicate
  <2>3. Tile(start)'
    BY <1>2, <1>4, <2>1 DEF Tile
  <2> QED
    BY <1>1, <1>2, <1>3, <1>4, <1>5, <2>1, <2>2, <2>3 DEF BlocksInv, MinimumTail
<1> QED
  BY <1>6, <1>7

LEMMA CloseLastKeeps == BlocksInv /\ CloseLast => BlocksInv'
<1> SUFFICES ASSUME BlocksInv, CloseLast
             PROVE  BlocksInv'
  OBVIOUS
<1>1. /\ phase = "group" /\ phase' = "tail" /\ at = n /\ BootstrapTypeOK /\ InOrder /\ n > 0
      /\ n' = n /\ stream' = stream /\ at' = at /\ start' = n /\ UNCHANGED replicate
      /\ blocks' = Append(blocks, [from |-> start, to |-> n])
      /\ n \in Nat /\ start \in 0 .. n /\ start < n /\ blocks \in Seq(Blocks)
      /\ (Len(blocks) = 0 => start = 0) /\ Tile(start)
      /\ \A b \in 1 .. Len(blocks) : blocks[b].to - blocks[b].from >= MinimumTail
  BY DEF CloseLast, BlocksInv, BootstrapTypeOK
<1>2. /\ blocks' \in Seq(Blocks)
      /\ Len(blocks') = Len(blocks) + 1
      /\ \A b \in 1 .. Len(blocks) : blocks'[b] = blocks[b]
      /\ blocks'[Len(blocks) + 1] = [from |-> start, to |-> n]
      /\ Len(blocks) \in Nat
  BY <1>1, TileAppend
<1>3. Whole(n) /\ \A x : Whole(x)' = Whole(x)
  BY <1>1 DEF Whole
<1>4. \A b \in 1 .. Len(blocks') : /\ blocks'[b].from < blocks'[b].to
                                   /\ Whole(blocks'[b].to)
  <2>1. \A b \in 1 .. Len(blocks') : b \in 1 .. Len(blocks) \/ b = Len(blocks) + 1
    BY <1>2
  <2> QED
    BY <1>1, <1>2, <1>3, <2>1 DEF Tile
<1>5. \A b \in 1 .. Len(blocks') - 1 : blocks'[b].to = blocks'[b + 1].from
  <2> SUFFICES ASSUME NEW b \in 1 .. Len(blocks)
               PROVE  blocks'[b].to = blocks'[b + 1].from
    BY <1>2
  <2>1. CASE b = Len(blocks)
    BY <2>1, <1>1, <1>2 DEF Tile
  <2>2. CASE b # Len(blocks)
    <3>1. b \in 1 .. Len(blocks) - 1 /\ b + 1 \in 1 .. Len(blocks)
      BY <2>2, <1>2
    <3> QED
      BY <3>1, <1>1, <1>2 DEF Tile
  <2> QED
    BY <2>1, <2>2
<1>6. blocks'[1].from = 0 /\ blocks'[Len(blocks')].to = n
  <2>1. CASE Len(blocks) = 0
    BY <2>1, <1>1, <1>2
  <2>2. CASE Len(blocks) # 0
    BY <2>2, <1>1, <1>2 DEF Tile
  <2> QED
    BY <2>1, <2>2
<1>7. Tile(start)'
  BY <1>1, <1>3, <1>4, <1>5, <1>6 DEF Tile
<1>8. BootstrapTypeOK'
  BY <1>1, <1>2 DEF BootstrapTypeOK, Blocks, replicate
<1>9. InOrder'
  BY <1>1 DEF InOrder
<1>10. \A b \in 1 .. Len(blocks') - 1 : blocks'[b].to - blocks'[b].from >= MinimumTail
  BY <1>1, <1>2
<1> QED
  BY <1>1, <1>2, <1>7, <1>8, <1>9, <1>10 DEF BlocksInv, MinimumTail

LEMMA MergeTailKeeps == BlocksInv /\ MergeTail => BlocksInv'
<1> SUFFICES ASSUME BlocksInv, MergeTail
             PROVE  BlocksInv'
  OBVIOUS
<1> DEFINE m == Len(blocks) - 1
<1>1. /\ phase = "tail" /\ phase' = "count" /\ BootstrapTypeOK /\ InOrder /\ n > 0 /\ n \in Nat
      /\ n' = n /\ stream' = stream /\ at' = at /\ start' = start /\ start = n
      /\ UNCHANGED replicate /\ blocks \in Seq(Blocks) /\ Len(blocks) \in Nat
      /\ Len(blocks) >= 2 /\ m \in Nat /\ m >= 1 /\ Tile(n)
      /\ \A b \in 1 .. m : blocks[b].to - blocks[b].from >= MinimumTail
      /\ blocks' = Append(SubSeq(blocks, 1, m - 1), [from |-> blocks[m].from, to |-> n])
  <2>1. /\ phase = "tail" /\ phase' = "count" /\ n' = n /\ stream' = stream /\ at' = at
        /\ start' = start /\ UNCHANGED replicate /\ Len(blocks) >= 2
        /\ blocks' = Append(SubSeq(blocks, 1, m - 1), [from |-> blocks[m].from, to |-> n])
    BY DEF MergeTail, ShortTail
  <2>2. BootstrapTypeOK /\ InOrder /\ n > 0 /\ start = n /\ Tile(n)
    BY <2>1 DEF BlocksInv
  <2>3. n \in Nat /\ blocks \in Seq(Blocks) /\ Len(blocks) \in Nat
    BY <2>2 DEF BootstrapTypeOK
  <2>4. \A b \in 1 .. m : blocks[b].to - blocks[b].from >= MinimumTail
    BY <2>1 DEF BlocksInv
  <2> QED
    BY <2>1, <2>2, <2>3, <2>4
<1> HIDE DEF m
<1>2. /\ SubSeq(blocks, 1, m - 1) \in Seq(Blocks)
      /\ Len(SubSeq(blocks, 1, m - 1)) = m - 1
      /\ \A b \in 1 .. m - 1 : SubSeq(blocks, 1, m - 1)[b] = blocks[b]
  <2>1. m - 1 \in Int /\ 1 \in Int /\ (m - 1) - 1 + 1 = m - 1
    BY <1>1
  <2>2. \A b \in 1 .. m - 1 : b \in 1 .. Len(blocks) /\ blocks[b] \in Blocks /\ 1 + b - 1 = b
    BY <1>1 DEF m
  <2>3. /\ SubSeq(blocks, 1, m - 1) \in Seq(Blocks)
        /\ Len(SubSeq(blocks, 1, m - 1)) = IF 1 <= m - 1 THEN (m - 1) - 1 + 1 ELSE 0
        /\ \A b \in 1 .. (m - 1) - 1 + 1 : SubSeq(blocks, 1, m - 1)[b] = blocks[1 + b - 1]
    BY <2>1, <2>2, SubSeqProperties
  <2> QED
    BY <1>1, <2>1, <2>2, <2>3
<1>3. \A b \in 1 .. Len(blocks) : /\ blocks[b] \in Blocks
                                  /\ blocks[b].from \in 0 .. n
                                  /\ blocks[b].to \in 0 .. n
  <2>1. \A b \in 1 .. Len(blocks) : blocks[b] \in Blocks
    BY <1>1
  <2> QED
    BY <2>1 DEF Blocks
<1>4. m \in 1 .. Len(blocks) /\ blocks[m].from < blocks[m].to
  BY <1>1 DEF Tile, m
<1>5. /\ blocks' \in Seq(Blocks)
      /\ Len(blocks') = m
      /\ \A b \in 1 .. m - 1 : blocks'[b] = blocks[b]
      /\ blocks'[m] = [from |-> blocks[m].from, to |-> n]
      /\ blocks'[m].from = blocks[m].from /\ blocks'[m].to = n
  <2>1. blocks[m].from \in 0 .. n /\ n \in 0 .. n /\ blocks[m].from < n
    BY <1>1, <1>3, <1>4
  <2>2. m - 1 \in Nat /\ (m - 1) + 1 = m
    BY <1>1
  <2> DEFINE s == SubSeq(blocks, 1, m - 1)
             f == blocks[m].from
  <2> HIDE DEF s, f
  <2>3. /\ s \in Seq(Blocks) /\ Len(s) = m - 1 /\ \A b \in 1 .. m - 1 : s[b] = blocks[b]
        /\ blocks' = Append(s, [from |-> f, to |-> n])
        /\ f \in 0 .. n /\ n \in 0 .. n /\ f < n /\ n \in Nat
    BY <1>1, <1>2, <2>1 DEF s, f
  <2>4. /\ blocks' \in Seq(Blocks)
        /\ Len(blocks') = Len(s) + 1
        /\ \A b \in 1 .. Len(s) : blocks'[b] = s[b]
        /\ blocks'[Len(s) + 1] = [from |-> f, to |-> n]
    BY <2>3, TileAppend
  <2> QED
    BY <2>2, <2>3, <2>4 DEF f
<1>6. Whole(n) /\ \A x : Whole(x)' = Whole(x)
  BY <1>1 DEF Whole
<1>7. /\ blocks[m].from \in 0 .. n /\ blocks[m].to \in 0 .. n
      /\ blocks[m].from < blocks[m].to
      /\ blocks[m].to - blocks[m].from >= MinimumTail
  <2>1. m \in 1 .. m
    BY <1>1
  <2> QED
    BY <1>1, <1>3, <1>4, <2>1
<1>8. \A b \in 1 .. m : /\ blocks'[b].from < blocks'[b].to
                        /\ Whole(blocks'[b].to)
                        /\ blocks'[b].to - blocks'[b].from >= MinimumTail
  <2> SUFFICES ASSUME NEW b \in 1 .. m
               PROVE  /\ blocks'[b].from < blocks'[b].to
                      /\ Whole(blocks'[b].to)
                      /\ blocks'[b].to - blocks'[b].from >= MinimumTail
    OBVIOUS
  <2>1. CASE b = m
    BY <2>1, <1>1, <1>5, <1>6, <1>7, MinimumTailType
  <2>2. CASE b # m
    <3>1. b \in 1 .. m - 1 /\ b \in 1 .. Len(blocks)
      BY <2>2, <1>1 DEF m
    <3> QED
      BY <3>1, <1>1, <1>5 DEF Tile
  <2> QED
    BY <2>1, <2>2
<1>9. \A b \in 1 .. m - 1 : blocks'[b].to = blocks'[b + 1].from
  <2> SUFFICES ASSUME NEW b \in 1 .. m - 1
               PROVE  blocks'[b].to = blocks'[b + 1].from
    OBVIOUS
  <2>1. b \in 1 .. Len(blocks) - 1 /\ blocks[b].to = blocks[b + 1].from
    BY <1>1 DEF Tile, m
  <2>2. blocks'[b + 1].from = blocks[b + 1].from
    <3>1. CASE b + 1 = m
      BY <3>1, <1>5
    <3>2. CASE b + 1 # m
      <4>1. b + 1 \in 1 .. m - 1
        BY <3>2, <1>1
      <4> QED
        BY <4>1, <1>5
    <3> QED
      BY <3>1, <3>2
  <2> QED
    BY <2>1, <2>2, <1>5
<1>10. blocks'[1].from = 0 /\ blocks'[Len(blocks')].to = n
  <2>1. blocks[1].from = 0
    BY <1>1 DEF Tile
  <2>2. CASE m = 1
    BY <2>1, <2>2, <1>5
  <2>3. CASE m # 1
    <3>1. 1 \in 1 .. m - 1
      BY <2>3, <1>1
    <3> QED
      BY <3>1, <2>1, <1>5
  <2> QED
    BY <2>2, <2>3
<1>11. Tile(start)'
  BY <1>1, <1>5, <1>6, <1>8, <1>9, <1>10 DEF Tile
<1>12. BootstrapTypeOK'
  BY <1>1, <1>5 DEF BootstrapTypeOK, Blocks, replicate
<1>13. InOrder'
  BY <1>1 DEF InOrder
<1> QED
  BY <1>1, <1>5, <1>8, <1>11, <1>12, <1>13 DEF BlocksInv, MinimumTail

LEMMA KeepTailKeeps == BlocksInv /\ KeepTail => BlocksInv'
<1> SUFFICES ASSUME BlocksInv, KeepTail
             PROVE  BlocksInv'
  OBVIOUS
<1>1. /\ phase = "tail" /\ phase' = "count" /\ ~ShortTail /\ BootstrapTypeOK /\ Tile(start) /\ start = n
      /\ UNCHANGED <<n, stream, start, at, blocks, replicate>>
      /\ Len(blocks) \in Nat /\ Len(blocks) > 0 /\ n > 0 /\ InOrder
      /\ \A b \in 1 .. Len(blocks) - 1 : blocks[b].to - blocks[b].from >= MinimumTail
  BY DEF KeepTail, BlocksInv, BootstrapTypeOK
<1>2. ASSUME Len(blocks) >= 2, NEW b \in 1 .. Len(blocks)
      PROVE  blocks[b].to - blocks[b].from >= MinimumTail
  <2>1. CASE b = Len(blocks)
    <3>1. blocks[b].to = n /\ ~(n - blocks[b].from < MinimumTail)
      BY <2>1, <1>1, <1>2 DEF ShortTail, Tile
    <3>2. blocks[b].from \in Nat /\ n \in Nat
      <4>1. blocks[b] \in Blocks /\ n \in Nat
        BY <1>1 DEF BootstrapTypeOK
      <4> QED
        BY <4>1 DEF Blocks
    <3> QED
      BY <3>1, <3>2, MinimumTailType
  <2>2. CASE b # Len(blocks)
    BY <2>2, <1>1
  <2> QED
    BY <2>1, <2>2
<1>3. BootstrapTypeOK' /\ Tile(start)' /\ InOrder'
  BY <1>1 DEF BootstrapTypeOK, Blocks, replicate, Tile, Whole, InOrder
<1> QED
  BY <1>1, <1>2, <1>3 DEF BlocksInv, MinimumTail

LEMMA NextBlocks == TypeOK /\ BlocksInv /\ [EvaluationNext]_<<vars, bootstrap>> => BlocksInv'
<1> SUFFICES ASSUME TypeOK, BlocksInv, [EvaluationNext]_<<vars, bootstrap>>
             PROVE  BlocksInv'
  OBVIOUS
<1> DEFINE Same == UNCHANGED <<n, stream, start, at, blocks>>
<1>1. ASSUME Same
      PROVE  /\ Tile(start)' = Tile(start)
             /\ InOrder' = InOrder
             /\ \A e : Whole(e)' = Whole(e)
  BY <1>1 DEF Tile, Whole, InOrder
<1>2. CASE Refuse
  BY <1>2 DEF Refuse, Fails, BlocksInv, BootstrapTypeOK, Blocks, replicate
<1>3. CASE Validate
  BY <1>3, <1>1 DEF Validate, BlocksInv, BootstrapTypeOK, Blocks, replicate, Tile, Whole
<1>4. CASE TooFew
  BY <1>4 DEF TooFew, Fails, BlocksInv, BootstrapTypeOK, Blocks, replicate
<1>5. CASE Enough
  BY <1>5, <1>1 DEF Enough, BlocksInv, BootstrapTypeOK, Blocks, replicate, MinimumTail
<1>6. CASE Draw
  <2>1. PICK b \in 1 .. Len(blocks) : rows' = rows + (blocks[b].to - blocks[b].from)
    BY <1>6 DEF Draw
  <2>2. blocks[b].to \in Nat /\ blocks[b].from \in Nat /\ blocks[b].from < blocks[b].to
    <3>1. blocks[b] \in Blocks /\ n \in Nat
      BY DEF BlocksInv, BootstrapTypeOK
    <3>2. blocks[b].from < blocks[b].to
      BY <1>6 DEF Draw, BlocksInv, Tile
    <3> QED
      BY <3>1, <3>2 DEF Blocks
  <2>3. rows' \in Nat
    BY <2>1, <2>2 DEF BlocksInv, BootstrapTypeOK
  <2> QED
    BY <1>6, <1>1, <2>3 DEF Draw, BlocksInv, BootstrapTypeOK, Blocks, MinimumTail
<1>7. CASE EndReplicate
  BY <1>7, <1>1 DEF EndReplicate, BlocksInv, BootstrapTypeOK, Blocks, MinimumTail
<1>8. CASE Finish
  BY <1>8, <1>1 DEF Finish, BlocksInv, BootstrapTypeOK, Blocks, replicate, MinimumTail
<1>9. CASE UNCHANGED bootstrap
  BY <1>9, <1>1 DEF bootstrap, BlocksInv, BootstrapTypeOK, Blocks, replicate, MinimumTail
<1>10. CASE TooFewUsed
  BY <1>10 DEF TooFewUsed, Fails, BlocksInv, BootstrapTypeOK, Blocks, replicate
<1>11. CASE Call
  <2>1. total - validationEnd \in Nat
    BY DEF TypeOK
  <2>2. stream' \in [1 .. n' -> Times]
    BY <1>11, <2>1 DEF Call, TypeOK
  <2> QED
    BY <1>11, <2>1, <2>2 DEF Call, BlocksInv, BootstrapTypeOK, Blocks, replicate
<1> QED
  BY <1>2, <1>3, <1>4, <1>5, <1>6, <1>7, <1>8, <1>9, <1>10, <1>11, AddGroupKeeps,
     CloseLastKeeps, MergeTailKeeps, KeepTailKeeps DEF EvaluationNext, BootstrapNext

\* What the blocking loop maintains.
THEOREM BlocksInvariant == EvaluationSpec => []BlocksInv
<1>1. SplitInv => TypeOK
  BY DEF SplitInv
<1> QED
  BY <1>1, EvaluationSplits, SplitInvariant, InitBlocks, NextBlocks, PTL DEF EvaluationSpec

\* The bootstrap draws from blocks that cover the test stream once, in order,
\* at least two of them, each of whole timestamps.
THEOREM BlocksTile == EvaluationSpec => []BlocksTileTheStream
<1>1. BlocksInv => BlocksTileTheStream
  BY DEF BlocksInv, BlocksTileTheStream
<1> QED
  BY <1>1, BlocksInvariant, PTL

\* None of them is smaller than minimum_tail_rows.
THEOREM BlocksAreLarge == EvaluationSpec => []NoSmallBlock
<1>1. BlocksInv => NoSmallBlock
  BY DEF BlocksInv, NoSmallBlock
<1> QED
  BY <1>1, BlocksInvariant, PTL


\* A replicate stops at the first block that gives it enough rows.
MassInv ==
  /\ ReplicateHasTargetMass
  /\ rows \in Nat /\ sampled \in Nat
  /\ rows > 0 \/ sampled > 0 => phase \in {"draw", "done", "failed"}
  /\ rows >= SampleSize =>
       \E b \in 1 .. Len(blocks) : rows - SampleSize < blocks[b].to - blocks[b].from

LEMMA NextMass == BlocksInv /\ MassInv /\ [EvaluationNext]_<<vars, bootstrap>> => MassInv'
<1> SUFFICES ASSUME BlocksInv, MassInv, EvaluationNext \/ UNCHANGED <<vars, bootstrap>>
             PROVE  MassInv'
  OBVIOUS
<1>1. SampleSize \in Nat /\ SampleSize > 0
  OBVIOUS
<1>2. CASE Draw
  <2>1. PICK b \in 1 .. Len(blocks) : rows' = rows + (blocks[b].to - blocks[b].from)
    BY <1>2 DEF Draw
  <2>2. UNCHANGED <<phase, blocks, sampled>> /\ phase = "draw" /\ rows < SampleSize
    BY <1>2 DEF Draw
  <2> DEFINE size == blocks[b].to - blocks[b].from
  <2>3. size \in Nat
    <3>1. blocks[b] \in Blocks /\ n \in Nat
      BY ElementOfSeq DEF BlocksInv, BootstrapTypeOK
    <3>2. blocks[b].from < blocks[b].to
      BY <2>2 DEF BlocksInv, Tile
    <3> QED
      BY <3>1, <3>2 DEF Blocks
  <2>4. rows' \in Nat /\ rows' - SampleSize < size
    <3>1. rows' = rows + size
      BY <2>1
    <3> HIDE DEF size
    <3> QED
      BY <3>1, <2>2, <2>3, <1>1 DEF MassInv
  <2> QED
    BY <2>2, <2>4 DEF MassInv, ReplicateHasTargetMass
<1>3. CASE EndReplicate
  <2>1. UNCHANGED <<phase, blocks>> /\ phase = "draw" /\ sampled' = rows /\ rows' = 0
        /\ rows >= SampleSize
    BY <1>3 DEF EndReplicate
  <2> QED
    BY <2>1, <1>1 DEF MassInv, ReplicateHasTargetMass
<1>4. CASE UNCHANGED <<rows, sampled, blocks>> /\ (phase' = phase \/ phase' \in {"draw", "done", "failed"})
  BY <1>4 DEF MassInv, ReplicateHasTargetMass
<1>5. CASE UNCHANGED <<rows, sampled>> /\ phase \notin {"draw", "done", "failed"}
  <2>1. rows = 0 /\ sampled = 0
    BY <1>5 DEF MassInv
  <2> QED
    BY <1>1, <1>5, <2>1 DEF MassInv, ReplicateHasTargetMass
<1>6. CASE Refuse \/ TooFew \/ TooFewUsed
  BY <1>4, <1>6 DEF Refuse, TooFew, TooFewUsed, Fails, replicate
<1>7. CASE Call \/ Validate \/ AddGroup \/ CloseLast \/ MergeTail \/ KeepTail
  BY <1>5, <1>7 DEF Call, Validate, AddGroup, CloseLast, MergeTail, KeepTail, replicate
<1>8. CASE Enough \/ Finish \/ UNCHANGED bootstrap
  BY <1>4, <1>8 DEF Enough, Finish, bootstrap, replicate
<1> QED
  BY <1>2, <1>3, <1>6, <1>7, <1>8 DEF EvaluationNext, BootstrapNext

\* A replicate has the rows asked for and less than one block more.
THEOREM ReplicatesHaveMass == EvaluationSpec => []ReplicateHasTargetMass
<1>1. EvaluationInit => MassInv
  BY DEF EvaluationInit, BootstrapInit, MassInv, ReplicateHasTargetMass
<1>2. MassInv => ReplicateHasTargetMass
  BY DEF MassInv
<1> QED
  BY <1>1, <1>2, NextMass, BlocksInvariant, PTL DEF EvaluationSpec

-----------------------------------------------------------------------------
(* The decision.                                                           *)

\* What labels and probabilities add leaves the blocks as they were.
THEOREM PromotionEvaluates == PromotionSpec => EvaluationSpec
<1>1. PromotionInit => EvaluationInit
  BY DEF PromotionInit
<1>2. [PromotionNext]_promotionVars => [EvaluationNext]_<<vars, bootstrap>>
  <2> SUFFICES ASSUME PromotionNext \/ UNCHANGED promotionVars
               PROVE  [EvaluationNext]_<<vars, bootstrap>>
    OBVIOUS
  <2>1. CASE UNCHANGED promotionVars
    BY <2>1 DEF promotionVars
  <2>2. CASE Split
    BY <2>2 DEF Split, EvaluationNext
  <2>3. CASE Bootstrap /\ UNCHANGED vars
    <3>1. Call \/ BootstrapNext
      BY <2>3 DEF Bootstrap, CallWithData, DrawRows, Measure, BootstrapNext
    <3> QED
      BY <3>1, <2>3 DEF EvaluationNext
  <2>4. CASE Diagnose
    BY <2>4 DEF Diagnose
  <2>5. CASE Decide
    BY <2>5 DEF Decide
  <2> QED
    BY <2>1, <2>2, <2>3, <2>4, <2>5 DEF PromotionNext
<1> QED
  BY <1>1, <1>2, PTL DEF PromotionSpec, EvaluationSpec

LEMMA CapturedType ==
  ASSUME NEW s \in Seq(1 .. n), NEW model
  PROVE  Captured(s, model) \in Nat /\ Cardinality(Positives(s)) \in Nat
<1>1. IsFiniteSet(1 .. Len(s))
  BY FS_Interval
<1>2. Reviewed(s, model) \cap Positives(s) \in SUBSET (1 .. Len(s)) /\ Positives(s) \in SUBSET (1 .. Len(s))
  BY DEF Reviewed, Positives
<1>3. IsFiniteSet(Reviewed(s, model) \cap Positives(s)) /\ IsFiniteSet(Positives(s))
  BY <1>1, <1>2, FS_Subset
<1> QED
  BY <1>3, FS_CardinalityType DEF Captured

\* Models of one ranking review the same rows of any sample, ties included.
LEMMA SameRankingCapturesAlike ==
  ASSUME data \in [1 .. n -> Scored], SameRanking, NEW s \in Seq(1 .. n)
  PROVE  Delta(s)[1] = 0
<1>1. \A i, j \in 1 .. Len(s) : Precedes(s, "candidate", j, i) <=> Precedes(s, "baseline", j, i)
  <2> SUFFICES ASSUME NEW i \in 1 .. Len(s), NEW j \in 1 .. Len(s)
               PROVE  Precedes(s, "candidate", j, i) <=> Precedes(s, "baseline", j, i)
    OBVIOUS
  <2>1. s[i] \in 1 .. n /\ s[j] \in 1 .. n
    BY ElementOfSeq
  <2>2. data[s[i]] \in Scored /\ data[s[j]] \in Scored
    BY <2>1
  <2> DEFINE ci == data[s[i]].candidate
             cj == data[s[j]].candidate
             bi == data[s[i]].baseline
             bj == data[s[j]].baseline
  <2>3. ci \in Nat /\ cj \in Nat /\ bi \in Nat /\ bj \in Nat
    BY <2>2 DEF Scored
  <2>4. (ci > cj <=> bi > bj) /\ (cj > ci <=> bj > bi)
    BY <2>1 DEF SameRanking
  <2>5. ci = cj <=> bi = bj
    <3> HIDE DEF ci, cj, bi, bj
    <3> QED BY <2>3, <2>4
  <2>6. data[s[i]]["candidate"] = ci /\ data[s[j]]["candidate"] = cj
        /\ data[s[i]]["baseline"] = bi /\ data[s[j]]["baseline"] = bj
    OBVIOUS
  <2> QED
    BY <2>4, <2>5, <2>6 DEF Precedes
<1>2. \A i \in 1 .. Len(s) : {j \in 1 .. Len(s) : Precedes(s, "candidate", j, i)}
                              = {j \in 1 .. Len(s) : Precedes(s, "baseline", j, i)}
  BY <1>1
<1>3. Reviewed(s, "candidate") = Reviewed(s, "baseline")
  BY <1>2 DEF Reviewed
<1>4. Captured(s, "candidate") = Captured(s, "baseline")
  BY <1>3 DEF Captured
<1> QED
  BY <1>4, CapturedType DEF Delta

LEMMA ProductGrows ==
  ASSUME NEW a \in Nat, NEW b \in Nat, NEW c \in Nat, a <= b
  PROVE  a * c \in Nat /\ a * c <= b * c
OBVIOUS

LEMMA QuotientBound ==
  ASSUME NEW a \in Nat, NEW b \in Nat, NEW c \in Nat, b > 0, a <= b * c
  PROVE  a \div b \in Nat /\ a \div b <= c
OBVIOUS

\* Among uplifts that are all zero, any quantile is zero.
LEMMA NoUpliftIsNotDirectional ==
  ASSUME deltas \in Seq(Int \X Nat), Len(deltas) > 0, \A i \in Used : deltas[i][1] = 0
  PROVE  ~Promotes(TRUE)
<1> DEFINE m == Len(deltas)
<1>1. m \in Nat /\ m > 0 /\ Used = 1 .. m
  BY DEF Used
<1>2. IsFiniteSet(Used) /\ Cardinality(Used) = m
  BY <1>1, FS_Interval
<1>3. \A i \in Used : deltas[i] \in Int \X Nat
  BY <1>1
<1>4. \A i, j \in Used : ~Less(deltas[i], deltas[j])
  BY <1>3 DEF Less
<1>5. ASSUME NEW k \in Nat, k < m
      PROVE  Smallest(k)[1] = 0 /\ Smallest(k)[2] \in Nat
  <2>1. deltas[1] \in {deltas[i] : i \in Used}
    BY <1>1
  <2>2. {i \in Used : Less(deltas[i], deltas[1])} = {}
    BY <1>1, <1>4
  <2>3. {i \in Used : ~Less(deltas[1], deltas[i])} = Used
    BY <1>1, <1>4
  <2>4. /\ Cardinality({i \in Used : Less(deltas[i], deltas[1])}) <= k
        /\ Cardinality({i \in Used : ~Less(deltas[1], deltas[i])}) > k
    <3> DEFINE below == {i \in Used : Less(deltas[i], deltas[1])}
               upTo  == {i \in Used : ~Less(deltas[1], deltas[i])}
    <3>1. Cardinality(below) = 0 /\ Cardinality(upTo) = m
      BY <2>2, <2>3, <1>2, FS_EmptySet
    <3> HIDE DEF below, upTo, m
    <3>2. Cardinality(below) <= k /\ Cardinality(upTo) > k
      BY <3>1, <1>5
    <3> QED
      BY <3>2 DEF below, upTo
  <2>5. Smallest(k) \in {deltas[i] : i \in Used}
    BY <2>1, <2>4 DEF Smallest
  <2> QED
    BY <2>5, <1>3
<1> DEFINE place == Quantile[1] * (m - 1)
           q     == Quantile[2]
           k     == place \div q
           part  == place % q
           d     == Smallest(k)
           next  == Smallest(AtMost(k + 1, m - 1))
<1>6. q \in Nat /\ q > 0 /\ place \in Nat /\ place <= q * (m - 1)
  <2>1. Quantile[1] \in Nat /\ Quantile[2] \in Nat /\ Quantile[1] > 0 /\ Quantile[1] <= Quantile[2]
    BY PromotionAssumption DEF Quotients
  <2>2. m - 1 \in Nat
    BY <1>1
  <2> DEFINE a == Quantile[1]
  <2>3. a \in Nat /\ q \in Nat /\ q > 0 /\ a <= q
    BY <2>1
  <2> HIDE DEF m, a, q
  <2>4. a * (m - 1) \in Nat /\ a * (m - 1) <= q * (m - 1)
    BY <2>2, <2>3, ProductGrows
  <2> QED
    BY <2>3, <2>4 DEF a
<1>7. k \in Nat /\ k <= m - 1
  <2>1. m - 1 \in Nat
    BY <1>1
  <2> HIDE DEF place, q, m
  <2> QED
    BY <1>6, <2>1, QuotientBound
<1>8. AtMost(k + 1, m - 1) \in Nat /\ AtMost(k + 1, m - 1) < m
  BY <1>1, <1>7 DEF AtMost
<1>9. k < m
  BY <1>1, <1>7
<1>10. d[1] = 0 /\ d[2] \in Nat /\ next[1] = 0 /\ next[2] \in Nat
  <2> HIDE DEF k, m
  <2> QED
    BY <1>5, <1>7, <1>8, <1>9
<1>11. part \in Int /\ q \in Int
  <2> HIDE DEF place, q
  <2> QED
    BY <1>6
<1>12. d[1] * next[2] * (q - part) + next[1] * d[2] * part = 0
  <2> HIDE DEF d, next, part, q
  <2> QED
    BY <1>10, <1>11
<1>13. ~(d[1] * next[2] * (q - part) + next[1] * d[2] * part > 0)
  <2> HIDE DEF d, next, part, q
  <2> QED
    BY <1>12
<1> QED
  BY <1>13 DEF Promotes, Directional, QuantilePositive

LEMMA InitPromotion == PromotionInit => PromotionInv
<1> SUFFICES ASSUME PromotionInit PROVE PromotionInv
  OBVIOUS
<1>1. n = 0 /\ data = <<>> /\ sample = <<>> /\ deltas = <<>> /\ used = 0
      /\ phase = "idle" /\ champion = "interval"
  BY DEF PromotionInit, EvaluationInit, BootstrapInit
<1>2. data \in [1 .. n -> Scored] /\ sample \in Seq(1 .. n) /\ deltas \in Seq(Int \X Nat)
      /\ Len(deltas) = 0
  BY <1>1
<1> QED
  BY <1>1, <1>2 DEF PromotionInv, Used

LEMMA CallKeepsPromotion ==
  ASSUME TypeOK, PromotionInv, CallWithData
  PROVE  PromotionInv'
<1>1. PICK d \in Data : data' = [i \in 1 .. n' |-> d[i]]
  BY DEF CallWithData
<1>2. n' \in Nat /\ n' <= MaxTotal
  BY DEF CallWithData, Call, TypeOK
<1>3. d \in [1 .. MaxTotal -> Scored]
  BY PromotionAssumption
<1>4. data' \in [1 .. n' -> Scored]
  BY <1>1, <1>2, <1>3
<1>5. phase = "idle" /\ phase' = "validate" /\ used' = used /\ UNCHANGED <<sample, deltas, champion>>
  BY DEF CallWithData, Call, replicate
<1>6. n = 0 /\ deltas = <<>> /\ Len(deltas) = used /\ champion = "interval" /\ sample \in Seq(1 .. n)
  BY <1>5 DEF PromotionInv
<1>7. sample \in Seq(1 .. n')
  <2>1. Len(sample) \in Nat /\ \A i \in 1 .. Len(sample) : sample[i] \in 1 .. n
    BY <1>6, ElementOfSeq
  <2>2. Len(sample) = 0
    <3> DEFINE m == Len(sample)
    <3>1. 1 .. n = {}
      BY <1>6
    <3>2. \A i \in 1 .. m : FALSE
      BY <2>1, <3>1
    <3> HIDE DEF m
    <3> QED
      BY <3>2, <2>1 DEF m
  <2>3. sample = <<>>
    BY <1>6, <2>2, EmptySeq
  <2> QED
    BY <2>3
<1> QED
  BY <1>4, <1>5, <1>6, <1>7 DEF PromotionInv, Used

LEMMA DrawKeepsPromotion ==
  ASSUME BlocksInv, PromotionInv, DrawRows
  PROVE  PromotionInv'
<1>1. PICK b \in 1 .. Len(blocks) :
        sample' = sample \o [i \in 1 .. blocks[b].to - blocks[b].from |-> blocks[b].from + i]
  BY DEF DrawRows
<1>2. UNCHANGED <<n, phase, used, data, deltas, champion>> /\ phase = "draw"
  BY DEF DrawRows, Draw
<1> DEFINE from == blocks[b].from
           to   == blocks[b].to
           more == [i \in 1 .. to - from |-> from + i]
<1>3. n \in Nat /\ from \in 0 .. n /\ to \in 0 .. n
  <2>1. blocks[b] \in Blocks /\ n \in Nat
    BY ElementOfSeq DEF BlocksInv, BootstrapTypeOK
  <2> QED
    BY <2>1 DEF Blocks
<1>4. from < to
  BY <1>2 DEF BlocksInv, Tile
<1>5. more \in Seq(1 .. n)
  <2> HIDE DEF from, to
  <2>1. to - from \in Nat /\ \A i \in 1 .. to - from : from + i \in 1 .. n
    BY <1>3, <1>4
  <2> DEFINE size == to - from
  <2>2. more \in [1 .. size -> 1 .. n]
    BY <2>1
  <2>3. size \in Nat
    BY <2>1
  <2> HIDE DEF more, size
  <2>4. more \in UNION {[1 .. k -> 1 .. n] : k \in Nat}
    BY <2>2, <2>3
  <2> QED
    BY <2>4, SeqDef
<1>6. sample' \in Seq(1 .. n)
  <2>1. sample' = sample \o more
    BY <1>1
  <2> HIDE DEF more
  <2> QED
    BY <2>1, <1>5, ConcatProperties DEF PromotionInv
<1>7. SameRanking' <=> SameRanking
  BY <1>2 DEF SameRanking
<1> QED
  BY <1>2, <1>6, <1>7 DEF PromotionInv, Used

LEMMA MeasureKeepsPromotion ==
  ASSUME BlocksInv, PromotionInv, Measure
  PROVE  PromotionInv'
<1>1. UNCHANGED <<n, phase, data, champion>> /\ phase = "draw" /\ sample' = <<>>
  BY DEF Measure, EndReplicate
<1>2. SameRanking' <=> SameRanking
  BY <1>1 DEF SameRanking
<1>3. CASE used' = used /\ deltas' = deltas
  BY <1>1, <1>2, <1>3 DEF PromotionInv, Used
<1>4. CASE used' = used + 1 /\ deltas' = Append(deltas, Delta(sample))
  <2>1. sample \in Seq(1 .. n) /\ deltas \in Seq(Int \X Nat) /\ Len(deltas) = used
    BY DEF PromotionInv
  <2>2. Delta(sample) \in Int \X Nat
    BY <2>1, CapturedType DEF Delta
  <2>3. /\ deltas' \in Seq(Int \X Nat)
        /\ Len(deltas') = Len(deltas) + 1
        /\ \A i \in 1 .. Len(deltas) : deltas'[i] = deltas[i]
        /\ deltas'[Len(deltas) + 1] = Delta(sample)
    <3> HIDE DEF Delta
    <3> QED
      BY <2>1, <2>2, <1>4, AppendProperties
  <2>4. ASSUME SameRanking, NEW i \in Used'
        PROVE  deltas'[i][1] = 0
    <3>1. CASE i = Len(deltas) + 1
      BY <3>1, <2>1, <2>3, <2>4, SameRankingCapturesAlike DEF PromotionInv
    <3>2. CASE i # Len(deltas) + 1
      <4> DEFINE m == Len(deltas)
      <4>1. m \in Nat /\ i \in 1 .. m + 1
        BY <2>1, <2>3 DEF Used
      <4>2. i \in 1 .. m
        <5>1. i # m + 1
          BY <3>2
        <5> HIDE DEF m
        <5> QED BY <4>1, <5>1
      <4>3. deltas[i][1] = 0
        BY <4>2, <2>4 DEF PromotionInv, Used
      <4> QED
        BY <4>2, <4>3, <2>3
    <3> QED
      BY <3>1, <3>2
  <2> QED
    <3>1. (SameRanking => \A i \in Used : deltas[i][1] = 0)'
      BY <1>2, <2>4
    <3>2. Len(deltas') = used' /\ phase' = "draw" /\ sample' \in Seq(1 .. n')
      BY <1>1, <1>4, <2>1, <2>3
    <3>3. data' \in [1 .. n' -> Scored]
      BY <1>1 DEF PromotionInv
    <3>4. champion' = "interval"
      BY <1>1 DEF PromotionInv
    <3>5. deltas' \in Seq(Int \X Nat)
      BY <2>3
    <3> QED
      BY <3>1, <3>2, <3>3, <3>4, <3>5 DEF PromotionInv
<1> QED
  BY <1>3, <1>4 DEF Measure

LEMMA FinishKeepsPromotion == PromotionInv /\ Finish /\ UNCHANGED promotion => PromotionInv'
<1> SUFFICES ASSUME PromotionInv, Finish, UNCHANGED promotion PROVE PromotionInv'
  OBVIOUS
<1>1. UNCHANGED <<n, used, data, sample, deltas, champion>> /\ phase = "draw" /\ phase' = "done"
  BY DEF Finish, replicate, promotion
<1>2. used > 0
  <2>1. used >= MinUsed /\ used \in Nat /\ MinUsed > 0
    BY PromotionAssumption DEF Finish, Insufficient, PromotionInv
  <2> QED
    BY <2>1
<1>3. SameRanking' <=> SameRanking
  BY <1>1 DEF SameRanking
<1> QED
  BY <1>1, <1>2, <1>3 DEF PromotionInv, Used

\* The other steps of the bootstrap.
LEMMA OtherKeepsPromotion ==
  ASSUME PromotionInv, UNCHANGED <<n, used, promotion>>,
         phase' = "idle" => phase = "idle", phase' = "done" <=> phase = "done"
  PROVE  PromotionInv'
<1>1. UNCHANGED <<data, sample, deltas, champion>>
  BY DEF promotion
<1>2. SameRanking' <=> SameRanking
  BY <1>1 DEF SameRanking
<1> QED
  BY <1>1, <1>2 DEF PromotionInv, Used

LEMMA BootstrapKeepsPromotion ==
  ASSUME TypeOK, BlocksInv, PromotionInv, Bootstrap
  PROVE  PromotionInv'
<1>1. CASE Validate \/ AddGroup \/ CloseLast \/ MergeTail \/ KeepTail \/ TooFew \/ Enough \/ TooFewUsed
  <2> SUFFICES ASSUME UNCHANGED promotion PROVE PromotionInv'
    BY <1>1 DEF Bootstrap, CallWithData, DrawRows, Measure, Call, Draw, EndReplicate, Validate,
       AddGroup, CloseLast, MergeTail, KeepTail, TooFew, Enough, TooFewUsed, Fails
  <2>1. UNCHANGED <<n, used>> /\ phase' # "idle" /\ phase' # "done" /\ phase # "done"
    BY <1>1 DEF Validate, AddGroup, CloseLast, MergeTail, KeepTail, TooFew, Enough, TooFewUsed,
       Fails, replicate
  <2> QED
    BY <2>1, OtherKeepsPromotion
<1> QED
  BY <1>1, CallKeepsPromotion, DrawKeepsPromotion, MeasureKeepsPromotion, FinishKeepsPromotion
     DEF Bootstrap

LEMMA NextPromotion ==
  TypeOK /\ BlocksInv /\ PromotionInv /\ [PromotionNext]_promotionVars => PromotionInv'
<1> SUFFICES ASSUME TypeOK, BlocksInv, PromotionInv, PromotionNext \/ UNCHANGED promotionVars
             PROVE  PromotionInv'
  OBVIOUS
<1>1. CASE UNCHANGED promotionVars
  <2>1. UNCHANGED <<n, used, phase, promotion>>
    BY <1>1 DEF promotionVars, bootstrap, replicate
  <2> QED
    BY <2>1, OtherKeepsPromotion
<1>2. CASE Split
  <2>1. UNCHANGED <<n, used, phase, promotion>>
    BY <1>2 DEF Split, bootstrap, replicate
  <2> QED
    BY <2>1, OtherKeepsPromotion
<1>3. CASE Bootstrap
  BY <1>3, BootstrapKeepsPromotion
<1>4. CASE Diagnose
  <2>1. UNCHANGED <<n, used, phase, data, sample, deltas>> /\ phase = "done"
        /\ champion' \in {"diagnosed", "failed"}
    BY <1>4 DEF Diagnose, bootstrap, replicate
  <2>2. SameRanking' <=> SameRanking
    BY <2>1 DEF SameRanking
  <2> QED
    BY <2>1, <2>2 DEF PromotionInv, Used
<1>5. CASE Decide
  <2>1. UNCHANGED <<n, used, phase, data, sample, deltas>> /\ champion = "diagnosed"
    BY <1>5 DEF Decide, bootstrap, replicate
  <2>2. SameRanking' <=> SameRanking
    BY <2>1 DEF SameRanking
  <2>3. phase = "done" /\ used > 0
    BY <2>1 DEF PromotionInv
  <2>4. SameRanking => champion' # "candidate"
    <3> SUFFICES ASSUME SameRanking PROVE champion' = "baseline"
      OBVIOUS
    <3>1. ~Promotes(TRUE)
      BY <2>3, NoUpliftIsNotDirectional DEF PromotionInv
    <3>2. \A calibrated \in BOOLEAN : ~Promotes(calibrated)
      BY <3>1 DEF Promotes
    <3> QED
      BY <3>2, <1>5 DEF Decide
  <2> QED
    BY <2>1, <2>2, <2>3, <2>4 DEF PromotionInv, Used
<1> QED
  BY <1>1, <1>2, <1>3, <1>4, <1>5 DEF PromotionNext

\* Deltas of replicates, and what the decision rests on, agree with the test part.
THEOREM PromotionInvariant == PromotionSpec => []PromotionInv
<1>1. SplitInv => TypeOK
  BY DEF SplitInv
<1> QED
  BY <1>1, PromotionEvaluates, EvaluationSplits, SplitInvariant, BlocksInvariant, InitPromotion,
     NextPromotion, PTL DEF PromotionSpec

\* A candidate that orders the test part as the baseline does is never promoted,
\* whatever the labels, the ties, the blocks, the draws and the thresholds.
THEOREM NoPromotionForSameRanking == PromotionSpec => []SameRankingNeverPromoted
<1>1. PromotionInv => SameRankingNeverPromoted
  BY DEF PromotionInv, SameRankingNeverPromoted
<1> QED
  BY <1>1, PromotionInvariant, PTL

-----------------------------------------------------------------------------
(* The evidence: among finitely many deltas there is a k-th smallest, and  *)
(* a quantile above zero has few enough deltas at or below zero.           *)

\* A set of natural numbers has a least one.  (Every argument by induction on
\* data below takes a least counterexample.)
LEMMA LeastNatural ==
  ASSUME NEW T, T \subseteq Nat, T # {}
  PROVE  \E x \in T : \A y \in T : x <= y
<1> DEFINE R == OpToRel(<, Nat)
<1>1. IsWellFoundedOn(R, Nat)
  BY NatLessThanWellFounded
<1>2. \A x, y \in Nat : x < y => <<x, y>> \in R
  BY DEF OpToRel
<1> HIDE DEF R
<1>3. PICK x \in T : \A y \in T : <<y, x>> \notin R
  BY <1>1, WFMin
<1>4. ASSUME NEW y \in T
      PROVE  x <= y
  <2>1. x \in Nat /\ y \in Nat /\ <<y, x>> \notin R
    BY <1>3
  <2>2. ~(y < x)
    BY <1>2, <2>1
  <2> QED
    BY <2>1, <2>2
<1> QED
  BY <1>3, <1>4

\* Fractions with positive denominators, which the deltas of used replicates are.
Fractions == {q \in Int \X Nat : q[2] > 0}

LEMMA TimesPositive ==
  ASSUME NEW a \in Int, NEW b \in Int, NEW c \in Nat, c > 0
  PROVE  /\ a < b => a * c < b * c
         /\ a * c < b * c => a < b
OBVIOUS

LEMMA LessIrreflexive ==
  ASSUME NEW p \in Fractions
  PROVE  ~Less(p, p)
<1>1. p[1] \in Int /\ p[2] \in Int
  BY DEF Fractions
<1>2. p[1] * p[2] \in Int
  BY <1>1
<1> QED
  BY <1>2 DEF Less

LEMMA LessTransitive ==
  ASSUME NEW p \in Fractions, NEW q \in Fractions, NEW r \in Fractions,
         Less(p, q), Less(q, r)
  PROVE  Less(p, r)
<1> DEFINE a == p[1]  b == p[2]
           c == q[1]  d == q[2]
           e == r[1]  f == r[2]
<1>1. /\ a \in Int /\ c \in Int /\ e \in Int
      /\ b \in Nat /\ d \in Nat /\ f \in Nat /\ b > 0 /\ d > 0 /\ f > 0
  BY DEF Fractions
<1>2. a * d < c * b /\ c * f < e * d
  BY DEF Less
<1> SUFFICES a * f < e * b
  BY DEF Less
<1> HIDE DEF a, b, c, d, e, f
<1>3. a * d \in Int /\ c * b \in Int /\ c * f \in Int /\ e * d \in Int /\ a * f \in Int /\ e * b \in Int
  BY <1>1
<1>4. (a * d) * f < (c * b) * f /\ (c * f) * b < (e * d) * b
  BY <1>1, <1>2, <1>3, TimesPositive
<1>5. (c * b) * f = (c * f) * b /\ (a * d) * f = (a * f) * d /\ (e * d) * b = (e * b) * d
  BY <1>1
<1>6. (a * f) * d \in Int /\ (c * f) * b \in Int /\ (e * b) * d \in Int
  BY <1>1, <1>3
<1>7. (a * f) * d < (e * b) * d
  BY <1>4, <1>5, <1>6
<1> QED
  BY <1>1, <1>3, <1>7, TimesPositive

\* Every delta is a fraction.
Measured == deltas \in Seq(Int \X Nat) /\ \A i \in Used : deltas[i] \in Fractions

LEMMA UsedFinite ==
  ASSUME Measured, NEW B \in SUBSET Used
  PROVE  IsFiniteSet(B) /\ Cardinality(B) \in Nat /\ Cardinality(Used) = Len(deltas)
<1>1. Len(deltas) \in Nat
  BY DEF Measured
<1>2. IsFiniteSet(Used) /\ Cardinality(Used) = Len(deltas)
  <2> DEFINE m == Len(deltas)
  <2>1. m \in Nat /\ Used = 1 .. m
    BY <1>1 DEF Used
  <2> HIDE DEF m
  <2>2. IsFiniteSet(1 .. m) /\ Cardinality(1 .. m) = m
    BY <2>1, FS_Interval
  <2> QED
    BY <2>1, <2>2 DEF m
<1> QED
  BY <1>2, FS_Subset, FS_CardinalityType

\* Of any of the deltas one is not less than any other.
LEMMA LargestDelta ==
  ASSUME Measured, NEW B \in SUBSET Used, B # {}
  PROVE  \E b \in B : \A i \in B : ~Less(deltas[b], deltas[i])
<1> DEFINE Above(b) == {i \in B : Less(deltas[b], deltas[i])}
           sizes == {Cardinality(Above(b)) : b \in B}
<1>1. \A b \in B : IsFiniteSet(Above(b)) /\ Cardinality(Above(b)) \in Nat
  <2> SUFFICES ASSUME NEW b \in B PROVE IsFiniteSet(Above(b)) /\ Cardinality(Above(b)) \in Nat
    OBVIOUS
  <2>1. Above(b) \in SUBSET Used
    OBVIOUS
  <2> QED
    BY <2>1, UsedFinite
<1>2. PICK b \in B : \A c \in B : Cardinality(Above(b)) <= Cardinality(Above(c))
  <2>1. sizes \subseteq Nat /\ sizes # {}
    BY <1>1
  <2>2. PICK x \in sizes : \A y \in sizes : x <= y
    BY <2>1, LeastNatural
  <2>3. PICK b \in B : x = Cardinality(Above(b))
    BY <2>2
  <2>4. \A c \in B : Cardinality(Above(c)) \in sizes
    OBVIOUS
  <2> HIDE DEF Above, sizes
  <2> QED
    BY <2>2, <2>3, <2>4
<1>3. ASSUME NEW c \in B, Less(deltas[b], deltas[c])
      PROVE  FALSE
  <2>1. /\ deltas[b] \in Fractions /\ deltas[c] \in Fractions
        /\ \A i \in B : deltas[i] \in Fractions
    BY DEF Measured
  <2>2. Above(c) \subseteq Above(b)
    BY <1>3, <2>1, LessTransitive
  <2>3. c \in Above(b) /\ c \notin Above(c)
    BY <1>3, <2>1, LessIrreflexive
  <2>4. Cardinality(Above(c)) <= Cardinality(Above(b)) /\ Cardinality(Above(c)) # Cardinality(Above(b))
    <3>1. Above(c) \in SUBSET Above(b) /\ Above(c) # Above(b) /\ IsFiniteSet(Above(b))
      BY <1>1, <2>2, <2>3
    <3> HIDE DEF Above
    <3> QED
      BY <3>1, FS_Subset
  <2>5. Cardinality(Above(b)) <= Cardinality(Above(c))
    BY <1>2
  <2>6. Cardinality(Above(b)) \in Nat /\ Cardinality(Above(c)) \in Nat
    BY <1>1
  <2> HIDE DEF Above
  <2> QED
    BY <2>4, <2>5, <2>6
<1> QED
  BY <1>2, <1>3

\* np.quantile's order statistics exist: Smallest chooses among deltas.
LEMMA SmallestExists ==
  ASSUME Measured, NEW k \in Nat, k < Len(deltas)
  PROVE  /\ Smallest(k) \in {deltas[i] : i \in Used}
         /\ Cardinality({i \in Used : Less(deltas[i], Smallest(k))}) <= k
<1> DEFINE Below(j) == {i \in Used : Less(deltas[i], deltas[j])}
           UpTo(j)  == {i \in Used : ~Less(deltas[j], deltas[i])}
           enough   == {j \in Used : Cardinality(UpTo(j)) > k}
           sizes    == {Cardinality(UpTo(j)) : j \in enough}
<1>1. Len(deltas) \in Nat /\ \A i \in Used : deltas[i] \in Fractions
  BY DEF Measured
<1>2. \A j \in Used : /\ IsFiniteSet(Below(j)) /\ Cardinality(Below(j)) \in Nat
                      /\ IsFiniteSet(UpTo(j)) /\ Cardinality(UpTo(j)) \in Nat
  <2> SUFFICES ASSUME NEW j \in Used
               PROVE  /\ IsFiniteSet(Below(j)) /\ Cardinality(Below(j)) \in Nat
                      /\ IsFiniteSet(UpTo(j)) /\ Cardinality(UpTo(j)) \in Nat
    OBVIOUS
  <2>1. Below(j) \in SUBSET Used /\ UpTo(j) \in SUBSET Used
    OBVIOUS
  <2> HIDE DEF Below, UpTo
  <2> QED
    BY <2>1, UsedFinite
<1>3. enough # {}
  <2>1. Used # {}
    BY <1>1 DEF Used
  <2>2. PICK j \in Used : \A i \in Used : ~Less(deltas[j], deltas[i])
    BY <2>1, LargestDelta
  <2>3. UpTo(j) = Used
    BY <2>2
  <2>4. Cardinality(UpTo(j)) > k
    BY <1>1, <2>3, UsedFinite
  <2> QED
    BY <2>4
<1>4. PICK j \in enough : \A i \in enough : Cardinality(UpTo(j)) <= Cardinality(UpTo(i))
  <2>1. sizes \subseteq Nat /\ sizes # {}
    BY <1>2, <1>3
  <2>2. PICK x \in sizes : \A y \in sizes : x <= y
    BY <2>1, LeastNatural
  <2> QED
    BY <2>2
<1>5. j \in Used /\ Cardinality(UpTo(j)) > k
  OBVIOUS
<1>6. Cardinality(Below(j)) <= k
  <2> SUFFICES ASSUME Cardinality(Below(j)) > k PROVE FALSE
    <3>1. Cardinality(Below(j)) \in Nat
      BY <1>2, <1>5
    <3> HIDE DEF Below
    <3> QED
      BY <3>1
  <2>1. Below(j) # {} /\ Below(j) \in SUBSET Used
    BY FS_EmptySet
  <2>2. PICK b \in Below(j) : \A i \in Below(j) : ~Less(deltas[b], deltas[i])
    BY <2>1, LargestDelta
  <2>3. b \in Used /\ Less(deltas[b], deltas[j])
    OBVIOUS
  <2>4. Below(j) \subseteq UpTo(b)
    BY <2>2
  <2>5. b \in enough
    <3>1. Cardinality(Below(j)) <= Cardinality(UpTo(b))
      BY <1>2, <2>3, <2>4, FS_Subset
    <3>2. Cardinality(Below(j)) \in Nat /\ Cardinality(UpTo(b)) \in Nat
      BY <1>2, <1>5, <2>3
    <3>3. Cardinality(UpTo(b)) > k
      <4> HIDE DEF Below, UpTo
      <4> QED
        BY <3>1, <3>2
    <3> QED
      BY <2>3, <3>3
  <2>6. UpTo(b) \subseteq UpTo(j)
    BY <1>1, <1>5, <2>3, LessTransitive
  <2>7. j \in UpTo(j) /\ j \notin UpTo(b)
    BY <1>1, <1>5, <2>3, LessIrreflexive
  <2>8. Cardinality(UpTo(b)) <= Cardinality(UpTo(j)) /\ Cardinality(UpTo(b)) # Cardinality(UpTo(j))
    <3>1. UpTo(b) \in SUBSET UpTo(j) /\ UpTo(b) # UpTo(j) /\ IsFiniteSet(UpTo(j))
      BY <1>2, <1>5, <2>6, <2>7
    <3> HIDE DEF UpTo
    <3> QED
      BY <3>1, FS_Subset
  <2>9. Cardinality(UpTo(j)) <= Cardinality(UpTo(b))
    BY <1>4, <2>5
  <2>10. Cardinality(UpTo(j)) \in Nat /\ Cardinality(UpTo(b)) \in Nat
    BY <1>2, <1>5, <2>3
  <2> HIDE DEF UpTo
  <2> QED
    BY <2>8, <2>9, <2>10
<1>7. \E d \in {deltas[i] : i \in Used} :
        /\ Cardinality({i \in Used : Less(deltas[i], d)}) <= k
        /\ Cardinality({i \in Used : ~Less(d, deltas[i])}) > k
  BY <1>5, <1>6
<1> QED
  BY <1>7 DEF Smallest

\* The replicates in which the candidate captures no more than the baseline.
Low == {i \in Used : deltas[i][1] <= 0}

LEMMA SignBelow ==
  ASSUME NEW x \in Int, NEW y \in Nat, NEW a \in Int, NEW b \in Nat,
         x <= 0, y > 0, b > 0, ~(x * b < a * y)
  PROVE  a <= 0
<1> SUFFICES ASSUME a >= 1 PROVE FALSE
  OBVIOUS
<1>1. x * b \in Int /\ a * y \in Int /\ x * b <= 0
  OBVIOUS
<1>2. a * y >= y
  OBVIOUS
<1> QED
  BY <1>1, <1>2

\* The k-th smallest of the deltas is low if more than k are.
LEMMA SmallestIsLow ==
  ASSUME Measured, NEW k \in Nat, k < Cardinality(Low)
  PROVE  Smallest(k) \in Fractions /\ Smallest(k)[1] <= 0
<1> DEFINE d == Smallest(k)
           below == {i \in Used : Less(deltas[i], d)}
<1>1. Low \in SUBSET Used /\ below \in SUBSET Used
  BY DEF Low
<1>2. /\ IsFiniteSet(below) /\ Cardinality(below) \in Nat
      /\ IsFiniteSet(Low) /\ Cardinality(Low) \in Nat
      /\ Cardinality(Low) <= Len(deltas) /\ Len(deltas) \in Nat
  <2>1. IsFiniteSet(Used) /\ Cardinality(Used) = Len(deltas) /\ Len(deltas) \in Nat
    BY UsedFinite DEF Measured
  <2>2. Cardinality(Low) <= Cardinality(Used)
    BY <1>1, <2>1, FS_Subset
  <2> HIDE DEF below
  <2> QED
    BY <1>1, <2>1, <2>2, UsedFinite
<1>3. d \in {deltas[i] : i \in Used} /\ Cardinality(below) <= k
  <2>1. k < Len(deltas)
    BY <1>2
  <2> QED
    BY <2>1, SmallestExists
<1>4. ~(Low \subseteq below)
  <2> HIDE DEF below
  <2> SUFFICES ASSUME Low \in SUBSET below PROVE FALSE
    OBVIOUS
  <2>1. Cardinality(Low) <= Cardinality(below)
    BY <1>2, FS_Subset
  <2> QED
    BY <1>2, <1>3, <2>1
<1>5. PICK i \in Low : ~Less(deltas[i], d)
  BY <1>1, <1>4
<1>6. d \in Fractions /\ deltas[i] \in Fractions /\ deltas[i][1] <= 0
  BY <1>3, <1>5 DEF Measured, Low
<1>7. d[1] <= 0
  <2> DEFINE x == deltas[i][1]  y == deltas[i][2]
             a == d[1]          b == d[2]
  <2>1. x \in Int /\ y \in Nat /\ a \in Int /\ b \in Nat /\ y > 0 /\ b > 0 /\ x <= 0
    BY <1>6 DEF Fractions
  <2>2. ~(x * b < a * y)
    BY <1>5 DEF Less
  <2> HIDE DEF x, y, a, b
  <2>3. a <= 0
    BY <2>1, <2>2, SignBelow
  <2> QED
    BY <2>3 DEF a
<1> QED
  BY <1>6, <1>7

\* A sum of two terms that are at most zero is not above zero.
LEMMA NotAbove ==
  ASSUME NEW a \in Int, NEW b \in Nat, NEW c \in Int, NEW e \in Nat, NEW u \in Nat, NEW v \in Nat,
         a <= 0, c <= 0 \/ v = 0
  PROVE  ~(a * e * u + c * b * v > 0)
<1>1. a * e \in Int /\ a * e <= 0
  OBVIOUS
<1>2. (a * e) * u \in Int /\ (a * e) * u <= 0
  BY <1>1
<1>3. CASE c <= 0
  <2>1. c * b \in Int /\ c * b <= 0
    BY <1>3
  <2>2. (c * b) * v \in Int /\ (c * b) * v <= 0
    BY <2>1
  <2> QED
    BY <1>2, <2>2
<1>4. CASE v = 0
  <2>1. c * b \in Int
    OBVIOUS
  <2>2. (c * b) * v = 0
    BY <1>4, <2>1
  <2> QED
    BY <1>2, <2>2
<1> QED
  BY <1>3, <1>4

\* The place of the quantile among the deltas, as a whole number and a rest.
LEMMA PlaceOfQuantile ==
  ASSUME NEW place \in Nat, NEW q \in Nat, q > 0, NEW z \in Int, (z - 1) * q >= place
  PROVE  /\ place \div q \in Nat /\ place \div q < z
         /\ place % q \in Nat /\ place % q <= q
         /\ place % q > 0 => (place \div q) + 1 < z
<1> DEFINE k == place \div q
           part == place % q
<1>1. k \in Nat /\ part \in Nat /\ part < q /\ place = k * q + part
  OBVIOUS
<1> HIDE DEF k, part
<1>2. k * q \in Nat /\ (z - 1) * q \in Int
  BY <1>1
<1>3. k < z
  <2> SUFFICES ASSUME z <= k PROVE FALSE
    BY <1>1
  <2>1. (z - 1) * q <= (k - 1) * q
    BY <1>1
  <2>2. (k - 1) * q = k * q - q
    BY <1>1
  <2> QED
    BY <1>1, <1>2, <2>1, <2>2
<1>4. ASSUME part > 0
      PROVE  k + 1 < z
  <2> SUFFICES ASSUME z <= k + 1 PROVE FALSE
    BY <1>1
  <2>1. (z - 1) * q <= k * q
    BY <1>1
  <2> QED
    BY <1>1, <1>2, <1>4, <2>1
<1> QED
  BY <1>1, <1>3, <1>4 DEF k, part

\* If the quantile is above zero, fewer deltas are low than its place among them
\* tells, to the next whole one.
LEMMA DirectionalIsEvidence ==
  ASSUME Measured, Len(deltas) > 0, Directional
  PROVE  (Cardinality(Low) - 1) * Quantile[2] < Quantile[1] * (Len(deltas) - 1)
<1> DEFINE m     == Len(deltas)
           z     == Cardinality(Low)
           q     == Quantile[2]
           place == Quantile[1] * (m - 1)
           k     == place \div q
           part  == place % q
           d     == Smallest(k)
           next  == Smallest(AtMost(k + 1, m - 1))
<1>1. m \in Nat /\ m > 0 /\ z \in Nat /\ z <= m
  <2>1. Low \in SUBSET Used
    BY DEF Low
  <2>2. IsFiniteSet(Used) /\ Cardinality(Used) = m /\ m \in Nat /\ z \in Nat
    BY <2>1, UsedFinite DEF Measured
  <2>3. z <= Cardinality(Used)
    BY <2>1, <2>2, FS_Subset
  <2> QED
    BY <2>2, <2>3
<1>2. q \in Nat /\ q > 0 /\ place \in Nat
  <2>1. Quantile[1] \in Nat /\ Quantile[2] \in Nat /\ Quantile[1] > 0 /\ Quantile[1] <= Quantile[2]
    BY PromotionAssumption DEF Quotients
  <2> HIDE DEF m
  <2> QED
    BY <1>1, <2>1
<1> SUFFICES ASSUME (z - 1) * q >= place
             PROVE  FALSE
  <2>1. (z - 1) * q \in Int
    BY <1>1, <1>2
  <2> HIDE DEF z, q, place
  <2>2. (z - 1) * q < place \/ (z - 1) * q >= place
    BY <1>2, <2>1
  <2> QED
    BY <2>2 DEF z, q, place
<1>3. k \in Nat /\ k < z /\ part \in Nat /\ part <= q /\ (part > 0 => k + 1 < z)
  <2> HIDE DEF z, q, place
  <2> QED
    BY <1>1, <1>2, PlaceOfQuantile
<1>4. d \in Fractions /\ d[1] <= 0
  BY <1>3, SmallestIsLow
<1>5. next \in Fractions /\ (part > 0 => next[1] <= 0)
  <2>1. AtMost(k + 1, m - 1) \in Nat /\ AtMost(k + 1, m - 1) < m
    <3> HIDE DEF k, m
    <3> QED
      BY <1>1, <1>3 DEF AtMost
  <2>2. part > 0 => AtMost(k + 1, m - 1) < z
    <3> HIDE DEF k, m, part, z
    <3> QED
      BY <1>1, <1>3 DEF AtMost
  <2>3. next \in {deltas[i] : i \in Used}
    BY <2>1, SmallestExists
  <2>4. next \in Fractions
    BY <2>3 DEF Measured
  <2>5. part > 0 => next[1] <= 0
    BY <2>1, <2>2, SmallestIsLow
  <2> QED
    BY <2>4, <2>5
<1>6. ~(d[1] * next[2] * (q - part) + next[1] * d[2] * part > 0)
  <2>1. d[1] \in Int /\ d[2] \in Nat /\ next[1] \in Int /\ next[2] \in Nat
    BY <1>4, <1>5 DEF Fractions
  <2>2. q - part \in Nat /\ part \in Nat /\ (next[1] <= 0 \/ part = 0)
    <3> HIDE DEF q, part, next
    <3> QED
      BY <1>2, <1>3, <1>5
  <2> HIDE DEF d, next, q, part
  <2> QED
    BY <1>4, <2>1, <2>2, NotAbove
<1> QED
  BY <1>6 DEF Directional, QuantilePositive

\* Denominators are positive from the first delta on; once the bootstrap is done
\* there are enough of them.
EvidenceInv ==
  /\ \A i \in Used : deltas[i][2] > 0
  /\ phase = "done" => used >= MinUsed /\ 2 * used >= Repeats - 1
  /\ EvidenceForPromotion

LEMMA DecideHasEvidence ==
  ASSUME PromotionInv, EvidenceInv, Decide
  PROVE  EvidenceInv'
<1>1. UNCHANGED <<n, used, phase, data, sample, deltas>> /\ champion = "diagnosed"
  BY DEF Decide, bootstrap, replicate
<1>2. /\ Used' = Used /\ (\A i \in Used : deltas'[i] = deltas[i])
      /\ Delta(TestPart)' = Delta(TestPart) /\ Low' = Low
  BY <1>1 DEF Used, Delta, TestPart, Captured, Reviewed, ReviewCount, Positives, Precedes, Low
<1>3. phase = "done" /\ Len(deltas) = used /\ used > 0
  BY <1>1 DEF PromotionInv
<1>4. ASSUME champion' = "candidate"
      PROVE  /\ (Cardinality(Low) - 1) * Quantile[2] < Quantile[1] * (used - 1)
             /\ ~Less(Delta(TestPart), MinDelta)
  <2>1. PICK calibrated \in BOOLEAN : Promotes(calibrated)
    BY <1>4 DEF Decide
  <2>2. Measured
    BY DEF PromotionInv, EvidenceInv, Measured, Fractions, Used
  <2> QED
    BY <1>3, <2>1, <2>2, DirectionalIsEvidence DEF Promotes
<1>5. EvidenceForPromotion'
  BY <1>1, <1>2, <1>3, <1>4 DEF EvidenceForPromotion, EvidenceInv, Low
<1> QED
  BY <1>1, <1>2, <1>5 DEF EvidenceInv

LEMMA MeasureKeepsEvidence ==
  ASSUME PromotionInv, EvidenceInv, Measure
  PROVE  EvidenceInv'
<1>1. phase = "draw" /\ phase' = "draw" /\ champion' = champion /\ champion = "interval"
  BY DEF Measure, EndReplicate, PromotionInv
<1>2. deltas \in Seq(Int \X Nat) /\ Len(deltas) \in Nat /\ sample \in Seq(1 .. n)
  BY DEF PromotionInv
<1>3. CASE deltas' = deltas
  BY <1>1, <1>3 DEF EvidenceInv, EvidenceForPromotion, Used
<1>4. CASE Positives(sample) # {} /\ deltas' = Append(deltas, Delta(sample))
  <2>1. Delta(sample) \in Int \X Nat /\ Delta(sample)[2] > 0
    <3>1. Delta(sample)[2] = Cardinality(Positives(sample)) /\ Delta(sample) \in Int \X Nat
      BY <1>2, CapturedType DEF Delta
    <3>2. IsFiniteSet(Positives(sample))
      <4>1. Positives(sample) \in SUBSET (1 .. Len(sample)) /\ IsFiniteSet(1 .. Len(sample))
        BY <1>2, FS_Interval DEF Positives
      <4> QED
        BY <4>1, FS_Subset
    <3>3. Cardinality(Positives(sample)) \in Nat /\ Cardinality(Positives(sample)) # 0
      BY <1>4, <3>2, FS_EmptySet, FS_CardinalityType
    <3> QED
      BY <3>1, <3>3
  <2>2. /\ Len(deltas') = Len(deltas) + 1
        /\ \A i \in 1 .. Len(deltas) : deltas'[i] = deltas[i]
        /\ deltas'[Len(deltas) + 1] = Delta(sample)
    <3> HIDE DEF Delta
    <3> QED
      BY <1>2, <1>4, <2>1, AppendProperties
  <2>3. ASSUME NEW i \in Used'
        PROVE  deltas'[i][2] > 0
    <3> DEFINE m == Len(deltas)
    <3>1. i \in 1 .. m + 1
      BY <2>2, <2>3 DEF Used
    <3>2. i = m + 1 \/ i \in 1 .. m
      <4> HIDE DEF m
      <4> QED
        BY <1>2, <3>1 DEF m
    <3> QED
      BY <2>1, <2>2, <3>2 DEF EvidenceInv, Used
  <2> QED
    BY <1>1, <2>3 DEF EvidenceInv, EvidenceForPromotion
<1> QED
  BY <1>3, <1>4 DEF Measure

LEMMA FinishHasEvidence ==
  ASSUME PromotionInv, EvidenceInv, BlocksInv, Finish, UNCHANGED promotion
  PROVE  EvidenceInv'
<1>1. /\ used' = used /\ deltas' = deltas /\ champion' = champion /\ champion = "interval"
      /\ phase' = "done" /\ ~(used < MinUsed) /\ ~(used < Repeats \div 2)
  BY DEF Finish, Insufficient, replicate, promotion, PromotionInv
<1>2. used \in Nat
  BY DEF BlocksInv, BootstrapTypeOK
<1>3. used >= MinUsed
  BY <1>1, <1>2
<1>4. 2 * used >= Repeats - 1
  BY <1>1, <1>2
<1> QED
  BY <1>1, <1>3, <1>4 DEF EvidenceInv, EvidenceForPromotion, Used

\* Steps that neither measure nor end the bootstrap, before there is a decision.
LEMMA OtherKeepsEvidence ==
  ASSUME EvidenceInv, deltas' = deltas, champion' # "candidate",
         phase' = "done" => phase = "done" /\ used' = used
  PROVE  EvidenceInv'
BY DEF EvidenceInv, EvidenceForPromotion, Used

LEMMA NextEvidence ==
  BlocksInv /\ PromotionInv /\ EvidenceInv /\ [PromotionNext]_promotionVars => EvidenceInv'
<1> SUFFICES ASSUME BlocksInv, PromotionInv, EvidenceInv,
                    PromotionNext \/ UNCHANGED promotionVars
             PROVE  EvidenceInv'
  OBVIOUS
<1>1. CASE UNCHANGED <<bootstrap, promotion>>
  <2>1. UNCHANGED <<n, used, phase, data, sample, deltas, champion>>
    BY <1>1 DEF bootstrap, replicate, promotion
  <2> QED
    BY <2>1 DEF EvidenceInv, EvidenceForPromotion, Used, Delta, TestPart, Captured, Reviewed,
       ReviewCount, Positives, Precedes
<1>2. CASE Bootstrap
  <2>1. CASE Measure
    BY <2>1, MeasureKeepsEvidence
  <2>2. CASE Finish /\ UNCHANGED promotion
    BY <2>2, FinishHasEvidence
  <2>3. CASE CallWithData \/ DrawRows
    <3>1. deltas' = deltas /\ champion' = champion /\ phase # "done" /\ phase' # "done"
      BY <2>3 DEF CallWithData, Call, DrawRows, Draw
    <3> QED
      BY <3>1, OtherKeepsEvidence DEF PromotionInv
  <2>4. CASE \/ Validate \/ AddGroup \/ CloseLast \/ MergeTail \/ KeepTail
             \/ TooFew \/ Enough \/ TooFewUsed
    <3>1. phase # "done" /\ phase' # "done"
      BY <2>4 DEF Validate, AddGroup, CloseLast, MergeTail, KeepTail, TooFew, Enough, TooFewUsed,
         Fails
    <3>2. UNCHANGED promotion
      BY <1>2, <2>4 DEF Bootstrap, CallWithData, DrawRows, Measure, Call, Draw, EndReplicate,
         Validate, AddGroup, CloseLast, MergeTail, KeepTail, TooFew, Enough, TooFewUsed, Fails
    <3> QED
      BY <3>1, <3>2, OtherKeepsEvidence DEF PromotionInv, promotion
  <2> QED
    BY <1>2, <2>1, <2>2, <2>3, <2>4 DEF Bootstrap
<1>3. CASE Diagnose
  <2>1. deltas' = deltas /\ used' = used /\ phase' = phase /\ champion' \in {"diagnosed", "failed"}
    BY <1>3 DEF Diagnose, bootstrap, replicate
  <2> QED
    BY <2>1, OtherKeepsEvidence
<1>4. CASE Decide
  BY <1>4, DecideHasEvidence
<1>5. CASE Split
  BY <1>1, <1>5 DEF Split
<1>6. CASE UNCHANGED promotionVars
  BY <1>1, <1>6 DEF promotionVars
<1> QED
  BY <1>2, <1>3, <1>4, <1>5, <1>6 DEF PromotionNext

\* Behind a promoted candidate there are enough replicates, at most the share
\* of them below the quantile without uplift, and the uplift asked for on the
\* test part: for test parts, budgets, quantiles and draws of any size.
THEOREM PromotionHasEvidence == PromotionSpec => []EvidenceForPromotion
<1>1. PromotionInit => EvidenceInv
  BY DEF PromotionInit, EvaluationInit, BootstrapInit, EvidenceInv, EvidenceForPromotion, Used
<1>2. EvidenceInv => EvidenceForPromotion
  BY DEF EvidenceInv
<1> QED
  BY <1>1, <1>2, NextEvidence, PromotionInvariant, PromotionEvaluates, BlocksInvariant, PTL
     DEF PromotionSpec

-----------------------------------------------------------------------------
(* The budget: both models review as many rows, however many are alike.    *)

\* R is a strict total order of the places 1 .. m.
Orders(R, m) ==
  /\ \A i \in 1 .. m : <<i, i>> \notin R
  /\ \A i, j, k \in 1 .. m : <<i, j>> \in R /\ <<j, k>> \in R => <<i, k>> \in R
  /\ \A i, j \in 1 .. m : i # j => <<i, j>> \in R \/ <<j, i>> \in R

\* How many places are before each.
Ranks(R, m) == [i \in 1 .. m |-> Cardinality({j \in 1 .. m : <<j, i>> \in R})]

\* No two places have as many before them.
LEMMA RanksAreAll ==
  ASSUME NEW m \in Nat, NEW R, Orders(R, m)
  PROVE  Ranks(R, m) \in Bijection(1 .. m, 0 .. m - 1)
<1> DEFINE P == 1 .. m
           Below(i) == {j \in P : <<j, i>> \in R}
           f == Ranks(R, m)
<1>1. IsFiniteSet(P) /\ Cardinality(P) = m
  BY FS_Interval
<1>2. IsFiniteSet(0 .. m - 1) /\ Cardinality(0 .. m - 1) = m
  <2>1. Cardinality(0 .. m - 1) = IF 0 > m - 1 THEN 0 ELSE (m - 1) - 0 + 1
    BY FS_Interval
  <2> QED
    BY <2>1, FS_Interval
<1> HIDE DEF P
<1>3. \A i \in P : f[i] = Cardinality(Below(i))
  BY DEF Ranks, P
<1>4. ASSUME NEW i \in P
      PROVE  Cardinality(Below(i)) \in 0 .. m - 1
  <2>1. Below(i) \subseteq P \ {i}
    BY DEF Orders, P
  <2>2. IsFiniteSet(P \ {i}) /\ Cardinality(P \ {i}) = m - 1
    BY <1>1, FS_RemoveElement
  <2>3. IsFiniteSet(Below(i)) /\ Cardinality(Below(i)) <= m - 1
    <3> HIDE DEF Below
    <3>1. Below(i) \in SUBSET (P \ {i})
      BY <2>1
    <3> QED
      BY <3>1, <2>2, FS_Subset
  <2>4. Cardinality(Below(i)) \in Nat
    BY <2>3, FS_CardinalityType
  <2> QED
    BY <2>3, <2>4
<1>5. ASSUME NEW i \in P, NEW k \in P, <<i, k>> \in R
      PROVE  Cardinality(Below(i)) # Cardinality(Below(k))
  <2>1. Below(i) \subseteq Below(k)
    BY <1>5 DEF Orders, P
  <2>2. i \in Below(k) /\ i \notin Below(i)
    BY <1>5 DEF Orders, P
  <2>3. Below(i) # Below(k)
    BY <2>2
  <2>4. Below(k) \subseteq P
    OBVIOUS
  <2>5. IsFiniteSet(Below(k))
    BY <1>1, <2>4, FS_Subset
  <2> HIDE DEF Below
  <2> QED
    BY <2>1, <2>3, <2>5, FS_Subset
<1>6. f \in [P -> 0 .. m - 1]
  BY <1>4 DEF Ranks, P
<1>7. f \in Injection(P, 0 .. m - 1)
  <2>1. ASSUME NEW i \in P, NEW k \in P, i # k
        PROVE  f[i] # f[k]
    <3>1. <<i, k>> \in R \/ <<k, i>> \in R
      BY <2>1 DEF Orders, P
    <3> HIDE DEF Below, f
    <3> QED
      BY <3>1, <1>3, <1>5
  <2> HIDE DEF f
  <2> QED
    BY <1>6, <2>1 DEF Injection, IsInjective
<1> HIDE DEF f
<1>8. f \in Surjection(P, 0 .. m - 1)
  BY <1>1, <1>2, <1>7, FS_Injection
<1> QED
  BY <1>7, <1>8 DEF Bijection, f, P

\* The places with fewer than c others before them.
FirstOf(R, m, c) == {i \in 1 .. m : Cardinality({j \in 1 .. m : <<j, i>> \in R}) < c}

LEMMA FirstPlaces ==
  ASSUME NEW m \in Nat, NEW R, Orders(R, m), NEW c \in 0 .. m
  PROVE  IsFiniteSet(FirstOf(R, m, c)) /\ Cardinality(FirstOf(R, m, c)) = c
<1> DEFINE f == Ranks(R, m)
           first == {i \in 1 .. m : f[i] < c}
           g == [i \in first |-> f[i]]
<1>1. f \in [1 .. m -> 0 .. m - 1]
      /\ (\A i, k \in 1 .. m : f[i] = f[k] => i = k)
      /\ \A r \in 0 .. m - 1 : \E i \in 1 .. m : f[i] = r
  <2>1. f \in Bijection(1 .. m, 0 .. m - 1)
    BY RanksAreAll
  <2> HIDE DEF f
  <2> QED
    BY <2>1 DEF Bijection, Injection, Surjection, IsInjective
<1>2. first = FirstOf(R, m, c)
  BY DEF Ranks, FirstOf
<1> HIDE DEF f
<1>3. g \in Bijection(first, 0 .. c - 1)
  <2>1. g \in [first -> 0 .. c - 1]
    BY <1>1
  <2>2. \A i, k \in first : g[i] = g[k] => i = k
    BY <1>1
  <2>3. \A r \in 0 .. c - 1 : \E i \in first : g[i] = r
    <3> SUFFICES ASSUME NEW r \in 0 .. c - 1
                 PROVE  \E i \in first : g[i] = r
      OBVIOUS
    <3>1. r \in 0 .. m - 1 /\ r < c
      OBVIOUS
    <3>2. PICK i \in 1 .. m : f[i] = r
      BY <1>1, <3>1
    <3> QED
      BY <3>1, <3>2
  <2> HIDE DEF g, first
  <2> QED
    BY <2>1, <2>2, <2>3 DEF Bijection, Injection, Surjection, IsInjective
<1> HIDE DEF g, first
<1>4. ExistsBijection(first, 0 .. c - 1)
  BY <1>3 DEF ExistsBijection
<1>5. IsFiniteSet(0 .. c - 1) /\ Cardinality(0 .. c - 1) = c
  <2>1. Cardinality(0 .. c - 1) = IF 0 > c - 1 THEN 0 ELSE (c - 1) - 0 + 1
    BY FS_Interval
  <2> QED
    BY <2>1, FS_Interval
<1>6. ExistsBijection(0 .. c - 1, first)
  BY <1>4, Fun_ExistsBijSymmetric
<1>7. IsFiniteSet(first) /\ Cardinality(first) = c
  BY <1>5, <1>6, FS_Bijection
<1> QED
  BY <1>2, <1>7

\* ReviewCount is the budget's share of the rows, rounded up.
LEMMA ReviewCountIsShare ==
  ASSUME NEW s \in Seq(1 .. n), s # <<>>
  PROVE  /\ ReviewCount(s) \in 1 .. Len(s)
         /\ (ReviewCount(s) - 1) * Budget[2] < Len(s) * Budget[1]
         /\ Len(s) * Budget[1] <= ReviewCount(s) * Budget[2]
<1> DEFINE m == Len(s)
           b == Budget[2]
           a == m * Budget[1]
           x == (a + b - 1) \div b
<1>1. m \in Nat /\ m > 0 /\ b \in Nat /\ Budget[1] \in Nat /\ Budget[1] > 0 /\ Budget[1] <= b
  BY PromotionAssumption DEF Quotients
<1>2. a \in Nat /\ a >= m /\ a <= m * b
  BY <1>1
<1>3. a > 0 /\ b > 0
  BY <1>1, <1>2
<1>4. ReviewCount(s) = AtLeast(1, x)
  BY DEF ReviewCount
<1> HIDE DEF a, b, m
<1>5. x \in Int /\ x * b <= a + b - 1 /\ a + b - 1 < x * b + b
  BY <1>1, <1>2, <1>3
<1> HIDE DEF x
<1>6. (x - 1) * b = x * b - b
  BY <1>1, <1>5
<1>7. x * b \in Int /\ (x - 1) * b < a /\ a <= x * b
  BY <1>1, <1>2, <1>5, <1>6
<1>8. x >= 1
  <2> SUFFICES ASSUME x <= 0
               PROVE  FALSE
    BY <1>5
  <2>1. x * b <= 0
    BY <1>1, <1>3, <1>5
  <2> QED
    BY <2>1, <1>1, <1>2, <1>3, <1>7
<1>9. x <= m
  <2> SUFFICES ASSUME x - 1 >= m
               PROVE  FALSE
    BY <1>1, <1>5
  <2>1. (x - 1) * b >= m * b
    BY <1>1, <1>3, <1>5
  <2>2. (x - 1) * b \in Int /\ m * b \in Int
    BY <1>1, <1>5
  <2> QED
    BY <2>1, <2>2, <1>2, <1>7
<1>10. ReviewCount(s) = x
  BY <1>4, <1>5, <1>8 DEF AtLeast
<1> QED
  BY <1>1, <1>5, <1>7, <1>8, <1>9, <1>10 DEF a, b, m

\* argsort's order is total: ties are broken by position.
LEMMA ReviewsAsMany ==
  ASSUME data \in [1 .. n -> Scored], NEW s \in Seq(1 .. n), s # <<>>,
         NEW model \in {"baseline", "candidate"}
  PROVE  Cardinality(Reviewed(s, model)) = ReviewCount(s)
<1> DEFINE m == Len(s)
           p(i) == data[s[i]][model]
           R == {x \in (1 .. m) \X (1 .. m) : Precedes(s, model, x[1], x[2])}
<1>1. m \in Nat /\ ReviewCount(s) \in 0 .. m
  BY ReviewCountIsShare
<1>2. \A i \in 1 .. m : p(i) \in Nat
  <2> SUFFICES ASSUME NEW i \in 1 .. m
               PROVE  p(i) \in Nat
    OBVIOUS
  <2>1. s[i] \in 1 .. n
    BY ElementOfSeq
  <2>2. data[s[i]] \in Scored
    BY <2>1
  <2> QED
    BY <2>2 DEF Scored
<1>3. \A i, j \in 1 .. m : Precedes(s, model, j, i) <=> p(j) > p(i) \/ (p(j) = p(i) /\ j < i)
  BY DEF Precedes
<1>4. \A i, j \in 1 .. m : <<j, i>> \in R <=> Precedes(s, model, j, i)
  OBVIOUS
<1> HIDE DEF R, p, m
<1>5. Orders(R, m)
  <2>1. \A i \in 1 .. m : <<i, i>> \notin R
    BY <1>1, <1>2, <1>3, <1>4
  <2>2. ASSUME NEW i \in 1 .. m, NEW j \in 1 .. m, NEW k \in 1 .. m,
               <<i, j>> \in R, <<j, k>> \in R
        PROVE  <<i, k>> \in R
    <3>1. p(i) \in Nat /\ p(j) \in Nat /\ p(k) \in Nat
      BY <1>2
    <3>2. p(i) > p(j) \/ (p(i) = p(j) /\ i < j)
      BY <2>2, <1>3, <1>4
    <3>3. p(j) > p(k) \/ (p(j) = p(k) /\ j < k)
      BY <2>2, <1>3, <1>4
    <3>4. p(i) > p(k) \/ (p(i) = p(k) /\ i < k)
      BY <3>1, <3>2, <3>3, <1>1
    <3> QED
      BY <3>4, <1>3, <1>4
  <2>3. ASSUME NEW i \in 1 .. m, NEW j \in 1 .. m, i # j
        PROVE  <<i, j>> \in R \/ <<j, i>> \in R
    <3>1. p(i) \in Nat /\ p(j) \in Nat
      BY <1>2
    <3>2. \/ p(i) > p(j) \/ (p(i) = p(j) /\ i < j)
          \/ p(j) > p(i) \/ (p(j) = p(i) /\ j < i)
      <4>1. i < j \/ j < i
        BY <2>3, <1>1
      <4>2. p(i) > p(j) \/ p(j) > p(i) \/ p(i) = p(j)
        BY <3>1
      <4> QED
        BY <4>1, <4>2
    <3> QED
      BY <3>2, <1>3, <1>4
  <2> QED
    BY <2>1, <2>2, <2>3 DEF Orders
<1>6. \A i \in 1 .. m : {j \in 1 .. m : <<j, i>> \in R}
                         = {j \in 1 .. m : Precedes(s, model, j, i)}
  BY <1>4
<1>7. Reviewed(s, model) = FirstOf(R, m, ReviewCount(s))
  BY <1>6 DEF Reviewed, FirstOf, m
<1> QED
  BY <1>1, <1>5, <1>7, FirstPlaces

\* Of the rows the comparison is made on: both models review the budget's share
\* of them, rounded up, and neither gets a row more for its ties.
SameCapacity ==
  \A s \in {sample, TestPart} : s # <<>> =>
    \A model \in {"baseline", "candidate"} :
      LET reviews == Cardinality(Reviewed(s, model))
      IN  /\ reviews \in 1 .. Len(s)
          /\ (reviews - 1) * Budget[2] < Len(s) * Budget[1]
          /\ Len(s) * Budget[1] <= reviews * Budget[2]

\* The capture of the two models is compared at one capacity, on the test part
\* and on every replicate, for any probabilities, ties included.
THEOREM ComparedAtOneCapacity == PromotionSpec => []SameCapacity
<1>1. BlocksInv /\ PromotionInv => SameCapacity
  <2> SUFFICES ASSUME BlocksInv, PromotionInv, NEW s \in {sample, TestPart}, s # <<>>,
                      NEW model \in {"baseline", "candidate"}
               PROVE  LET reviews == Cardinality(Reviewed(s, model))
                      IN  /\ reviews \in 1 .. Len(s)
                          /\ (reviews - 1) * Budget[2] < Len(s) * Budget[1]
                          /\ Len(s) * Budget[1] <= reviews * Budget[2]
    BY DEF SameCapacity
  <2>1. n \in Nat
    BY DEF BlocksInv, BootstrapTypeOK
  <2>2. TestPart \in Seq(1 .. n)
    BY <2>1 DEF TestPart
  <2>3. s \in Seq(1 .. n) /\ data \in [1 .. n -> Scored]
    BY <2>2 DEF PromotionInv
  <2> QED
    BY <2>3, ReviewCountIsShare, ReviewsAsMany
<1> QED
  BY <1>1, PromotionInvariant, PromotionEvaluates, BlocksInvariant, PTL
=============================================================================
