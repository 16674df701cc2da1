------------------------- MODULE TransactionMassBlocks -------------------------
(***************************************************************************)
(* _build_transaction_mass_blocks and the draws of                         *)
(* _transaction_mass_bootstrap: the test partition is cut into blocks of   *)
(* whole timestamps near a target size, and each replicate draws whole     *)
(* blocks until it has enough rows.  A block is the range of rows          *)
(* from + 1 .. to of the stream.                                           *)
(*                                                                         *)
(* The module composes the bootstrap with the split before it: a training  *)
(* run splits, splits the validation part, and bootstraps the test part; a *)
(* frozen transfer only splits before it does.                             *)
(***************************************************************************)
EXTENDS ChronologicalSplit, Sequences

CONSTANTS Target,      \* target_block_rows
          Floor,       \* 1000, the least minimum_tail_rows
          SampleSize,  \* sample_size_target
          Repeats,
          MinUsed      \* 50

ASSUME BlockAssumption ==
  /\ Floor \in Nat \ {0}
  /\ Target \in Nat /\ Target >= Floor
  /\ SampleSize \in Nat /\ SampleSize >= Target
  /\ Repeats \in Nat
  /\ MinUsed \in Nat

VARIABLES n, stream,   \* event_times: the rows of the test part and their times
          phase,       \* of the bootstrap
          start,       \* block_start: the rows before the open block
          at,          \* the rows before the next timestamp group
          blocks,
          rows,        \* selected_rows of the replicate being drawn
          drawn,       \* replicates drawn
          used,        \* those of them with positives
          sampled      \* rows of the last replicate

replicate == <<rows, drawn, used, sampled>>
bootstrap == <<n, stream, phase, start, at, blocks, replicate>>

MinimumTail == IF Target \div 2 > Floor THEN Target \div 2 ELSE Floor

BootstrapInit == /\ n = 0
                 /\ stream = <<>>
                 /\ phase = "idle"
                 /\ start = 0
                 /\ at = 0
                 /\ blocks = <<>>
                 /\ rows = 0
                 /\ drawn = 0
                 /\ used = 0
                 /\ sampled = 0

-----------------------------------------------------------------------------
\* test["event_time"], of an accepted split: of one that goes on to split the
\* validation part once that is done, of a transfer's at once.
Call == /\ phase = "idle"
        /\ pc \in {"split", "done"}
        /\ n' = total - validationEnd
        /\ stream' = [i \in 1 .. total - validationEnd |-> time[validationEnd + i]]
        /\ phase' = "validate"
        /\ UNCHANGED <<start, at, blocks, replicate>>

Fails(from) == /\ phase = from
               /\ phase' = "failed"
               /\ UNCHANGED <<n, stream, start, at, blocks, replicate>>

InOrder == \A i, j \in 1 .. n : i <= j => stream[i] <= stream[j]

\* An empty stream, one that is not sorted or one without positives is
\* refused; labels are not in the model, and any stream may lack positives.
Refuse == Fails("validate")

Validate == /\ phase = "validate"
            /\ n > 0
            /\ InOrder
            /\ phase' = "group"
            /\ UNCHANGED <<n, stream, start, at, blocks, replicate>>

\* The rows at + 1 .. e have one timestamp, and row e + 1 another.
Group(e) == /\ \A i \in at + 1 .. e : stream[i] = stream[at + 1]
            /\ e < n => stream[e + 1] # stream[at + 1]

SizeReachedAnyway(e) == at - start > 0 /\ e - start > Target

\* The open block is closed before a group that would take it past the target,
\* unless it would be smaller than a tail may be.
SizeReached(e) == /\ at - start > 0
                  /\ e - start > Target
                  /\ at - start >= MinimumTail

AddGroup == /\ phase = "group"
            /\ at < n
            /\ \E e \in at + 1 .. n :
                 /\ Group(e)
                 /\ at' = e
                 /\ IF SizeReached(e)
                    THEN /\ blocks' = Append(blocks, [from |-> start, to |-> at])
                         /\ start' = at
                    ELSE UNCHANGED <<blocks, start>>
            /\ UNCHANGED <<n, stream, phase, replicate>>

\* The last block, which the loop leaves open.
CloseLast == /\ phase = "group"
             /\ at = n
             /\ blocks' = Append(blocks, [from |-> start, to |-> n])
             /\ start' = n
             /\ phase' = "tail"
             /\ UNCHANGED <<n, stream, at, replicate>>

ShortTail == /\ Len(blocks) >= 2
             /\ n - blocks[Len(blocks)].from < MinimumTail

MergeTailLosesIt == /\ phase = "tail"
                    /\ ShortTail
                    /\ blocks' = SubSeq(blocks, 1, Len(blocks) - 1)
                    /\ phase' = "count"
                    /\ UNCHANGED <<n, stream, start, at, replicate>>

\* A short last block joins the one before it.
MergeTail == /\ phase = "tail"
             /\ ShortTail
             /\ LET m == Len(blocks) - 1
                IN  blocks' = Append(SubSeq(blocks, 1, m - 1),
                                     [from |-> blocks[m].from, to |-> n])
             /\ phase' = "count"
             /\ UNCHANGED <<n, stream, start, at, replicate>>

KeepTail == /\ phase = "tail"
            /\ ~ShortTail
            /\ phase' = "count"
            /\ UNCHANGED <<n, stream, start, at, blocks, replicate>>

TooFew == Len(blocks) < 2 /\ Fails("count")

Enough == /\ phase = "count"
          /\ Len(blocks) >= 2
          /\ phase' = "draw"
          /\ UNCHANGED <<n, stream, start, at, blocks, replicate>>

\* while selected_rows < sample_size_target: one more block, with replacement.
Draw == /\ phase = "draw"
        /\ drawn < Repeats
        /\ rows < SampleSize
        /\ \E b \in 1 .. Len(blocks) : rows' = rows + (blocks[b].to - blocks[b].from)
        /\ UNCHANGED <<n, stream, phase, start, at, blocks, drawn, used, sampled>>

EndReplicateAtTarget == /\ phase = "draw"
                        /\ drawn < Repeats
                        /\ rows >= Target
                        /\ sampled' = rows
                        /\ rows' = 0
                        /\ drawn' = drawn + 1
                        /\ used' \in {used, used + 1}
                        /\ UNCHANGED <<n, stream, phase, start, at, blocks>>

\* A replicate without positives is not used, but uses up a repeat.
EndReplicate == /\ phase = "draw"
                /\ drawn < Repeats
                /\ rows >= SampleSize
                /\ sampled' = rows
                /\ rows' = 0
                /\ drawn' = drawn + 1
                /\ used' \in {used, used + 1}
                /\ UNCHANGED <<n, stream, phase, start, at, blocks>>

Insufficient == used < MinUsed \/ used < Repeats \div 2

TooFewUsed == /\ drawn = Repeats
              /\ Insufficient
              /\ Fails("draw")

Finish == /\ phase = "draw"
          /\ drawn = Repeats
          /\ ~Insufficient
          /\ phase' = "done"
          /\ UNCHANGED <<n, stream, start, at, blocks, replicate>>

BootstrapNext == \/ Refuse
                 \/ Validate
                 \/ AddGroup
                 \/ CloseLast
                 \/ MergeTail
                 \/ KeepTail
                 \/ TooFew
                 \/ Enough
                 \/ Draw
                 \/ EndReplicate
                 \/ TooFewUsed
                 \/ Finish

EvaluationInit == Init /\ BootstrapInit

EvaluationNext == \/ phase = "idle" /\ Next /\ UNCHANGED bootstrap
                  \/ (Call \/ BootstrapNext) /\ UNCHANGED vars

EvaluationSpec == EvaluationInit /\ [][EvaluationNext]_<<vars, bootstrap>>

-----------------------------------------------------------------------------
Blocks == [from : 0 .. n, to : 0 .. n]

(* Type invariant.                                                         *)
BootstrapTypeOK ==
  /\ n \in Nat
  /\ stream \in [1 .. n -> Times]
  /\ phase \in {"idle", "validate", "group", "tail", "count", "draw", "done", "failed"}
  /\ start \in 0 .. n
  /\ at \in 0 .. n
  /\ blocks \in Seq(Blocks)
  /\ rows \in Nat
  /\ drawn \in 0 .. Repeats
  /\ used \in 0 .. drawn
  /\ sampled \in Nat

\* Rows up to e and those after it share no timestamp.
Whole(e) == \A i, j \in 1 .. n : i <= e /\ e < j => stream[i] < stream[j]

\* blocks are in order, without a gap or an overlap, from the first row to
\* row `last', none is empty and none cuts a timestamp.
Tile(last) ==
  /\ \A b \in 1 .. Len(blocks) : blocks[b].from < blocks[b].to /\ Whole(blocks[b].to)
  /\ \A b \in 1 .. Len(blocks) - 1 : blocks[b].to = blocks[b + 1].from
  /\ Len(blocks) > 0 => blocks[1].from = 0 /\ blocks[Len(blocks)].to = last

\* The bootstrap resamples every test row, none of them twice per block drawn,
\* and never a part of a timestamp.
BlocksTileTheStream == phase \in {"draw", "done"} => Len(blocks) >= 2 /\ Tile(n)

\* No block is smaller than the minimum tail: the last is merged, and the
\* others are not closed before they have it.
NoSmallBlock ==
  phase \in {"draw", "done"} =>
    \A b \in 1 .. Len(blocks) : blocks[b].to - blocks[b].from >= MinimumTail

\* What the loop keeps, from which the two follow.
BlocksInv ==
  /\ BootstrapTypeOK
  /\ phase \notin {"idle", "validate", "failed"} => n > 0 /\ InOrder
  /\ phase \in {"idle", "validate"} => start = 0 /\ at = 0 /\ blocks = <<>>
  /\ phase = "group" => /\ start <= at
                        /\ start < at \/ at = 0
                        /\ Whole(start) /\ Whole(at)
                        /\ Len(blocks) = 0 => start = 0
  /\ phase \in {"group", "tail", "count", "draw", "done"} => Tile(start)
  /\ phase \in {"tail", "count", "draw", "done"} => start = n /\ Len(blocks) > 0
  /\ phase \in {"draw", "done"} => Len(blocks) >= 2
  /\ phase \in {"group", "tail"} =>
       \A b \in 1 .. Len(blocks) - (IF phase = "tail" THEN 1 ELSE 0) :
         blocks[b].to - blocks[b].from >= MinimumTail
  /\ phase \in {"count", "draw", "done"} =>
       \A b \in 1 .. Len(blocks) :
         Len(blocks) >= 2 => blocks[b].to - blocks[b].from >= MinimumTail

\* A replicate has the rows asked for, and less than a block more.
ReplicateHasTargetMass ==
  sampled > 0 =>
    /\ sampled >= SampleSize
    /\ \E b \in 1 .. Len(blocks) : sampled - SampleSize < blocks[b].to - blocks[b].from
=============================================================================
