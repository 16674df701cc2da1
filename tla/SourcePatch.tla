----------------------------- MODULE SourcePatch -----------------------------
(***************************************************************************)
(* The hardening of modeling.py from v0.9.2 to v0.9.3, by a script that    *)
(* edits the source text, and the programs that import what is on disk.    *)
(*                                                                         *)
(* The text is cut into the stretches around the eleven edits, in the      *)
(* order of the file, and a marker that ends a patched file.  The edits    *)
(* are done in memory; the result is written over the file, and a patcher  *)
(* that dies leaves a part of it.  A stretch that is cut in two counts as  *)
(* missing.  Patchers run one after another; one that refuses to patch, or *)
(* finds the marker, changes nothing and is no step.                       *)
(***************************************************************************)
EXTENDS ExperimentRuns

CONSTANT Originals \* texts of modeling.py before any patch

\* What an edit matches: an insertion that is skipped when its text is there,
\* one that matches its own result as well, a whole function that is replaced
\* whatever is in it, and a text that is gone once it is replaced.
Kinds == <<"guarded",  \* import json
           "guarded",  \* bootstrap fields
           "inserted", \* candidate fields
           "inserted", \* bootstrap validation
           "replaced", \* split_chronologically
           "inserted", \* bank identity ablation
           "inserted", \* GPU device
           "replaced", \* _bootstrap_capture_delta
           "once",     \* its call
           "once",     \* candidate artifact and provenance
           "once">>    \* report

Edits == 1 .. 11

\* Overlays had some insertions already; "other" is a shape that no edit knows.
Unpatched == {t \in [Edits -> {"old", "new", "other"}] :
                \A i \in Edits : t[i] = "new" => Kinds[i] = "guarded"}

Patched == [i \in 1 .. 12 |-> IF i = 12 THEN "marker" ELSE "new"]

ASSUME OriginalsAssumption == Originals \subseteq Unpatched \cup {Patched}

VARIABLES text,     \* the stretches in modeling.py
          patch,    \* the text that a patcher is writing, or <<>>
          original  \* the text before any patch

sourceVars == <<text, patch, original>>
patchVars == <<vars, sourceVars>>

PatchInit == /\ Init
             /\ text \in Originals
             /\ original = text
             /\ patch = <<>>

-----------------------------------------------------------------------------
(* patch_modeling.                                                         *)

Stretch(t, i) == IF i <= Len(t) THEN t[i] ELSE "missing"

\* Edits without their match counts.
EditedUnchecked(kind, shape) ==
  IF kind = "inserted" /\ shape \in {"new", "again"} THEN "again"
  ELSE IF shape = "old" THEN "new" ELSE shape

Edited(kind, shape) ==
  IF kind = "inserted" /\ shape \in {"new", "again"} THEN "again"
  ELSE IF shape = "old" \/ (kind \in {"guarded", "replaced"} /\ shape = "new") THEN "new"
  ELSE "fails"

\* All edits, in memory, and the marker at the end.
Result(t) == [i \in 1 .. 12 |-> IF i = 12 THEN "marker" ELSE Edited(Kinds[i], Stretch(t, i))]

Marked(t) == \E i \in 1 .. Len(t) : t[i] = "marker"

\* The source is read and edited; when all edits match, the file is opened for
\* writing, which empties it ...
StartPatch == /\ patch = <<>>
              /\ ~Marked(text)
              /\ \A i \in Edits : Result(text)[i] # "fails"
              /\ patch' = Result(text)
              /\ text' = <<>>
              /\ UNCHANGED <<vars, original>>

\* ... and filled.
WritePatch == /\ patch # <<>>
              /\ Len(text) < Len(patch)
              /\ text' = Append(text, patch[Len(text) + 1])
              /\ UNCHANGED <<vars, patch, original>>

EndPatch == /\ patch # <<>>
            /\ Len(text) = Len(patch)
            /\ patch' = <<>>
            /\ UNCHANGED <<vars, text, original>>

PatcherDies == /\ patch # <<>>
               /\ Len(text) < Len(patch)
               /\ patch' = <<>>
               /\ UNCHANGED <<vars, text, original>>

-----------------------------------------------------------------------------
(* Programs.                                                               *)

\* The functions up to the n-th stretch can be imported, in their old or new
\* shape.  What a program imports it keeps.
Importable(n, shape) == /\ n <= Len(text)
                        /\ \A i \in 3 .. n : text[i] = shape

\* run_champion_challenger is at the end of the file.  The programs of v0.9.4
\* and both transfers import the helpers that come before it, and need them
\* patched.
Imports(r) == CASE Version[r] = "v0.9.2" -> Importable(11, "old")
                [] Version[r] = "v0.9.3" -> Importable(11, "new")
                [] Version[r] = "v0.9.4" -> Importable(8, "new")

Programs ==
  /\ \/ \E r \in Runs, d \in Dirs : Imports(r) /\ Start(r, d)
     \/ \E r \in Runs : BeginWrite(r) \/ EndWrite(r) \/ Stop(r)
     \/ \E t \in Transfers, d \in Dirs, v \in {"v0.9.3", "v0.9.4"} :
          Importable(8, "new") /\ (ReadMetrics(t, d, v) \/ NoMetrics(t, d, v))
     \/ \E t \in Transfers : \/ CheckModels(t)
                             \/ ModelsMissing(t)
                             \/ Load(t)
                             \/ ReadMetadata(t)
                             \/ Hash(t)
                             \/ Report(t)
                             \/ StopTransfer(t)
  /\ UNCHANGED sourceVars

PatchNext == \/ StartPatch
             \/ WritePatch
             \/ EndPatch
             \/ PatcherDies
             \/ Programs

PatchSpec == PatchInit /\ [][PatchNext]_patchVars

-----------------------------------------------------------------------------
\* "It modifies only recognized v0.9.2 source shapes": however often the script
\* is run, and wherever it dies, the file is what it was before or as much of
\* one complete patch of a recognized text as was written: nothing is ever
\* edited twice or in part, and what is not recognized is not touched.
PatchIsAllOrNothing ==
  \/ text = original
  \/ /\ original \in [Edits -> {"old", "new"}]
     /\ Len(text) <= 12
     /\ \A i \in 1 .. Len(text) : text[i] = Patched[i]

\* With what it rests on: the one text that is ever written.
PatchInv ==
  /\ PatchIsAllOrNothing
  /\ original \in Originals
  /\ patch # <<>> =>
       /\ patch = Patched
       /\ text # original
       /\ original \in [Edits -> {"old", "new"}]
=============================================================================
